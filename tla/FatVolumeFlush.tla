--------------------------- MODULE FatVolumeFlush ---------------------------
(***************************************************************************)
(* Theorems about FatVolume: what reaches the medium.  For every geometry, *)
(* set of names and of handles.  Where transfers succeed, what f_sync and  *)
(* f_close have promised survives every later function and every power     *)
(* loss.  Where nothing fails at all, the free count is exact, no cluster  *)
(* is lost, and when no file is open there is nothing left to flush.       *)
(***************************************************************************)
EXTENDS FatVolumeProofs

-----------------------------------------------------------------------------
(* The first invariant: entries and FIL objects.                           *)

(* No name is twice in the directory, and nothing follows the end mark.    *)
NamesIn(D) ==
    /\ \A i, j \in Slots : Live(D, i) /\ D[i].name = D[j].name => i = j
    /\ \A i, j \in Slots : i < j /\ D[i].name = End => D[j].name = End

(* A FIL with nothing to save has the size of its entry, any other one no  *)
(* smaller a size; one that f_close has flushed is not written again.      *)
FitsEntry(D, g) ==
    /\ ~g.open => g = ClosedFil
    /\ g.open => /\ g.fsize >= D[g.slot].size
                 /\ ~g.written => g.fsize = D[g.slot].size
    /\ g.written => g.write /\ ~g.closing

(* What the running function knows of its FIL.                             *)
Filing ==
    /\ pc \in Growing \cup {"seek"} => ~fil[op.h].closing
    /\ pc = "seek" /\ ~fil[op.h].write =>
          fil[op.h].fptr + op.ofs <= fil[op.h].fsize
    /\ pc = "open_back" \/ (pc = "remove" /\ op.ret = "open_back") =>
          ~fil[op.h].open
    /\ pc \in {"sync", "fsinfo"} /\ op.ret \in {"synced", "closed"} =>
          /\ fil[op.h].open /\ fil[op.h].slot = op.slot /\ fil[op.h].write
          /\ ~fil[op.h].written
          /\ op.to = "-"
    /\ op.to # "-" => pc \in {"rename_remove", "sync", "fsinfo"}
    /\ pc = "rename_remove" => dir[op.slot].name = op.from

FilesFit == \A h \in Handles : FitsEntry(dir, fil[h])

Filed == NamesIn(dir) /\ NamesIn(ddir) /\ FilesFit /\ Filing

-----------------------------------------------------------------------------
(* The second: promises.                                                   *)

Holds(D, n, z) == \E i \in Slots : D[i].name = n /\ D[i].size >= z

Promises(D) ==
    \A n \in Names : durable[n] # Unknown =>
        \/ Holds(D, n, durable[n])
        \/ op.to # "-" /\ op.from = n /\ Holds(D, op.to, durable[n])

Written(i) == \E h \in Handles : fil[h].open /\ fil[h].slot = i /\ fil[h].written

(* The running function will flush the change of entry i.                  *)
Attended(i) == \/ pc \in {"sync", "rename_remove"}
               \/ pc = "remove" /\ op.ret = "sync"
               \/ pc \in {"remove", "open_back"} /\ op.slot = i

(* An entry is ahead of the medium only while somebody is to flush it.     *)
Behind == \A i \in Slots : dir[i] # ddir[i] => Written(i) \/ Attended(i)

(* While a file is renamed its promise goes over to the new entry.         *)
Renaming ==
    op.to # "-" =>
        /\ durable[op.from] # Unknown => Holds(dir, op.to, durable[op.from])
        /\ durable[op.to] = Unknown /\ op.to # op.from

Promised == Promises(dir) /\ Promises(ddir) /\ Behind /\ Renaming

SyncInv == ChainsInv /\ Filed /\ Promised

Sure == Scope /\ "io" \notin Faults

-----------------------------------------------------------------------------
(* What the steps have in common.                                          *)

LEMMA NothingFails ==
    ASSUME Sure
    PROVE  /\ Exclusive
           /\ \A S : ~VisitFails(S) /\ ~WriteBackFails(S) /\ ~LoadFails(S)
BY DEF Sure, Scope, VisitFails, WriteBackFails, LoadFails

LEMMA FlushTypes ==
    ASSUME ChainsInv
    PROVE  /\ \A h \in Handles :
                 /\ fil[h] \in Fil /\ fil[h].fptr \in Nat /\ fil[h].fsize \in Nat
                 /\ fil[h].sclust \in {0} \cup Clusters
                 /\ fil[h].open => fil[h].slot \in Slots
                 /\ fil[h].open /\ pc # "rename_remove" => Live(dir, fil[h].slot)
           /\ \A i \in Slots : /\ dir[i] \in Entry /\ dir[i].size \in Nat
                               /\ ddir[i] \in Entry /\ ddir[i].size \in Nat
           /\ dir \in [Slots -> Entry] /\ ddir \in [Slots -> Entry]
           /\ fil \in [Handles -> Fil] /\ op \in Op
           /\ durable \in [Names -> {Unknown} \cup 0 .. MaxSize]
           /\ VolumeInv /\ Owners /\ RunHeads /\ Locals
<1>1. /\ VolumeInv /\ Owners /\ RunHeads /\ Locals
      /\ fil \in [Handles -> Fil] /\ op \in Op
      /\ \A i \in Slots : dir[i] \in Entry /\ dir[i].size \in Nat
      /\ \A h \in Handles : /\ fil[h] \in Fil /\ fil[h].fptr \in Nat
                            /\ fil[h].fsize \in Nat
                            /\ fil[h].sclust \in {0} \cup Clusters
  BY ChainsTypes
<1>2. /\ dir \in [Slots -> Entry] /\ ddir \in [Slots -> Entry]
      /\ durable \in [Names -> {Unknown} \cup 0 .. MaxSize]
  BY <1>1 DEF VolumeInv, TypeOK
<1>3. \A i \in Slots : ddir[i] \in Entry /\ ddir[i].size \in Nat
  BY <1>2, VolumeAssumption DEF Entry, VolumeAssumption
<1>4. \A h \in Handles : fil[h].open => fil[h].slot \in Slots
  BY <1>1, OpenFilSlot
<1>5. \A h \in Handles : fil[h].open /\ pc # "rename_remove" => Live(dir, fil[h].slot)
  BY <1>1, PrunedIsDir DEF Owners, Heads, Agrees
<1>6. QED
  BY <1>1, <1>2, <1>3, <1>4, <1>5

(* Two FILs on one entry are both open for reading.                        *)
LEMMA SharedForReading ==
    ASSUME ChainsInv, pc # "rename_remove", NEW h \in Handles, NEW k \in Handles,
           h # k, fil[h].open, fil[k].open, fil[h].slot = fil[k].slot
    PROVE  ~fil[h].write /\ ~fil[k].write
BY FlushTypes, PrunedIsDir DEF Owners, Heads, Apart

(* A search finds the entry of a name that is in the directory.            *)
LEMMA NameFound ==
    ASSUME NamesIn(dir), NEW n \in Names, NEW i \in Slots, dir[i].name = n
    PROVE  i \in Found(n)
<1>1. n # End
  BY VolumeAssumption DEF VolumeAssumption, End
<1>2. \A j \in Before(i - 1) : j \in Slots /\ j < i /\ j # i
  BY VolumeAssumption DEF Before, Slots, VolumeAssumption
<1>3. \A j \in Before(i - 1) : dir[j].name # n /\ dir[j].name # End
  BY <1>1, <1>2 DEF NamesIn, Live
<1>4. QED
  BY <1>3 DEF Found, Reached

(* How a step in create_chain or remove_chain goes on.                     *)
LEMMA ChainShape ==
    ASSUME VolumeInv, Sure, ChainStep
    PROVE  /\ UNCHANGED <<dir, fil, durable, mounted, dfsi>>
           /\ op'.h = op.h /\ op'.slot = op.slot /\ op'.ret = op.ret
           /\ op'.to = op.to /\ op'.from = op.from /\ op'.ofs = op.ofs
           /\ \/ /\ pc \in {"create", "link"} /\ pc' \in {"link", op.ret}
                 /\ op.ret \in {"write_got", "seek_first", "seek_got"}
              \/ /\ pc = "remove" /\ pc' \in {"remove", op.ret}
                 /\ op.ret \in {"open_back", "sync"}
<1>0. op \in Op /\ Locals
  BY InvTypes
<1>1. UNCHANGED <<fil, durable, mounted, dfsi>>
  BY DEF ChainStep
<1>2. CASE pc \in {"create", "link"}
  <2>1. op.ret \in {"write_got", "seek_first", "seek_got"}
    BY <1>0, <1>2 DEF Locals, Pending
  <2>2. /\ dir' = dir
        /\ \/ pc' = op.ret /\ \E res, ncl : op' = [op EXCEPT !.res = res, !.ncl = ncl]
           \/ pc' = "link" /\ \E ncl : op' = [op EXCEPT !.ncl = ncl]
    BY <1>2, NothingFails
    DEF ChainStep, ChainFollowed, ChainBroken, ChainMark, ChainFull, ChainLink,
        ChainFails, RemoveLink, RemoveStops, RemoveFails, Return
  <2>3. QED
    BY <1>0, <1>1, <1>2, <2>1, <2>2 DEF Op
<1>3. CASE pc = "remove"
  <2>1. op.ret \in {"open_back", "sync"}
    BY <1>0, <1>3 DEF Locals
  <2>2. /\ dir' = dir
        /\ \/ pc' = op.ret /\ op' = op
           \/ pc' = "remove" /\ \E cl : op' = [op EXCEPT !.cl = cl]
    BY <1>3, NothingFails
    DEF ChainStep, ChainFollowed, ChainBroken, ChainMark, ChainFull, ChainLink,
        ChainFails, RemoveLink, RemoveStops, RemoveFails, Goto
  <2>3. QED
    BY <1>0, <1>1, <1>3, <2>1, <2>2 DEF Op
<1>4. QED
  BY <1>2, <1>3, StepsStart

LEMMA FinishFiling == Finish => Filing'
BY DEF Finish, Filing, Growing, NoOp

LEMMA FilesFitPut ==
    ASSUME FilesFit, fil \in [Handles -> Fil], UNCHANGED dir,
           NEW h \in Handles, NEW g, fil' = [fil EXCEPT ![h] = g],
           FitsEntry(dir, g)
    PROVE  FilesFit'
BY DEF FilesFit

(* A FIL moves, grows or is marked.                                        *)
LEMMA FilGrown ==
    ASSUME ChainsInv, FilesFit, NEW h \in Handles, fil[h].open, UNCHANGED dir,
           NEW g, fil' = [fil EXCEPT ![h] = g],
           g.open, g.slot = fil[h].slot, g.write = fil[h].write,
           g.closing = fil[h].closing,
           \/ g.written = fil[h].written /\ g.fsize = fil[h].fsize
           \/ /\ g.written /\ fil[h].write /\ ~fil[h].closing
              /\ g.fsize \in Nat /\ g.fsize >= fil[h].fsize
    PROVE  FilesFit'
<1>1. /\ fil[h] \in Fil /\ fil[h].fsize \in Nat /\ fil[h].slot \in Slots
      /\ dir[fil[h].slot].size \in Nat /\ fil \in [Handles -> Fil]
  BY FlushTypes
<1>2. /\ fil[h].fsize >= dir[fil[h].slot].size
      /\ ~fil[h].written => fil[h].fsize = dir[fil[h].slot].size
      /\ fil[h].written => fil[h].write /\ ~fil[h].closing
  BY DEF FilesFit, FitsEntry
<1>3. FitsEntry(dir, g)
  BY <1>1, <1>2 DEF FitsEntry
<1>4. QED
  BY <1>1, <1>3, FilesFitPut

-----------------------------------------------------------------------------
(* Entries and FIL objects: every step.                                    *)

LEMMA ChainStepFiled ==
    ASSUME Sure, ChainsInv, Filed, ChainStep
    PROVE  NamesIn(dir') /\ FilesFit' /\ Filing'
<1>1. /\ UNCHANGED <<dir, fil>>
      /\ op'.h = op.h /\ op'.slot = op.slot /\ op'.ret = op.ret /\ op'.to = op.to
      /\ \/ /\ pc \in {"create", "link"} /\ pc' \in {"link", op.ret}
            /\ op.ret \in {"write_got", "seek_first", "seek_got"}
         \/ /\ pc = "remove" /\ pc' \in {"remove", op.ret}
            /\ op.ret \in {"open_back", "sync"}
  BY FlushTypes, ChainShape
<1>2. Filing'
  BY <1>1 DEF Filed, Filing, Growing
<1>3. QED
  BY <1>1, <1>2 DEF Filed, FilesFit

(* A slot that dir_alloc may take, and what becomes of it.                 *)
LEMMA NamesAdded ==
    ASSUME NamesIn(dir), NEW i \in Slots, AllocSlot(i), NEW n \in Names,
           Found(n) = {}, dir \in [Slots -> Entry],
           NEW e, e.name = n, dir' = [dir EXCEPT ![i] = e]
    PROVE  NamesIn(dir')
<1>1. \A j \in Slots : dir[j].name # n
  BY NameFound
<1>2. dir'[i].name = n /\ \A j \in Slots \ {i} : dir'[j] = dir[j]
  OBVIOUS
<1>3. n # End
  BY VolumeAssumption DEF VolumeAssumption, End
<1>4. \A j, k \in Slots : Live(dir', j) /\ dir'[j].name = dir'[k].name => j = k
  BY <1>1, <1>2 DEF NamesIn, Live
<1>5. ASSUME NEW j \in Slots, NEW k \in Slots, j < k, dir'[j].name = End
      PROVE  dir'[k].name = End
  <2>1. j # i /\ dir[j].name = End
    BY <1>2, <1>3, <1>5
  <2>2. CASE k = i
    <3>1. j \in Before(i - 1) /\ j \in FreeSlots
      BY <1>5, <2>1, <2>2 DEF Before, FreeSlots, Slots
    <3>2. QED
      BY <3>1 DEF AllocSlot
  <2>3. CASE k # i
    BY <1>2, <1>5, <2>1, <2>3 DEF NamesIn
  <2>4. QED
    BY <2>2, <2>3
<1>6. QED
  BY <1>4, <1>5 DEF NamesIn

(* A live entry is erased, or changes in all but its name.                 *)
LEMMA NamesChanged ==
    ASSUME NamesIn(dir), NEW i \in Slots, Live(dir, i), dir \in [Slots -> Entry],
           NEW e, e.name = dir[i].name \/ e.name = Deleted,
           dir' = [dir EXCEPT ![i] = e]
    PROVE  NamesIn(dir')
<1>1. dir'[i] = e /\ \A j \in Slots \ {i} : dir'[j] = dir[j]
  OBVIOUS
<1>2. Deleted \notin Names /\ End \notin Names /\ Deleted # End
  BY VolumeAssumption DEF VolumeAssumption, End, Deleted
<1>3. \A j, k \in Slots : Live(dir', j) /\ dir'[j].name = dir'[k].name => j = k
  BY <1>1, <1>2 DEF NamesIn, Live
<1>4. \A j, k \in Slots : j < k /\ dir'[j].name = End => dir'[k].name = End
  BY <1>1, <1>2 DEF NamesIn, Live
<1>5. QED
  BY <1>3, <1>4 DEF NamesIn

(* An entry changes that no FIL is open on.                                *)
LEMMA FilesFitEdit ==
    ASSUME ChainsInv, FilesFit, NEW i \in Slots, OpenOn(i) = {}, UNCHANGED fil,
           \A j \in Slots \ {i} : dir'[j] = dir[j]
    PROVE  FilesFit'
<1>1. \A h \in Handles : fil[h].open => fil[h].slot \in Slots \ {i}
  BY FlushTypes DEF OpenOn
<1>2. QED
  BY <1>1 DEF FilesFit, FitsEntry

LEMMA CreatedFilFields ==
    ASSUME NEW i, NEW g, g = NewFil(i, TRUE, TRUE, 0, 0)
    PROVE  /\ g.open /\ g.slot = i /\ g.write /\ g.fsize = 0 /\ g.written
           /\ ~g.closing /\ g.sclust = 0
BY DEF NewFil, ClosedFil

LEMMA OpenStepFiled ==
    ASSUME Sure, ChainsInv, Filed, OpenStep
    PROVE  NamesIn(dir') /\ FilesFit' /\ Filing'
<1>0. /\ fil \in [Handles -> Fil] /\ dir \in [Slots -> Entry] /\ Exclusive
      /\ \A S : ~VisitFails(S)
      /\ NamesIn(dir) /\ FilesFit /\ Filing /\ Locals
  BY FlushTypes, NothingFails DEF Filed
<1>1. ASSUME UNCHANGED <<dir, fil>>, Finish PROVE NamesIn(dir') /\ FilesFit' /\ Filing'
  BY <1>0, <1>1, FinishFiling DEF FilesFit
<1>2. ASSUME NEW h \in Handles, NEW n \in Names, NEW mode \in Modes,
             NEW write \in BOOLEAN, OpenExisting(h, n, mode, write)
      PROVE  NamesIn(dir') /\ FilesFit' /\ Filing'
  <2>1. PICK i \in Found(n) :
          fil' = [fil EXCEPT ![h] = NewFil(i, write, FALSE, dir[i].sclust, dir[i].size)]
    BY <1>2 DEF OpenExisting
  <2>2. PICK g : g = NewFil(i, write, FALSE, dir[i].sclust, dir[i].size)
    OBVIOUS
  <2>3. i \in Slots /\ UNCHANGED dir /\ Finish /\ dir[i].size \in Nat
    BY <1>2, FlushTypes DEF OpenExisting, Found
  <2>4. g.open /\ g.slot = i /\ g.fsize = dir[i].size /\ ~g.written
    BY <2>2 DEF NewFil, ClosedFil
  <2>5. FitsEntry(dir, g)
    BY <2>3, <2>4 DEF FitsEntry
  <2>6. QED
    BY <1>0, <2>1, <2>2, <2>3, <2>5, FilesFitPut, FinishFiling
<1>3. ASSUME NEW h \in Handles, NEW n \in Names, NEW mode \in Modes,
             OpenCreate(h, n, mode)
      PROVE  NamesIn(dir') /\ FilesFit' /\ Filing'
  <2>1. PICK i \in Slots :
          /\ AllocSlot(i)
          /\ dir' = [dir EXCEPT ![i] = [name |-> n, sclust |-> 0, size |-> 0]]
          /\ fil' = [fil EXCEPT ![h] = NewFil(i, TRUE, TRUE, 0, 0)]
    BY <1>3 DEF OpenCreate
  <2>2. PICK g : g = NewFil(i, TRUE, TRUE, 0, 0)
    OBVIOUS
  <2>3. Finish /\ Found(n) = {} /\ pc # "rename_remove"
    BY <1>3 DEF OpenCreate, Ready
  <2>4. /\ g.open /\ g.slot = i /\ g.write /\ g.fsize = 0 /\ g.written
        /\ ~g.closing
    BY <2>2, CreatedFilFields
  <2>5. NamesIn(dir')
    <3>1. PICK e : e = [name |-> n, sclust |-> 0, size |-> 0]
      OBVIOUS
    <3>2. e.name = n /\ dir' = [dir EXCEPT ![i] = e]
      BY <2>1, <3>1
    <3>3. QED
      BY <1>0, <2>1, <2>3, <3>2, NamesAdded
  <2>6. ~Live(dir, i)
    BY <2>1, VolumeAssumption
    DEF AllocSlot, FreeSlots, Live, VolumeAssumption, End, Deleted
  <2>7. /\ \A j \in Slots \ {i} : dir'[j] = dir[j]
        /\ dir'[i].size = 0
    BY <1>0, <2>1
  <2>8. ASSUME NEW k \in Handles PROVE FitsEntry(dir', fil'[k])
    <3>1. CASE k = h
      <4>1. fil'[k] = g
        BY <1>0, <2>1, <2>2, <3>1
      <4>2. QED
        BY <2>4, <2>7, <4>1 DEF FitsEntry
    <3>2. CASE k # h
      <4>1. fil'[k] = fil[k] /\ FitsEntry(dir, fil[k])
        BY <1>0, <2>1, <3>2 DEF FilesFit
      <4>2. fil[k].open => fil[k].slot \in Slots \ {i}
        BY <2>3, <2>6, FlushTypes
      <4>3. QED
        BY <2>7, <4>1, <4>2 DEF FitsEntry
    <3>3. QED
      BY <3>1, <3>2
  <2>9. QED
    BY <2>3, <2>5, <2>8, FinishFiling DEF FilesFit
<1>4. ASSUME NEW h \in Handles, NEW n \in Names, OpenTruncate(h, n)
      PROVE  NamesIn(dir') /\ FilesFit' /\ Filing'
  <2>1. PICK i \in Found(n) :
          /\ MayOpen(i, TRUE)
          /\ dir' = [dir EXCEPT ![i] = Resized(@, 0, 0)]
          /\ IF dir[i].sclust = 0
             THEN Finish /\ fil' = [fil EXCEPT ![h] = NewFil(i, TRUE, TRUE, 0, 0)]
             ELSE /\ CallRemoveChain(i, dir[i].sclust, TRUE, h, "open_back")
                  /\ UNCHANGED fil
    BY <1>4 DEF OpenTruncate
  <2>2. i \in Slots /\ Live(dir, i) /\ ~fil[h].open /\ OpenOn(i) = {}
    BY <1>0, <1>4, <2>1 DEF OpenTruncate, Found, Live, MayOpen
  <2>3. PICK e : e = Resized(dir[i], 0, 0)
    OBVIOUS
  <2>4. dir[i] \in Entry /\ dir' = [dir EXCEPT ![i] = e]
    BY <1>0, <2>1, <2>2, <2>3
  <2>5. e.name = dir[i].name /\ e.size = 0
    BY <2>3, <2>4 DEF Resized, Entry
  <2>6. /\ dir'[i] = e /\ \A j \in Slots \ {i} : dir'[j] = dir[j]
    BY <1>0, <2>2, <2>4
  <2>7. NamesIn(dir')
    BY <1>0, <2>2, <2>4, <2>5, NamesChanged
  <2>8. CASE dir[i].sclust = 0
    <3>1. PICK g : g = NewFil(i, TRUE, TRUE, 0, 0)
      OBVIOUS
    <3>2. Finish /\ fil' = [fil EXCEPT ![h] = g]
      BY <2>1, <2>8, <3>1
    <3>3. /\ g.open /\ g.slot = i /\ g.write /\ g.fsize = 0 /\ g.written
          /\ ~g.closing
      BY <3>1, CreatedFilFields
    <3>4. FitsEntry(dir', g)
      BY <2>5, <2>6, <3>3 DEF FitsEntry
    <3>5. \A k \in Handles : fil[k].open => fil[k].slot \in Slots \ {i}
      BY <2>2, FlushTypes DEF OpenOn
    <3>6. \A k \in Handles : FitsEntry(dir', fil[k])
      BY <1>0, <2>6, <3>5 DEF FilesFit, FitsEntry
    <3>7. \A k \in Handles : fil'[k] = IF k = h THEN g ELSE fil[k]
      BY <1>0, <3>2
    <3>8. QED
      BY <2>7, <3>2, <3>4, <3>6, <3>7, FinishFiling DEF FilesFit
  <2>9. CASE dir[i].sclust # 0
    <3>1. /\ UNCHANGED fil /\ pc' = "remove" /\ op'.h = h
          /\ op'.ret = "open_back" /\ op'.to = "-"
      BY <2>1, <2>9 DEF CallRemoveChain, NoOp
    <3>2. FilesFit'
      BY <1>0, <2>2, <2>6, <3>1, FilesFitEdit
    <3>3. Filing'
      BY <2>2, <3>1 DEF Filing, Growing
    <3>4. QED
      BY <2>7, <3>2, <3>3
  <2>10. QED
    BY <2>8, <2>9
<1>5. CASE OpenBack
  <2>1. /\ fil' = [fil EXCEPT ![op.h] = NewFil(op.slot, TRUE, TRUE, 0, 0)]
        /\ Finish /\ UNCHANGED dir /\ op.h \in Handles /\ op.slot \in Slots
    BY <1>0, <1>5 DEF OpenBack, Locals, Opening
  <2>2. PICK g : g = NewFil(op.slot, TRUE, TRUE, 0, 0)
    OBVIOUS
  <2>3. g.open /\ g.slot = op.slot /\ g.write /\ g.fsize = 0 /\ g.written /\ ~g.closing
    BY <2>2, CreatedFilFields
  <2>4. dir[op.slot].sclust = 0 /\ dir[op.slot].size = 0
    <3>1. pc = "open_back" /\ pc # "rename_remove"
      BY <1>5 DEF OpenBack
    <3>2. RunHeads /\ Tables(fat, dir)
      BY <3>1, FlushTypes, PrunedIsDir DEF Owners
    <3>3. QED
      BY <2>1, <3>1, <3>2 DEF RunHeads, Tables
  <2>5. FitsEntry(dir, g)
    BY <2>3, <2>4 DEF FitsEntry
  <2>6. QED
    BY <1>0, <2>1, <2>2, <2>5, FilesFitPut, FinishFiling
<1>6. QED
  BY <1>0, <1>1, <1>2, <1>3, <1>4, <1>5
  DEF OpenStep, Stat, LookUp, LookUpFails, OpenRefused

LEMMA WriteStepFiled ==
    ASSUME Sure, ChainsInv, Filed, WriteStep
    PROVE  NamesIn(dir') /\ FilesFit' /\ Filing'
<1>0. /\ fil \in [Handles -> Fil] /\ dir \in [Slots -> Entry] /\ Exclusive
      /\ \A S : ~VisitFails(S)
      /\ NamesIn(dir) /\ FilesFit /\ Filing /\ Locals /\ RunHeads /\ op \in Op
      /\ \A h \in Handles : /\ fil[h] \in Fil /\ fil[h].fptr \in Nat
                            /\ fil[h].fsize \in Nat
  BY FlushTypes, NothingFails DEF Filed
<1>1. UNCHANGED dir
  BY <1>0 DEF WriteStep, WriteStart, WriteGot, SeekStart, SeekFirst, SeekOn,
              SeekGot, store
<1>2. op.to = "-"
  BY <1>0, StepsStart DEF Filing
<1>3. SUFFICES FilesFit' /\ Filing'
  BY <1>0, <1>1
<1>4. ASSUME NEW h \in Handles, WriteStart(h) PROVE FilesFit' /\ Filing'
  <2>1. /\ UNCHANGED fil /\ pc' \in {"create", "write_got"} /\ op'.h = h
        /\ op'.to = "-" /\ ~fil[h].closing
    BY <1>0, <1>4 DEF WriteStart, CallCreateChain, Usable, NoOp
  <2>2. Filing'
    BY <2>1 DEF Filing
  <2>3. QED
    BY <1>0, <1>1, <2>1, <2>2 DEF FilesFit
<1>5. CASE WriteGot
  <2> DEFINE h == op.h
             f == fil[h]
  <2>1. /\ h \in Handles /\ f.open /\ f.write /\ ~f.closing /\ Finish
        /\ f \in Fil /\ f.fptr \in Nat /\ f.fsize \in Nat
    BY <1>0, <1>5 DEF WriteGot, Locals, Pending, RunHeads, Growing, Filing
  <2>2. PICK p : p = [f EXCEPT !.clust = op.ncl,
                              !.sclust = IF @ = 0 THEN op.ncl ELSE @]
    OBVIOUS
  <2>3. PICK g :
          /\ fil' = [fil EXCEPT ![h] = g]
          /\ \/ g = [p EXCEPT !.fptr = @ + 1,
                              !.fsize = IF f.fptr < @ THEN @ ELSE f.fptr + 1,
                              !.written = TRUE]
             \/ g = Aborted(p)
             \/ g = [f EXCEPT !.written = TRUE]
             \/ g = Aborted(f)
    BY <1>5, <2>2 DEF WriteGot
  <2>4. /\ g.open = f.open /\ g.slot = f.slot /\ g.write = f.write
        /\ g.closing = f.closing
        /\ \/ g.written = f.written /\ g.fsize = f.fsize
           \/ g.written /\ g.fsize \in Nat /\ g.fsize >= f.fsize
    <3>1. op.ncl \in {0} \cup Clusters /\ f.sclust \in {0} \cup Clusters
      BY <1>0, <2>1 DEF Op, Fil
    <3>2. /\ p \in Fil /\ p.open = f.open /\ p.slot = f.slot /\ p.write = f.write
          /\ p.closing = f.closing /\ p.written = f.written /\ p.fsize = f.fsize
      BY <2>1, <2>2, <3>1 DEF Fil
    <3>3. CASE g = [p EXCEPT !.fptr = @ + 1,
                             !.fsize = IF f.fptr < @ THEN @ ELSE f.fptr + 1,
                             !.written = TRUE]
      <4>1. /\ g.open = p.open /\ g.slot = p.slot /\ g.write = p.write
            /\ g.closing = p.closing
        BY <3>2, <3>3 DEF Fil
      <4>2. g.written
        BY <3>2, <3>3 DEF Fil
      <4>3. g.fsize = IF f.fptr < p.fsize THEN p.fsize ELSE f.fptr + 1
        BY <3>2, <3>3 DEF Fil
      <4>4. g.fsize \in Nat /\ g.fsize >= f.fsize
        BY <2>1, <3>2, <4>3
      <4>5. QED
        BY <3>2, <4>1, <4>2, <4>4
    <3>4. CASE g = Aborted(p)
      BY <2>1, <3>2, <3>4 DEF Fil, Aborted
    <3>5. CASE g = [f EXCEPT !.written = TRUE]
      <4>1. /\ g.open = f.open /\ g.slot = f.slot /\ g.write = f.write
            /\ g.closing = f.closing
        BY <2>1, <3>5 DEF Fil
      <4>2. g.written
        BY <2>1, <3>5 DEF Fil
      <4>3. g.fsize = f.fsize
        BY <2>1, <3>5 DEF Fil
      <4>4. g.fsize \in Nat /\ g.fsize >= f.fsize
        BY <2>1, <4>3
      <4>5. QED
        BY <4>1, <4>2, <4>4
    <3>6. CASE g = Aborted(f)
      BY <2>1, <3>6 DEF Fil, Aborted
    <3>7. QED
      BY <2>3, <3>3, <3>4, <3>5, <3>6
  <2>5. FilesFit'
    BY <1>0, <1>1, <2>1, <2>3, <2>4, FilGrown
  <2>6. QED
    BY <2>1, <2>5, FinishFiling
<1>6. ASSUME NEW h \in Handles, NEW to \in 0 .. MaxSize, SeekStart(h, to)
      PROVE  FilesFit' /\ Filing'
  <2> DEFINE f == fil[h]
             ofs == IF to > f.fsize /\ ~f.write THEN f.fsize ELSE to
  <2>1. /\ f.open /\ ~f.closing /\ f \in Fil /\ f.fptr \in Nat /\ f.fsize \in Nat
        /\ to \in Nat
    BY <1>0, <1>6, VolumeAssumption DEF SeekStart, Usable, VolumeAssumption
  <2>2. PICK z, c :
          /\ fil' = [fil EXCEPT ![h] = [f EXCEPT !.fptr = z, !.clust = c]]
          /\ \/ Finish
             \/ pc' = "seek" /\ op' = [NoOp EXCEPT !.h = h, !.ofs = ofs - z]
             \/ CallCreateChain(h, 0, ofs, "seek_first")
          /\ z \in Nat
    <3>1. CASE \/ fil' = [fil EXCEPT ![h].fptr = 0] /\ Finish
               \/ fil' = [fil EXCEPT ![h].fptr = 0]
                    /\ CallCreateChain(h, 0, ofs, "seek_first")
      <4>1. f = [f EXCEPT !.clust = f.clust]
        BY <2>1 DEF Fil
      <4>2. fil' = [fil EXCEPT ![h] = [f EXCEPT !.fptr = 0, !.clust = f.clust]]
        BY <2>1, <3>1 DEF Fil
      <4>3. QED
        BY <3>1, <4>2
    <3>2. CASE /\ fil' = [fil EXCEPT ![h].fptr = f.fptr - 1] /\ pc' = "seek"
               /\ op' = [NoOp EXCEPT !.h = h, !.ofs = ofs - (f.fptr - 1)]
               /\ f.fptr > 0
      <4>1. fil' = [fil EXCEPT ![h] = [f EXCEPT !.fptr = f.fptr - 1, !.clust = f.clust]]
        BY <2>1, <3>2 DEF Fil
      <4>2. f.fptr - 1 \in Nat
        BY <2>1, <3>2
      <4>3. QED
        BY <3>2, <4>1, <4>2
    <3>3. CASE /\ fil' = [fil EXCEPT ![h] = [f EXCEPT !.fptr = 0, !.clust = f.sclust]]
               /\ pc' = "seek" /\ op' = [NoOp EXCEPT !.h = h, !.ofs = ofs]
      <4>1. ofs - 0 = ofs
        BY <2>1
      <4>2. QED
        BY <3>3, <4>1
    <3>4. QED
      BY <1>6, <3>1, <3>2, <3>3 DEF SeekStart
  <2>3. PICK g : g = [f EXCEPT !.fptr = z, !.clust = c]
    OBVIOUS
  <2>4. /\ g.open = f.open /\ g.slot = f.slot /\ g.write = f.write
        /\ g.closing = f.closing /\ g.written = f.written /\ g.fsize = f.fsize
        /\ g.fptr = z /\ fil'[h] = g /\ fil' = [fil EXCEPT ![h] = g]
    BY <1>0, <2>1, <2>2, <2>3 DEF Fil
  <2>5. FilesFit'
    BY <1>0, <1>1, <2>1, <2>4, FilGrown
  <2>6. CASE pc' = "seek" /\ op' = [NoOp EXCEPT !.h = h, !.ofs = ofs - z]
    <3>1. op'.h = h /\ op'.ofs = ofs - z /\ op'.to = "-"
      BY <2>6 DEF NoOp
    <3>2. ~f.write => ofs <= f.fsize
      BY <2>1
    <3>3. ~g.write => g.fptr + op'.ofs <= g.fsize
      BY <2>1, <2>2, <2>4, <3>1, <3>2
    <3>4. Filing'
      BY <2>1, <2>4, <2>6, <3>1, <3>3 DEF Filing
    <3>5. QED
      BY <2>5, <3>4
  <2>7. CASE CallCreateChain(h, 0, ofs, "seek_first")
    <3>1. pc' = "create" /\ op'.h = h /\ op'.to = "-"
      BY <2>7 DEF CallCreateChain, NoOp
    <3>2. Filing'
      BY <2>1, <2>4, <3>1 DEF Filing
    <3>3. QED
      BY <2>5, <3>2
  <2>8. QED
    BY <2>2, <2>5, <2>6, <2>7, FinishFiling
<1>7. CASE SeekFirst
  <2> DEFINE h == op.h
             f == fil[h]
  <2>1. /\ h \in Handles /\ f.open /\ f.write /\ ~f.closing /\ f \in Fil
        /\ \/ Finish
           \/ pc' = "seek" /\ op' = [NoOp EXCEPT !.h = h, !.ofs = op.ofs]
    BY <1>0, <1>7 DEF SeekFirst, Locals, Pending, RunHeads, Growing, Filing
  <2>2. PICK g : /\ fil' = [fil EXCEPT ![h] = g]
                 /\ g = Aborted(f) \/ g = [f EXCEPT !.sclust = op.ncl, !.clust = op.ncl]
    BY <1>7 DEF SeekFirst
  <2>3. /\ g.open = f.open /\ g.slot = f.slot /\ g.write = f.write
        /\ g.closing = f.closing /\ g.written = f.written /\ g.fsize = f.fsize
        /\ fil'[h] = g
    BY <1>0, <2>1, <2>2 DEF Fil, Aborted
  <2>4. FilesFit'
    BY <1>0, <1>1, <2>1, <2>2, <2>3, FilGrown
  <2>5. CASE pc' = "seek" /\ op' = [NoOp EXCEPT !.h = h, !.ofs = op.ofs]
    <3>1. op'.h = h /\ op'.to = "-"
      BY <2>5 DEF NoOp
    <3>2. Filing'
      BY <2>1, <2>3, <2>5, <3>1 DEF Filing
    <3>3. QED
      BY <2>4, <3>2
  <2>6. QED
    BY <2>1, <2>4, <2>5, FinishFiling
<1>8. CASE SeekOn \/ SeekGot
  <2> DEFINE h == op.h
             f == fil[h]
  <2>1. /\ h \in Handles /\ f.open /\ ~f.closing /\ f \in Fil
        /\ f.fptr \in Nat /\ f.fsize \in Nat /\ op.ofs \in Nat
        /\ pc \in {"seek", "seek_got"} /\ f.write \in BOOLEAN /\ f.written \in BOOLEAN
    <3>1. pc \in {"seek", "seek_got"}
      BY <1>8 DEF SeekOn, SeekGot
    <3>2. h \in Handles /\ f.open /\ ~f.closing
      BY <1>0, <3>1 DEF Locals, Pending, RunHeads, Growing, Filing
    <3>3. op.ofs \in Nat
      BY <1>0, VolumeAssumption DEF Op, VolumeAssumption
    <3>4. QED
      BY <1>0, <3>1, <3>2, <3>3 DEF Fil
  <2>2. ASSUME fil' = [fil EXCEPT ![h] = Arrived(f)], Finish,
               f.write \/ f.fptr < f.fsize
        PROVE  FilesFit' /\ Filing'
    <3>1. PICK g : g = Arrived(f)
      OBVIOUS
    <3>2. /\ g.open = f.open /\ g.slot = f.slot /\ g.write = f.write
          /\ g.closing = f.closing
          /\ g.fsize = IF f.fptr < f.fsize THEN f.fsize ELSE f.fptr + 1
          /\ g.written = (f.written \/ f.fptr >= f.fsize)
      BY <2>1, <3>1 DEF Fil, Arrived
    <3>3. \/ g.written = f.written /\ g.fsize = f.fsize
          \/ g.written /\ f.write /\ g.fsize \in Nat /\ g.fsize >= f.fsize
      BY <2>1, <2>2, <3>2
    <3>4. FilesFit'
      BY <1>0, <1>1, <2>1, <2>2, <3>1, <3>2, <3>3, FilGrown
    <3>5. QED
      BY <2>2, <3>4, FinishFiling
  <2>3. ASSUME fil' = [fil EXCEPT ![h] = Aborted(f)], Finish
        PROVE  FilesFit' /\ Filing'
    <3>1. PICK g : g = Aborted(f)
      OBVIOUS
    <3>2. /\ g.open = f.open /\ g.slot = f.slot /\ g.write = f.write
          /\ g.closing = f.closing /\ g.fsize = f.fsize /\ g.written = f.written
      BY <2>1, <3>1 DEF Fil, Aborted
    <3>3. FilesFit'
      BY <1>0, <1>1, <2>1, <2>3, <3>1, <3>2, FilGrown
    <3>4. QED
      BY <2>3, <3>3, FinishFiling
  <2>4. ASSUME NEW c, fil' = [fil EXCEPT ![h] = OneFurther(f, c)],
               pc' = "seek", op'.h = h, op'.to = "-",
               ~f.write => f.fptr + op.ofs <= f.fsize /\ op'.ofs = op.ofs - 1
        PROVE  FilesFit' /\ Filing'
    <3>1. PICK g : g = OneFurther(f, c)
      OBVIOUS
    <3>2. /\ g.open = f.open /\ g.slot = f.slot /\ g.write = f.write
          /\ g.closing = f.closing /\ g.fsize = f.fsize /\ g.written = f.written
          /\ g.fptr = f.fptr + 1 /\ fil'[h] = g
      BY <1>0, <2>1, <2>4, <3>1 DEF Fil, OneFurther
    <3>3. FilesFit'
      BY <1>0, <1>1, <2>1, <2>4, <3>1, <3>2, FilGrown
    <3>4. ~g.write => g.fptr + op'.ofs <= g.fsize
      BY <2>1, <2>4, <3>2
    <3>5. Filing'
      BY <2>1, <2>4, <3>2, <3>4 DEF Filing
    <3>6. QED
      BY <3>3, <3>5
  <2>5. CASE SeekOn
    <3>1. ~f.write => f.fptr + op.ofs <= f.fsize
      BY <1>0, <2>5 DEF SeekOn, Filing
    <3>2. op.ofs >= 1
      BY <1>0, <2>5 DEF SeekOn, Locals
    <3>3. f.write \/ f.fptr < f.fsize
      BY <2>1, <3>1, <3>2
    <3>4. CASE CallCreateChain(h, f.clust, op.ofs, "seek_got") /\ UNCHANGED fil
      <4>1. pc' = "create" /\ op'.h = h /\ op'.to = "-"
        BY <3>4 DEF CallCreateChain, NoOp
      <4>2. Filing'
        BY <2>1, <3>4, <4>1 DEF Filing
      <4>3. QED
        BY <1>0, <1>1, <3>4, <4>2 DEF FilesFit
    <3>5. CASE /\ fil' = [fil EXCEPT ![h] = OneFurther(f, fat[f.clust])]
               /\ pc' = "seek" /\ op' = [op EXCEPT !.ofs = @ - 1]
      <4>1. op'.h = h /\ op'.to = "-" /\ op'.ofs = op.ofs - 1
        BY <1>0, <1>2, <3>5 DEF Op
      <4>2. QED
        BY <2>4, <3>1, <3>5, <4>1
    <3>6. QED
      BY <1>0, <2>2, <2>3, <2>5, <3>3, <3>4, <3>5 DEF SeekOn
  <2>6. CASE SeekGot
    <3>1. f.write
      BY <1>0, <2>6 DEF SeekGot, RunHeads, Growing
    <3>2. CASE /\ fil' = [fil EXCEPT ![h] = OneFurther(f, op.ncl)]
               /\ pc' = "seek" /\ op' = [NoOp EXCEPT !.h = h, !.ofs = op.ofs - 1]
      <4>1. op'.h = h /\ op'.to = "-"
        BY <3>2 DEF NoOp
      <4>2. QED
        BY <2>4, <3>1, <3>2, <4>1
    <3>3. QED
      BY <2>2, <2>3, <2>6, <3>1, <3>2 DEF SeekGot
  <2>7. QED
    BY <1>8, <2>5, <2>6
<1>9. QED
  BY <1>4, <1>5, <1>6, <1>7, <1>8 DEF WriteStep

LEMMA SyncReturnsFiled ==
    ASSUME Sure, ChainsInv, Filed, pc \in {"sync", "fsinfo"}, UNCHANGED dir,
           \/ Goto("fsinfo") /\ UNCHANGED fil
           \/ SyncReturns
    PROVE  FilesFit' /\ Filing'
<1>0. /\ fil \in [Handles -> Fil] /\ FilesFit /\ Filing /\ Locals
  BY FlushTypes DEF Filed
<1>1. CASE Goto("fsinfo") /\ UNCHANGED fil
  <2>1. pc' = "fsinfo" /\ op' = op
    BY <1>1 DEF Goto
  <2>2. Filing'
    BY <1>0, <1>1, <2>1 DEF Filing, Growing
  <2>3. QED
    BY <1>0, <1>1, <2>2 DEF FilesFit
<1>2. CASE SyncReturns /\ op.ret = "closed"
  <2> DEFINE f == fil[op.h]
  <2>1. op.h \in Handles /\ f.open /\ ~f.written /\ f \in Fil
    BY <1>0, <1>2 DEF Locals, Filing
  <2>2. PICK g : g = [f EXCEPT !.closing = TRUE]
    OBVIOUS
  <2>3. fil' = [fil EXCEPT ![op.h] = g] /\ Finish
    BY <1>2, <2>2 DEF SyncReturns
  <2>4. /\ g.open = f.open /\ g.slot = f.slot /\ g.fsize = f.fsize
        /\ g.written = f.written
    BY <2>1, <2>2 DEF Fil
  <2>5. FitsEntry(dir, g)
    BY <1>0, <2>1, <2>4 DEF FilesFit, FitsEntry
  <2>6. QED
    BY <1>0, <2>1, <2>3, <2>5, FilesFitPut, FinishFiling
<1>3. CASE SyncReturns /\ op.ret # "closed"
  BY <1>0, <1>3, FinishFiling DEF SyncReturns, FilesFit
<1>4. QED
  BY <1>1, <1>2, <1>3

LEMMA SyncStepFiled ==
    ASSUME Sure, ChainsInv, Filed, SyncStep
    PROVE  NamesIn(dir') /\ FilesFit' /\ Filing'
<1>0. /\ fil \in [Handles -> Fil] /\ dir \in [Slots -> Entry]
      /\ \A S : ~VisitFails(S)
      /\ NamesIn(dir) /\ FilesFit /\ Filing /\ RunHeads
      /\ \A h \in Handles : fil[h] \in Fil /\ fil[h].fsize \in Nat
  BY FlushTypes, NothingFails DEF Filed
<1>1. ASSUME UNCHANGED <<pc, op>>, pc = "idle" PROVE Filing'
  BY <1>0, <1>1 DEF Filing, Growing
<1>2. ASSUME NEW h \in Handles, NEW closing \in BOOLEAN, SyncClean(h, closing)
      PROVE  NamesIn(dir') /\ FilesFit' /\ Filing'
  <2> DEFINE f == fil[h]
  <2>1. f.open /\ ~f.written /\ f \in Fil
    BY <1>0, <1>2 DEF SyncClean, Usable
  <2>2. PICK g : g = [f EXCEPT !.closing = @ \/ closing]
    OBVIOUS
  <2>3. fil' = [fil EXCEPT ![h] = g] /\ UNCHANGED <<dir, pc, op>> /\ pc = "idle"
    BY <1>2, <2>2 DEF SyncClean, Ready, store
  <2>4. /\ g.open = f.open /\ g.slot = f.slot /\ g.fsize = f.fsize
        /\ g.written = f.written
    BY <2>1, <2>2 DEF Fil
  <2>5. FitsEntry(dir, g)
    BY <1>0, <2>1, <2>4 DEF FilesFit, FitsEntry
  <2>6. QED
    BY <1>0, <1>1, <2>3, <2>5, FilesFitPut
<1>3. ASSUME NEW h \in Handles, NEW closing \in BOOLEAN, SyncStart(h, closing)
      PROVE  NamesIn(dir') /\ FilesFit' /\ Filing'
  <2> DEFINE f == fil[h]
             i == f.slot
  <2>1. /\ f.open /\ f.written /\ f.write /\ f \in Fil /\ pc # "rename_remove"
        /\ i \in Slots /\ Live(dir, i) /\ dir[i] \in Entry
    BY <1>0, <1>3, FlushTypes DEF SyncStart, Usable, Ready, FilesFit, FitsEntry
  <2>2. PICK g, e :
          /\ g = [f EXCEPT !.written = FALSE]
          /\ e = Resized(dir[i], f.sclust, f.fsize)
    OBVIOUS
  <2>3. /\ fil' = [fil EXCEPT ![h] = g] /\ dir' = [dir EXCEPT ![i] = e]
        /\ pc' = "sync" /\ op'.h = h /\ op'.slot = i /\ op'.to = "-"
    BY <1>0, <1>3, <2>1, <2>2 DEF SyncStart, NoOp
  <2>4. /\ g.open /\ g.slot = f.slot /\ g.fsize = f.fsize /\ g.write
        /\ ~g.written
    BY <2>1, <2>2 DEF Fil
  <2>5. e.name = dir[i].name /\ e.size = f.fsize
    BY <2>1, <2>2 DEF Resized, Entry
  <2>6. /\ dir'[i] = e /\ \A j \in Slots \ {i} : dir'[j] = dir[j]
        /\ fil'[h] = g /\ \A k \in Handles \ {h} : fil'[k] = fil[k]
    BY <1>0, <2>1, <2>3
  <2>7. NamesIn(dir')
    BY <1>0, <2>1, <2>3, <2>5, NamesChanged
  <2>8. f.fsize \in Nat
    BY <1>0
  <2>9. FitsEntry(dir', g)
    BY <2>1, <2>4, <2>5, <2>6, <2>8 DEF FitsEntry
  <2>10. ASSUME NEW k \in Handles \ {h} PROVE FitsEntry(dir', fil[k])
    <3>1. fil[k].open => fil[k].slot \in Slots \ {i}
      BY <2>1, FlushTypes, SharedForReading
    <3>2. QED
      BY <1>0, <2>6, <3>1 DEF FilesFit, FitsEntry
  <2>11. Filing'
    BY <2>3, <2>4, <2>6 DEF Filing, Growing
  <2>12. QED
    BY <2>6, <2>7, <2>9, <2>10, <2>11 DEF FilesFit
<1>4. ASSUME NEW h \in Handles, Close(h) PROVE NamesIn(dir') /\ FilesFit' /\ Filing'
  <2>1. /\ fil' = [fil EXCEPT ![h] = ClosedFil] /\ UNCHANGED <<dir, pc, op>>
        /\ pc = "idle"
    BY <1>4 DEF Close, Ready, store
  <2>2. FitsEntry(dir, ClosedFil)
    BY DEF FitsEntry, ClosedFil
  <2>3. QED
    BY <1>0, <1>1, <2>1, <2>2, FilesFitPut
<1>5. CASE SyncWindow
  BY <1>0, <1>5, SyncReturnsFiled DEF SyncWindow
<1>6. CASE SyncFails
  BY <1>6 DEF Sure, SyncFails
<1>7. CASE SyncFsInfo
  BY <1>0, <1>7, SyncReturnsFiled DEF SyncFsInfo
<1>8. QED
  BY <1>2, <1>3, <1>4, <1>5, <1>6, <1>7 DEF SyncStep

LEMMA NameStepFiled ==
    ASSUME Sure, ChainsInv, Filed, NameStep
    PROVE  NamesIn(dir') /\ FilesFit' /\ Filing'
<1>0. /\ fil \in [Handles -> Fil] /\ dir \in [Slots -> Entry] /\ Exclusive
      /\ \A S : ~VisitFails(S) /\ ~WriteBackFails(S) /\ ~LoadFails(S)
      /\ NamesIn(dir) /\ FilesFit /\ Filing /\ RunHeads /\ Locals /\ op \in Op
  BY FlushTypes, NothingFails DEF Filed
<1>1. ASSUME UNCHANGED <<dir, fil>>, Finish PROVE NamesIn(dir') /\ FilesFit' /\ Filing'
  BY <1>0, <1>1, FinishFiling DEF FilesFit
<1>2. ASSUME NEW n \in Names, Unlink(n) PROVE NamesIn(dir') /\ FilesFit' /\ Filing'
  <2>1. PICK i \in Found(n) :
          /\ MayChange(i)
          /\ dir' = [dir EXCEPT ![i] = Erased]
          /\ IF dir[i].sclust = 0
             THEN pc' = "sync" /\ op' = NoOp
             ELSE CallRemoveChain(i, dir[i].sclust, FALSE, "-", "sync")
    BY <1>2 DEF Unlink
  <2>2. i \in Slots /\ Live(dir, i) /\ OpenOn(i) = {} /\ UNCHANGED fil
    BY <1>0, <1>2, <2>1 DEF Unlink, Found, Live, MayChange
  <2>3. NamesIn(dir')
    <3>1. Erased.name = Deleted
      BY ErasedEntry
    <3>2. PICK e : e = Erased
      OBVIOUS
    <3>3. QED
      BY <1>0, <2>1, <2>2, <3>1, <3>2, NamesChanged
  <2>4. \A j \in Slots \ {i} : dir'[j] = dir[j]
    BY <1>0, <2>1
  <2>5. FilesFit'
    BY <1>0, <2>2, <2>4, FilesFitEdit
  <2>6. pc' \in {"sync", "remove"} /\ op'.ret \in {"idle", "sync"} /\ op'.to = "-"
    <3>1. CASE dir[i].sclust = 0
      BY <2>1, <3>1 DEF NoOp
    <3>2. CASE dir[i].sclust # 0
      BY <2>1, <3>2 DEF CallRemoveChain, NoOp
    <3>3. QED
      BY <3>1, <3>2
  <2>7. Filing'
    BY <2>6 DEF Filing, Growing
  <2>8. QED
    BY <2>3, <2>5, <2>7
<1>3. ASSUME NEW from \in Names, NEW to \in Names, Rename(from, to)
      PROVE  NamesIn(dir') /\ FilesFit' /\ Filing'
  <2>1. PICK i \in Found(from), j \in Slots :
          /\ MayChange(i)
          /\ AllocSlot(j)
          /\ dir' = [dir EXCEPT ![j] = Renamed(dir[i], to)]
          /\ pc' = "rename_remove"
          /\ op' = [NoOp EXCEPT !.slot = i, !.from = from, !.to = to]
    BY <1>3 DEF Rename
  <2>2. i \in Slots /\ UNCHANGED fil /\ Found(to) = {} /\ pc # "rename_remove"
    BY <1>3 DEF Rename, Found, Ready
  <2>3. PICK e : e = Renamed(dir[i], to)
    OBVIOUS
  <2>4. dir[i] \in Entry /\ e.name = to /\ dir' = [dir EXCEPT ![j] = e]
    BY <1>0, <2>1, <2>2, <2>3 DEF Renamed, Entry
  <2>5. NamesIn(dir')
    BY <1>0, <2>1, <2>2, <2>4, NamesAdded
  <2>6. OpenOn(j) = {}
    <3>1. Heads(fat, dir, fil)
      BY <2>2, FlushTypes, PrunedIsDir DEF Owners
    <3>2. QED
      BY <2>1, <3>1, FreeSlotClosed
  <2>7. \A k \in Slots \ {j} : dir'[k] = dir[k]
    BY <1>0, <2>1
  <2>8. FilesFit'
    BY <1>0, <2>2, <2>6, <2>7, FilesFitEdit
  <2>9. Filing'
    <3>1. op'.slot = i /\ op'.from = from
      BY <2>1 DEF NoOp
    <3>2. dir[i].name = from /\ i # j
      BY <2>1, VolumeAssumption
      DEF Found, AllocSlot, FreeSlots, VolumeAssumption, End, Deleted
    <3>3. dir'[i].name = from
      BY <2>2, <2>7, <3>2
    <3>4. QED
      BY <2>1, <3>1, <3>3 DEF Filing, Growing
  <2>10. QED
    BY <2>5, <2>8, <2>9
<1>4. CASE RenameRemove
  <2> DEFINE i == op.slot
  <2>1. /\ pc = "rename_remove" /\ dir' = [dir EXCEPT ![i] = Erased] /\ UNCHANGED fil
        /\ pc' = "sync" /\ op' = [op EXCEPT !.slot = 0] /\ i \in Slots /\ op.ret = "idle"
    BY <1>0, <1>4 DEF RenameRemove, Locals
  <2>2. OpenOn(i) = {}
    BY <1>0, <2>1 DEF RunHeads
  <2>3. \A k \in Slots \ {i} : dir'[k] = dir[k]
    BY <1>0, <2>1
  <2>4. FilesFit'
    BY <1>0, <2>1, <2>2, <2>3, FilesFitEdit
  <2>5. op'.ret = "idle"
    BY <1>0, <2>1 DEF Op
  <2>6. Filing'
    BY <2>1, <2>5 DEF Filing, Growing
  <2>7. NamesIn(dir')
    <3>1. Erased.name = Deleted /\ Live(dir, i)
      BY <1>0, <2>1, ErasedEntry DEF Filing, Live, Locals, RunHeads
    <3>2. PICK e : e = Erased
      OBVIOUS
    <3>3. QED
      BY <1>0, <2>1, <3>1, <3>2, NamesChanged
  <2>8. QED
    BY <2>4, <2>6, <2>7
<1>5. CASE GetFree
  BY <1>1, <1>5 DEF GetFree
<1>6. CASE GetFreeFails
  BY <1>0, <1>6 DEF GetFreeFails
<1>7. ASSUME NEW n, LookUp(n) PROVE NamesIn(dir') /\ FilesFit' /\ Filing'
  BY <1>1, <1>7 DEF LookUp
<1>8. QED
  BY <1>2, <1>3, <1>4, <1>5, <1>6, <1>7 DEF NameStep, UnlinkRefused, RenameRefused

-----------------------------------------------------------------------------
(* Promises: what steps have in common.                                    *)

LEMMA MediumMoves ==
    ASSUME ChainsInv, [Next]_vars
    PROVE  /\ ddir' = ddir \/ ddir' = dir
           /\ UNCHANGED medium \/ medium' = <<fat, dir>>
<1>1. UNCHANGED medium \/ medium' = <<fat, dir>>
  BY FlushTypes, StepKeeps DEF Keeps
<1>2. QED
  BY <1>1 DEF medium

(* Nobody is renaming but in f_rename, nor is a change attended to when no *)
(* function runs.                                                          *)
LEMMA NotRenaming ==
    ASSUME Filed, pc \notin {"rename_remove", "sync", "fsinfo"}
    PROVE  op.to = "-"
BY DEF Filed, Filing

LEMMA WrittenKept ==
    ASSUME fil \in [Handles -> Fil], NEW h \in Handles, NEW g,
           fil' = [fil EXCEPT ![h] = g],
           fil[h].open /\ fil[h].written => g.open /\ g.slot = fil[h].slot /\ g.written
    PROVE  \A i \in Slots : Written(i) => Written(i)'
<1>1. fil'[h] = g /\ \A k \in Handles \ {h} : fil'[k] = fil[k]
  OBVIOUS
<1>2. QED
  BY <1>1 DEF Written

(* The directory stays.                                                    *)
LEMMA QuietPromised ==
    ASSUME ChainsInv, Promised, [Next]_vars, UNCHANGED <<dir, durable>>,
           \/ op.to = "-" /\ op'.to = "-"
           \/ op'.to = op.to /\ op'.from = op.from,
           \A i \in Slots : Written(i) \/ Attended(i) => Written(i)' \/ Attended(i)'
    PROVE  Promised'
<1>1. ddir' = ddir \/ ddir' = dir
  BY MediumMoves
<1>2. Promises(dir)' /\ Promises(ddir)'
  <2>1. \A n \in Names : durable[n] # Unknown =>
           /\ \/ Holds(dir, n, durable[n])
              \/ op'.to # "-" /\ op'.from = n /\ Holds(dir, op'.to, durable[n])
           /\ \/ Holds(ddir, n, durable[n])
              \/ op'.to # "-" /\ op'.from = n /\ Holds(ddir, op'.to, durable[n])
    BY DEF Promised, Promises
  <2>2. Promises(dir)'
    BY <2>1 DEF Promises, Holds
  <2>3. Promises(ddir)'
    <3>1. CASE ddir' = ddir
      BY <2>1, <3>1 DEF Promises, Holds
    <3>2. CASE ddir' = dir
      BY <2>1, <3>2 DEF Promises, Holds
    <3>3. QED
      BY <1>1, <3>1, <3>2
  <2>4. QED
    BY <2>2, <2>3
<1>3. Behind'
  <2>1. ASSUME NEW i \in Slots, dir'[i] # ddir'[i] PROVE Written(i)' \/ Attended(i)'
    <3>1. dir[i] # ddir[i]
      BY <1>1, <2>1
    <3>2. QED
      BY <3>1 DEF Promised, Behind
  <2>2. QED
    BY <2>1 DEF Behind
<1>4. Renaming'
  BY DEF Promised, Renaming, Holds
<1>5. QED
  BY <1>2, <1>3, <1>4 DEF Promised

(* One entry changes, and the promise of its file is withdrawn.            *)
LEMMA EditPromised ==
    ASSUME ChainsInv, Promised, [Next]_vars, op.to = "-", op'.to = "-",
           NEW i \in Slots, \A j \in Slots \ {i} : dir'[j] = dir[j],
           \A n \in Names : durable'[n] \in {Unknown, durable[n]},
           \A n \in Names : dir[i].name = n => durable'[n] = Unknown,
           \A j \in Slots \ {i} : Written(j) \/ Attended(j) => Written(j)',
           Written(i)' \/ Attended(i)'
    PROVE  Promised'
<1>1. ddir' = ddir \/ ddir' = dir
  BY MediumMoves
<1>2. \A n \in Names : durable'[n] # Unknown =>
         /\ durable'[n] = durable[n]
         /\ Holds(dir, n, durable[n]) /\ Holds(ddir, n, durable[n])
  BY DEF Promised, Promises
<1>3. Promises(dir)'
  <2>1. ASSUME NEW n \in Names, durable'[n] # Unknown
        PROVE  \E k \in Slots : dir'[k].name = n /\ dir'[k].size >= durable'[n]
    <3>1. PICK k \in Slots : dir[k].name = n /\ dir[k].size >= durable[n]
      BY <1>2, <2>1 DEF Holds
    <3>2. dir'[k].name = n /\ dir'[k].size >= durable[n]
      BY <2>1, <3>1
    <3>3. QED
      BY <1>2, <2>1, <3>2
  <2>2. QED
    BY <2>1 DEF Promises, Holds
<1>4. Promises(ddir)'
  <2>1. CASE ddir' = ddir
    BY <1>2, <2>1 DEF Promises, Holds
  <2>2. CASE ddir' = dir
    BY <1>2, <2>2 DEF Promises, Holds
  <2>3. QED
    BY <1>1, <2>1, <2>2
<1>5. Behind'
  <2>1. ASSUME NEW j \in Slots \ {i}, dir'[j] # ddir'[j] PROVE Written(j)'
    <3>1. dir[j] # ddir[j]
      BY <1>1, <2>1
    <3>2. QED
      BY <3>1 DEF Promised, Behind
  <2>2. QED
    BY <2>1 DEF Behind
<1>6. Renaming'
  BY DEF Renaming
<1>7. QED
  BY <1>3, <1>4, <1>5, <1>6 DEF Promised

(* The medium has what the memory has.                                     *)
LEMMA EvenPromised ==
    ASSUME ddir' = dir', Promises(dir)', Renaming'
    PROVE  Promised'
BY DEF Promised, Behind, Promises, Holds

-----------------------------------------------------------------------------
(* Promises: every step.                                                   *)

LEMMA ChainStepPromised ==
    ASSUME Sure, SyncInv, ChainStep, [Next]_vars
    PROVE  Promised'
<1>1. /\ UNCHANGED <<dir, fil, durable>> /\ ChainsInv /\ Promised
      /\ op'.slot = op.slot /\ op'.ret = op.ret
      /\ op'.to = op.to /\ op'.from = op.from
      /\ \/ /\ pc \in {"create", "link"} /\ pc' \in {"link", op.ret}
            /\ op.ret \in {"write_got", "seek_first", "seek_got"}
         \/ /\ pc = "remove" /\ pc' \in {"remove", op.ret}
            /\ op.ret \in {"open_back", "sync"}
  BY FlushTypes, ChainShape DEF SyncInv
<1>2. \A i \in Slots : Attended(i) => Attended(i)'
  BY <1>1 DEF Attended
<1>3. \A i \in Slots : Written(i) => Written(i)'
  BY <1>1 DEF Written
<1>4. QED
  BY <1>1, <1>2, <1>3, QuietPromised

(* A function starts that does not change the directory, or ends so.       *)
LEMMA IdlePromised ==
    ASSUME SyncInv, [Next]_vars, UNCHANGED <<dir, durable>>,
           pc \notin {"remove", "open_back", "sync", "rename_remove", "fsinfo"},
           op'.to = "-", \A i \in Slots : Written(i) => Written(i)'
    PROVE  Promised'
<1>1. op.to = "-" /\ \A i \in Slots : ~Attended(i)
  BY NotRenaming DEF SyncInv, Attended
<1>2. QED
  BY <1>1, QuietPromised DEF SyncInv

LEMMA OpenStepPromised ==
    ASSUME Sure, SyncInv, OpenStep, [Next]_vars
    PROVE  Promised'
<1>0. /\ ChainsInv /\ Filed /\ Promised /\ Exclusive
      /\ fil \in [Handles -> Fil] /\ dir \in [Slots -> Entry] /\ Locals /\ Filing
      /\ durable \in [Names -> {Unknown} \cup 0 .. MaxSize]
      /\ \A S : ~VisitFails(S)
      /\ pc \in {"idle", "open_back"}
  BY FlushTypes, NothingFails, StepsStart DEF SyncInv, Filed
<1>1. op.to = "-"
  BY <1>0, NotRenaming
<1>2. ASSUME NEW n, LookUp(n), pc = "idle" PROVE Promised'
  <2>1. UNCHANGED <<dir, fil, durable>> /\ op'.to = "-"
    BY <1>2 DEF LookUp, Finish, NoOp
  <2>2. QED
    BY <1>2, <2>1, IdlePromised DEF Written
<1>3. ASSUME NEW h \in Handles, NEW n \in Names, NEW mode \in Modes,
             NEW write \in BOOLEAN, OpenExisting(h, n, mode, write)
      PROVE  Promised'
  <2>1. PICK g : fil' = [fil EXCEPT ![h] = g]
    BY <1>3 DEF OpenExisting
  <2>2. /\ UNCHANGED <<dir, durable>> /\ op'.to = "-" /\ ~fil[h].open
        /\ pc = "idle"
    BY <1>3 DEF OpenExisting, Finish, NoOp, Ready
  <2>3. QED
    BY <1>0, <2>1, <2>2, WrittenKept, IdlePromised
<1>4. ASSUME NEW h \in Handles, NEW n \in Names, NEW mode \in Modes,
             OpenCreate(h, n, mode)
      PROVE  Promised'
  <2>1. PICK i \in Slots :
          /\ AllocSlot(i)
          /\ dir' = [dir EXCEPT ![i] = [name |-> n, sclust |-> 0, size |-> 0]]
          /\ fil' = [fil EXCEPT ![h] = NewFil(i, TRUE, TRUE, 0, 0)]
    BY <1>4 DEF OpenCreate
  <2>2. PICK g : g = NewFil(i, TRUE, TRUE, 0, 0)
    OBVIOUS
  <2>3. /\ UNCHANGED durable /\ op'.to = "-" /\ ~fil[h].open /\ pc = "idle"
        /\ fil' = [fil EXCEPT ![h] = g]
    BY <1>4, <2>1, <2>2 DEF OpenCreate, Finish, NoOp, Ready
  <2>4. g.open /\ g.slot = i /\ g.written
    BY <2>2, CreatedFilFields
  <2>5. dir[i].name \notin Names
    BY <2>1, VolumeAssumption
    DEF AllocSlot, FreeSlots, VolumeAssumption, End, Deleted
  <2>6. \A j \in Slots \ {i} : dir'[j] = dir[j]
    BY <1>0, <2>1
  <2>7. /\ \A j \in Slots : Written(j) => Written(j)'
        /\ \A j \in Slots : ~Attended(j)
    BY <1>0, <2>3, WrittenKept DEF Attended
  <2>8. Written(i)'
    BY <1>0, <2>3, <2>4 DEF Written
  <2>9. QED
    BY <1>0, <1>1, <2>3, <2>5, <2>6, <2>7, <2>8, EditPromised
<1>5. ASSUME NEW h \in Handles, NEW n \in Names, OpenTruncate(h, n)
      PROVE  Promised'
  <2>1. PICK i \in Found(n) :
          /\ dir' = [dir EXCEPT ![i] = Resized(@, 0, 0)]
          /\ IF dir[i].sclust = 0
             THEN Finish /\ fil' = [fil EXCEPT ![h] = NewFil(i, TRUE, TRUE, 0, 0)]
             ELSE /\ CallRemoveChain(i, dir[i].sclust, TRUE, h, "open_back")
                  /\ UNCHANGED fil
    BY <1>5 DEF OpenTruncate
  <2>2. /\ i \in Slots /\ dir[i].name = n /\ ~fil[h].open /\ pc = "idle"
        /\ durable' = [durable EXCEPT ![n] = Unknown]
    BY <1>5, <2>1 DEF OpenTruncate, Found, Ready
  <2>3. /\ \A j \in Slots \ {i} : dir'[j] = dir[j]
        /\ durable'[n] = Unknown
        /\ \A m \in Names : durable'[m] \in {Unknown, durable[m]}
    BY <1>0, <2>1, <2>2
  <2>4. \A j \in Slots : ~Attended(j)
    BY <2>2 DEF Attended
  <2>5. CASE dir[i].sclust = 0
    <3>1. PICK g : g = NewFil(i, TRUE, TRUE, 0, 0)
      OBVIOUS
    <3>2. fil' = [fil EXCEPT ![h] = g] /\ op'.to = "-"
      <4>1. Finish /\ fil' = [fil EXCEPT ![h] = NewFil(i, TRUE, TRUE, 0, 0)]
        BY <2>1, <2>5
      <4>2. op'.to = "-"
        BY <4>1 DEF Finish, NoOp
      <4>3. QED
        BY <3>1, <4>1, <4>2
    <3>3. g.open /\ g.slot = i /\ g.written
      BY <3>1, CreatedFilFields
    <3>4. \A j \in Slots : Written(j) => Written(j)'
      BY <1>0, <2>2, <3>2, WrittenKept
    <3>5. Written(i)'
      BY <1>0, <3>2, <3>3 DEF Written
    <3>6. QED
      BY <1>0, <1>1, <2>2, <2>3, <2>4, <3>2, <3>4, <3>5, EditPromised
  <2>6. CASE dir[i].sclust # 0
    <3>1. pc' = "remove" /\ op'.slot = i /\ op'.to = "-" /\ UNCHANGED fil
      BY <2>1, <2>6 DEF CallRemoveChain, NoOp
    <3>2. Attended(i)' /\ \A j \in Slots : Written(j) => Written(j)'
      BY <3>1 DEF Attended, Written
    <3>3. QED
      BY <1>0, <1>1, <2>2, <2>3, <2>4, <3>1, <3>2, EditPromised
  <2>7. QED
    BY <2>5, <2>6
<1>6. CASE OpenBack
  <2>1. /\ op.h \in Handles /\ op.slot \in Slots /\ ~fil[op.h].open
        /\ pc = "open_back" /\ UNCHANGED <<dir, durable>> /\ op'.to = "-"
    BY <1>0, <1>6 DEF OpenBack, Locals, Opening, Filing, Finish, NoOp
  <2>2. PICK g : g = NewFil(op.slot, TRUE, TRUE, 0, 0)
    OBVIOUS
  <2>3. fil' = [fil EXCEPT ![op.h] = g]
    BY <1>0, <1>6, <2>2 DEF OpenBack
  <2>4. g.open /\ g.slot = op.slot /\ g.written
    BY <2>2, CreatedFilFields
  <2>5. \A j \in Slots : Written(j) => Written(j)'
    BY <1>0, <2>1, <2>3, WrittenKept
  <2>6. \A j \in Slots : Attended(j) => Written(j)'
    BY <1>0, <2>1, <2>3, <2>4 DEF Attended, Written
  <2>7. QED
    BY <1>0, <1>1, <2>1, <2>5, <2>6, QuietPromised
<1>7. QED
  BY <1>0, <1>2, <1>3, <1>4, <1>5, <1>6
  DEF OpenStep, Stat, LookUpFails, OpenRefused, Ready

(* What f_write and f_lseek leave of their FIL, and all else.              *)
LEMMA WriteShape ==
    ASSUME ChainsInv, WriteStep
    PROVE  /\ UNCHANGED <<dir, durable, fat, free_clust, fsi_flag, dfsi, mounted>>
           /\ op'.to = "-" \/ op'.to = op.to
           /\ pc \in {"idle", "write_got", "seek_first", "seek", "seek_got"}
           /\ \/ UNCHANGED fil
              \/ \E h \in Handles : \E g :
                   /\ fil' = [fil EXCEPT ![h] = g]
                   /\ g.open = fil[h].open /\ g.slot = fil[h].slot
                   /\ fil[h].written => g.written
<1>0. /\ Locals /\ RunHeads /\ op \in Op /\ VolumeInv
      /\ \A h \in Handles : fil[h] \in Fil
  BY FlushTypes
<1>1. pc \in {"idle", "write_got", "seek_first", "seek", "seek_got"}
  BY StepsStart
<1>2. UNCHANGED <<dir, durable, fat, free_clust, fsi_flag, dfsi, mounted>>
  BY <1>0, VisitFailsStore
  DEF WriteStep, WriteStart, WriteGot, SeekStart, SeekFirst, SeekOn, SeekGot,
      store, counters
<1>3. op'.to = "-" \/ op'.to = op.to
  <2>1. NoOp.to = "-"
    BY DEF NoOp
  <2>2. ASSUME NEW h, NEW x,
               \/ op' = [NoOp EXCEPT !.h = h, !.ofs = x]
               \/ op' = [NoOp EXCEPT !.h = h, !.ncl = x]
        PROVE  op'.to = "-"
    BY <2>2 DEF NoOp
  <2>3. \A h, c, x, r : [NoOp EXCEPT !.h = h, !.cl = c, !.ofs = x, !.ret = r].to = "-"
    BY DEF NoOp
  <2>4. [op EXCEPT !.ofs = @ - 1].to = op.to
    BY <1>0 DEF Op
  <2>5. ASSUME Finish PROVE op'.to = "-"
    BY <2>1, <2>5 DEF Finish
  <2>6. ASSUME NEW h, NEW c, NEW x, NEW r, CallCreateChain(h, c, x, r)
        PROVE  op'.to = "-"
    BY <2>3, <2>6 DEF CallCreateChain
  <2>7. ASSUME NEW h \in Handles, WriteStart(h) PROVE op'.to = "-"
    <3>1. \/ op' = [NoOp EXCEPT !.h = h, !.ncl = fil[h].sclust]
          \/ \E c : CallCreateChain(h, c, 0, "write_got")
      BY <2>7 DEF WriteStart
    <3>2. QED
      BY <2>2, <2>6, <3>1
  <2>8. ASSUME NEW h \in Handles, NEW to \in 0 .. MaxSize, SeekStart(h, to)
        PROVE  op'.to = "-"
    <3>1. \/ Finish
          \/ \E x : op' = [NoOp EXCEPT !.h = h, !.ofs = x]
          \/ \E x : CallCreateChain(h, 0, x, "seek_first")
      BY <2>8 DEF SeekStart
    <3>2. QED
      BY <2>2, <2>5, <2>6, <3>1
  <2>9. CASE SeekOn
    <3>1. \/ Finish
          \/ CallCreateChain(op.h, fil[op.h].clust, op.ofs, "seek_got")
          \/ op' = [op EXCEPT !.ofs = @ - 1]
      BY <2>9 DEF SeekOn
    <3>2. QED
      BY <2>4, <2>5, <2>6, <3>1
  <2>10. CASE WriteGot
    BY <2>5, <2>10 DEF WriteGot
  <2>11. CASE SeekFirst
    <3>1. Finish \/ op' = [NoOp EXCEPT !.h = op.h, !.ofs = op.ofs]
      BY <2>11 DEF SeekFirst
    <3>2. QED
      BY <2>2, <2>5, <3>1
  <2>12. CASE SeekGot
    <3>1. Finish \/ op' = [NoOp EXCEPT !.h = op.h, !.ofs = op.ofs - 1]
      BY <2>12 DEF SeekGot
    <3>2. QED
      BY <2>2, <2>5, <3>1
  <2>13. QED
    BY <2>7, <2>8, <2>9, <2>10, <2>11, <2>12 DEF WriteStep
<1>4. \/ UNCHANGED fil
      \/ \E h \in Handles : \E g :
           /\ fil' = [fil EXCEPT ![h] = g]
           /\ g.open = fil[h].open /\ g.slot = fil[h].slot
           /\ fil[h].written => g.written
  <2>1. ASSUME NEW h \in Handles, NEW g, fil' = [fil EXCEPT ![h] = g],
               g.open = fil[h].open, g.slot = fil[h].slot,
               fil[h].written => g.written
        PROVE  <1>4
    BY <2>1
  <2>2. ASSUME NEW h \in Handles, fil' = [fil EXCEPT ![h] = Aborted(@)]
        PROVE  <1>4
    <3>1. PICK g : g = Aborted(fil[h])
      OBVIOUS
    <3>2. g.open = fil[h].open /\ g.slot = fil[h].slot /\ g.written = fil[h].written
      BY <1>0, <3>1 DEF Fil, Aborted
    <3>3. fil' = [fil EXCEPT ![h] = g]
      BY <2>2, <3>1
    <3>4. QED
      BY <2>1, <3>2, <3>3
  <2>3. ASSUME NEW h \in Handles, fil' = [fil EXCEPT ![h] = Arrived(@)]
        PROVE  <1>4
    <3>1. PICK g : g = Arrived(fil[h])
      OBVIOUS
    <3>2. g.open = fil[h].open /\ g.slot = fil[h].slot
      BY <1>0, <3>1 DEF Fil, Arrived
    <3>3. g.written = (fil[h].written \/ fil[h].fptr >= fil[h].fsize)
      BY <1>0, <3>1 DEF Fil, Arrived
    <3>4. fil' = [fil EXCEPT ![h] = g]
      BY <2>3, <3>1
    <3>5. QED
      BY <2>1, <3>2, <3>3, <3>4
  <2>4. ASSUME NEW h \in Handles, NEW c, fil' = [fil EXCEPT ![h] = OneFurther(@, c)]
        PROVE  <1>4
    <3>1. PICK g : g = OneFurther(fil[h], c)
      OBVIOUS
    <3>2. g.open = fil[h].open /\ g.slot = fil[h].slot /\ g.written = fil[h].written
      BY <1>0, <3>1 DEF Fil, OneFurther
    <3>3. fil' = [fil EXCEPT ![h] = g]
      BY <2>4, <3>1
    <3>4. QED
      BY <2>1, <3>2, <3>3
  <2>5. CASE WriteGot
    <3> DEFINE f == fil[op.h]
    <3>1. PICK p : p = [f EXCEPT !.clust = op.ncl,
                                !.sclust = IF @ = 0 THEN op.ncl ELSE @]
      OBVIOUS
    <3>2. /\ op.h \in Handles /\ f \in Fil /\ op.ncl \in {0} \cup Clusters
          /\ f.sclust \in {0} \cup Clusters
      BY <1>0, <2>5 DEF WriteGot, Locals, Pending, Op, Fil
    <3>3. p \in Fil /\ p.open = f.open /\ p.slot = f.slot /\ p.written = f.written
      BY <3>1, <3>2 DEF Fil
    <3>4. PICK g :
            /\ fil' = [fil EXCEPT ![op.h] = g]
            /\ \/ g = [p EXCEPT !.fptr = @ + 1,
                                !.fsize = IF f.fptr < @ THEN @ ELSE f.fptr + 1,
                                !.written = TRUE]
               \/ g = Aborted(p)
               \/ g = [f EXCEPT !.written = TRUE]
               \/ g = Aborted(f)
      BY <2>5, <3>1 DEF WriteGot
    <3>5. g.open = f.open /\ g.slot = f.slot
      BY <3>2, <3>3, <3>4 DEF Fil, Aborted
    <3>6. f.written => g.written
      <4>1. CASE g = Aborted(p)
        BY <3>3, <4>1 DEF Fil, Aborted
      <4>2. CASE g = Aborted(f)
        BY <3>2, <4>2 DEF Fil, Aborted
      <4>3. CASE g = [f EXCEPT !.written = TRUE]
        BY <3>2, <4>3 DEF Fil
      <4>4. CASE g = [p EXCEPT !.fptr = @ + 1,
                                !.fsize = IF f.fptr < @ THEN @ ELSE f.fptr + 1,
                                !.written = TRUE]
        BY <3>3, <4>4 DEF Fil
      <4>5. QED
        BY <3>4, <4>1, <4>2, <4>3, <4>4
    <3>7. QED
      BY <2>1, <3>2, <3>4, <3>5, <3>6
  <2>6. ASSUME NEW h \in Handles, NEW to \in 0 .. MaxSize, SeekStart(h, to)
        PROVE  <1>4
    <3>1. PICK g :
            /\ fil' = [fil EXCEPT ![h] = g]
            /\ \/ \E x : g = [fil[h] EXCEPT !.fptr = x]
               \/ \E x, y : g = [fil[h] EXCEPT !.fptr = x, !.clust = y]
      <4>1. \/ fil' = [fil EXCEPT ![h].fptr = 0]
            \/ fil' = [fil EXCEPT ![h].fptr = fil[h].fptr - 1]
            \/ fil' = [fil EXCEPT ![h] = [fil[h] EXCEPT !.fptr = 0,
                                                        !.clust = fil[h].sclust]]
        BY <2>6 DEF SeekStart
      <4>2. CASE fil' = [fil EXCEPT ![h].fptr = 0]
        BY <4>2
      <4>3. CASE fil' = [fil EXCEPT ![h].fptr = fil[h].fptr - 1]
        BY <4>3
      <4>4. CASE fil' = [fil EXCEPT ![h] = [fil[h] EXCEPT !.fptr = 0,
                                                        !.clust = fil[h].sclust]]
        BY <4>4
      <4>5. QED
        BY <4>1, <4>2, <4>3, <4>4
    <3>2. g.open = fil[h].open /\ g.slot = fil[h].slot /\ g.written = fil[h].written
      BY <1>0, <3>1 DEF Fil
    <3>3. QED
      BY <2>1, <3>1, <3>2
  <2>7. CASE SeekFirst
    <3>1. PICK g :
            /\ fil' = [fil EXCEPT ![op.h] = g]
            /\ \/ g = Aborted(fil[op.h])
               \/ g = [fil[op.h] EXCEPT !.sclust = op.ncl, !.clust = op.ncl]
      BY <2>7 DEF SeekFirst
    <3>2. op.h \in Handles
      BY <1>0, <2>7 DEF SeekFirst, Locals, Pending
    <3>3. /\ g.open = fil[op.h].open /\ g.slot = fil[op.h].slot
          /\ g.written = fil[op.h].written
      BY <1>0, <3>1, <3>2 DEF Fil, Aborted
    <3>4. QED
      BY <2>1, <3>1, <3>2, <3>3
  <2>8. CASE SeekOn
    <3>1. op.h \in Handles
      BY <1>0, <2>8 DEF SeekOn, Locals
    <3>2. \/ UNCHANGED fil
          \/ fil' = [fil EXCEPT ![op.h] = Arrived(@)]
          \/ fil' = [fil EXCEPT ![op.h] = Aborted(@)]
          \/ fil' = [fil EXCEPT ![op.h] = OneFurther(@, fat[fil[op.h].clust])]
      BY <2>8 DEF SeekOn
    <3>3. QED
      BY <2>2, <2>3, <2>4, <3>1, <3>2
  <2>9. CASE SeekGot
    <3>1. op.h \in Handles
      BY <1>0, <2>9 DEF SeekGot, Locals, Pending
    <3>2. \/ fil' = [fil EXCEPT ![op.h] = Arrived(@)]
          \/ fil' = [fil EXCEPT ![op.h] = Aborted(@)]
          \/ fil' = [fil EXCEPT ![op.h] = OneFurther(@, op.ncl)]
      BY <2>9 DEF SeekGot
    <3>3. QED
      BY <2>2, <2>3, <2>4, <3>1, <3>2
  <2>10. QED
    BY <2>5, <2>6, <2>7, <2>8, <2>9 DEF WriteStep, WriteStart
<1>5. QED
  BY <1>1, <1>2, <1>3, <1>4

LEMMA WriteStepPromised ==
    ASSUME Sure, SyncInv, WriteStep, [Next]_vars
    PROVE  Promised'
<1>0. ChainsInv /\ Filed /\ fil \in [Handles -> Fil]
  BY FlushTypes DEF SyncInv
<1>1. /\ UNCHANGED <<dir, durable>>
      /\ pc \in {"idle", "write_got", "seek_first", "seek", "seek_got"}
  BY <1>0, WriteShape
<1>2. op'.to = "-"
  BY <1>0, <1>1, NotRenaming, WriteShape
<1>3. \A i \in Slots : Written(i) => Written(i)'
  <2>1. CASE UNCHANGED fil
    BY <2>1 DEF Written
  <2>2. CASE \E h \in Handles : \E g :
                /\ fil' = [fil EXCEPT ![h] = g]
                /\ g.open = fil[h].open /\ g.slot = fil[h].slot
                /\ fil[h].written => g.written
    BY <1>0, <2>2, WrittenKept
  <2>3. QED
    BY <1>0, <2>1, <2>2, WriteShape
<1>4. QED
  BY <1>1, <1>2, <1>3, IdlePromised

(* The entry of a FIL is brought up to date, to be flushed at once.        *)
LEMMA SyncStartPromised ==
    ASSUME ChainsInv, Promised, [Next]_vars, op.to = "-", op'.to = "-",
           NEW i \in Slots, \A j \in Slots \ {i} : dir'[j] = dir[j],
           dir'[i].name = dir[i].name, dir'[i].size \in Nat,
           dir'[i].size >= dir[i].size,
           durable' = durable, \A j \in Slots : Attended(j)'
    PROVE  Promised'
<1>0. /\ durable \in [Names -> {Unknown} \cup 0 .. MaxSize]
      /\ \A j \in Slots : dir[j].size \in Nat
      /\ ddir' = ddir \/ ddir' = dir
  BY FlushTypes, MediumMoves
<1>1. \A n \in Names : durable[n] # Unknown =>
         Holds(dir, n, durable[n]) /\ Holds(ddir, n, durable[n])
  BY DEF Promised, Promises
<1>2. Promises(dir)'
  <2>1. ASSUME NEW n \in Names, durable[n] # Unknown
        PROVE  \E k \in Slots : dir'[k].name = n /\ dir'[k].size >= durable[n]
    <3>1. PICK k \in Slots : dir[k].name = n /\ dir[k].size >= durable[n]
      BY <1>1, <2>1 DEF Holds
    <3>2. durable[n] \in Int
      BY <1>0, VolumeAssumption DEF Unknown, VolumeAssumption
    <3>3. dir'[k].name = n /\ dir'[k].size >= durable[n]
      BY <1>0, <3>1, <3>2
    <3>4. QED
      BY <3>3
  <2>2. QED
    BY <2>1 DEF Promises, Holds
<1>3. Promises(ddir)'
  BY <1>0, <1>1 DEF Promises, Holds
<1>4. QED
  BY <1>2, <1>3 DEF Promised, Behind, Renaming

(* The function that synced returns: what it promises is on the medium.    *)
LEMMA SyncReturnsPromised ==
    ASSUME SyncInv, SyncReturns, pc \in {"sync", "fsinfo"},
           dir' = dir, ddir' = dir
    PROVE  Promised'
<1>0. /\ Promises(dir) /\ Renaming /\ Filing /\ FilesFit /\ Locals
      /\ durable \in [Names -> {Unknown} \cup 0 .. MaxSize]
      /\ \A i \in Slots : dir[i].size \in Nat
      /\ \A h \in Handles : fil[h].open => fil[h].slot \in Slots
  BY FlushTypes DEF SyncInv, Promised, Filed
<1>1. op'.to = "-"
  BY DEF SyncReturns, Finish, NoOp
<1>2. ASSUME NEW n \in Names, durable'[n] # Unknown
      PROVE  \E k \in Slots : dir[k].name = n /\ dir[k].size >= durable'[n]
  <2>1. CASE op.to # "-"
    <3>1. /\ durable' = [durable EXCEPT ![op.to] = durable[op.from],
                                        ![op.from] = Unknown]
          /\ op.from \in Names /\ op.to \in Names /\ op.to # op.from
      BY <1>0, <2>1 DEF SyncReturns, Locals, Renaming
    <3>2. n # op.from
      BY <1>0, <1>2, <3>1
    <3>3. CASE n = op.to
      BY <1>0, <1>2, <2>1, <3>1, <3>3 DEF Renaming, Holds
    <3>4. CASE n # op.to
      BY <1>0, <1>2, <3>1, <3>2, <3>4 DEF Promises, Holds
    <3>5. QED
      BY <3>3, <3>4
  <2>2. CASE op.to = "-" /\ op.ret \in {"synced", "closed"}
    <3> DEFINE m == dir[op.slot].name
    <3>1. durable' = [durable EXCEPT ![m] = fil[op.h].fsize]
      BY <2>2 DEF SyncReturns
    <3>2. /\ op.slot \in Slots /\ fil[op.h].fsize = dir[op.slot].size
      BY <1>0, <2>2 DEF Locals, Filing, FilesFit, FitsEntry
    <3>3. CASE n = m
      <4>1. durable'[n] = fil[op.h].fsize
        BY <1>0, <3>1, <3>3
      <4>2. QED
        BY <1>0, <3>2, <3>3, <4>1
    <3>4. CASE n # m
      <4>1. durable'[n] = durable[n]
        BY <1>0, <3>1, <3>4
      <4>2. QED
        BY <1>0, <1>2, <2>2, <4>1 DEF Promises, Holds
    <3>5. QED
      BY <3>3, <3>4
  <2>3. CASE op.to = "-" /\ op.ret \notin {"synced", "closed"}
    <3>1. durable' = durable
      BY <2>3 DEF SyncReturns
    <3>2. QED
      BY <1>0, <1>2, <2>3, <3>1 DEF Promises, Holds
  <2>4. QED
    BY <2>1, <2>2, <2>3
<1>3. Promises(dir)'
  BY <1>2 DEF Promises, Holds
<1>4. Renaming'
  BY <1>1 DEF Renaming
<1>5. QED
  BY <1>3, <1>4, EvenPromised

LEMMA SyncStepPromised ==
    ASSUME Sure, SyncInv, SyncStep, [Next]_vars
    PROVE  Promised'
<1>0. /\ ChainsInv /\ Filed /\ Promised /\ FilesFit /\ Filing /\ Locals /\ VolumeInv
      /\ fil \in [Handles -> Fil] /\ dir \in [Slots -> Entry]
      /\ durable \in [Names -> {Unknown} \cup 0 .. MaxSize]
      /\ \A S : ~VisitFails(S)
      /\ \A h \in Handles : /\ fil[h] \in Fil /\ fil[h].fsize \in Nat
                            /\ fil[h].open => fil[h].slot \in Slots
      /\ \A i \in Slots : dir[i].size \in Nat
      /\ StoreType /\ WindowCoherent
  <2>1. StoreType /\ WindowCoherent
    BY FlushTypes DEF SyncInv, VolumeInv, TypeOK, StoreType
  <2>2. QED
    BY <2>1, FlushTypes, NothingFails DEF SyncInv, Filed
<1>1. ASSUME NEW h \in Handles, NEW closing \in BOOLEAN, SyncClean(h, closing)
      PROVE  Promised'
  <2> DEFINE f == fil[h]
             i == f.slot
             n == dir[i].name
  <2>1. /\ pc = "idle" /\ f.open /\ ~f.written /\ i \in Slots
        /\ UNCHANGED <<dir, ddir, pc, op>>
        /\ durable' = [durable EXCEPT ![n] = f.fsize]
    BY <1>0, <1>1 DEF SyncClean, Ready, Usable, store
  <2>2. f.fsize = dir[i].size
    BY <1>0, <2>1 DEF FilesFit, FitsEntry
  <2>3. op.to = "-"
    BY <1>0, <2>1, NotRenaming
  <2>4. dir[i] = ddir[i]
    <3>1. ~Attended(i)
      BY <2>1 DEF Attended
    <3>2. ASSUME NEW k \in Handles, fil[k].open, fil[k].slot = i, fil[k].written
          PROVE  FALSE
      <4>1. k # h /\ fil[k].write
        BY <1>0, <2>1, <3>2 DEF FilesFit, FitsEntry
      <4>2. QED
        BY <1>0, <2>1, <3>2, <4>1, SharedForReading
    <3>3. ~Written(i)
      BY <3>2 DEF Written
    <3>4. QED
      BY <1>0, <2>1, <3>1, <3>3 DEF Promised, Behind
  <2>5. PICK g : g = [f EXCEPT !.closing = @ \/ closing]
    OBVIOUS
  <2>6. fil' = [fil EXCEPT ![h] = g]
    BY <1>1, <2>5 DEF SyncClean
  <2>7. \A j \in Slots : Written(j) => Written(j)'
    BY <1>0, <2>1, <2>6, WrittenKept
  <2>8. Behind'
    <3>1. ASSUME NEW j \in Slots, dir[j] # ddir[j] PROVE Written(j)'
      BY <1>0, <2>1, <2>7, <3>1 DEF Promised, Behind, Attended
    <3>2. QED
      BY <2>1, <3>1 DEF Behind
  <2>9. ASSUME NEW m \in Names, durable'[m] # Unknown
        PROVE  /\ \E k \in Slots : dir[k].name = m /\ dir[k].size >= durable'[m]
               /\ \E k \in Slots : ddir[k].name = m /\ ddir[k].size >= durable'[m]
    <3>1. CASE m = n
      <4>1. durable'[m] = dir[i].size
        BY <1>0, <2>1, <2>2, <3>1
      <4>2. QED
        BY <1>0, <2>1, <2>4, <3>1, <4>1
    <3>2. CASE m # n
      <4>1. durable'[m] = durable[m]
        BY <1>0, <2>1, <3>2
      <4>2. QED
        BY <1>0, <2>3, <2>9, <4>1 DEF Promised, Promises, Holds
    <3>3. QED
      BY <3>1, <3>2
  <2>10. Promises(dir)' /\ Promises(ddir)'
    BY <2>1, <2>9 DEF Promises, Holds
  <2>11. Renaming'
    BY <2>1, <2>3 DEF Renaming
  <2>12. QED
    BY <2>8, <2>10, <2>11 DEF Promised
<1>2. ASSUME NEW h \in Handles, NEW closing \in BOOLEAN, SyncStart(h, closing)
      PROVE  Promised'
  <2> DEFINE f == fil[h]
             i == f.slot
  <2>1. f.open /\ f.written /\ i \in Slots /\ pc = "idle" /\ durable' = durable
    BY <1>0, <1>2 DEF SyncStart, Usable, Ready
  <2>2. PICK e : e = Resized(dir[i], f.sclust, f.fsize)
    OBVIOUS
  <2>3. dir' = [dir EXCEPT ![i] = e] /\ pc' = "sync" /\ op'.to = "-"
    BY <1>0, <1>2, <2>2 DEF SyncStart, NoOp
  <2>4. e.name = dir[i].name /\ e.size = f.fsize /\ f.fsize >= dir[i].size
    <3>1. dir[i] \in Entry
      BY <1>0, <2>1
    <3>2. QED
      BY <1>0, <2>1, <2>2, <3>1 DEF Resized, Entry, FilesFit, FitsEntry
  <2>5. dir'[i] = e /\ \A j \in Slots \ {i} : dir'[j] = dir[j]
    BY <1>0, <2>1, <2>3
  <2>6. op.to = "-" /\ \A j \in Slots : ~Attended(j)
    BY <1>0, <2>1, NotRenaming DEF Attended
  <2>7. \A j \in Slots : Attended(j)'
    BY <2>3 DEF Attended
  <2>8. QED
    BY <1>0, <2>1, <2>3, <2>4, <2>5, <2>6, <2>7, SyncStartPromised
<1>3. ASSUME NEW h \in Handles, Close(h) PROVE Promised'
  <2>1. /\ fil' = [fil EXCEPT ![h] = ClosedFil] /\ UNCHANGED <<dir, op, durable>>
        /\ pc = "idle" /\ fil[h].closing
    BY <1>3 DEF Close, Ready, store
  <2>2. ~fil[h].written
    BY <1>0, <2>1 DEF FilesFit, FitsEntry
  <2>3. PICK g : g = ClosedFil
    OBVIOUS
  <2>4. \A j \in Slots : Written(j) => Written(j)'
    BY <1>0, <2>1, <2>2, <2>3, WrittenKept
  <2>5. op.to = "-"
    BY <1>0, <2>1, NotRenaming
  <2>6. QED
    BY <2>1, <2>4, <2>5, IdlePromised
<1>4. CASE SyncWindow
  <2>1. pc = "sync" /\ dir' = dir /\ ddir' = dir
    BY <1>0, <1>4, WriteBackCompletes DEF SyncWindow
  <2>2. CASE Goto("fsinfo") /\ UNCHANGED <<fil, durable>>
    <3>1. op' = op /\ durable' = durable
      BY <2>2 DEF Goto
    <3>2. Promises(dir)' /\ Renaming'
      BY <1>0, <2>1, <3>1 DEF Promised, Promises, Renaming, Holds
    <3>3. QED
      BY <2>1, <3>2, EvenPromised
  <2>3. CASE SyncReturns
    BY <2>1, <2>3, SyncReturnsPromised
  <2>4. QED
    BY <1>4, <2>2, <2>3 DEF SyncWindow
<1>5. CASE SyncFails
  BY <1>5 DEF Sure, SyncFails
<1>6. CASE SyncFsInfo
  <2>1. pc = "fsinfo" /\ UNCHANGED <<dir, medium>> /\ SyncReturns /\ ~wflag
    BY <1>0, <1>6 DEF SyncFsInfo, Locals
  <2>2. \A i \in Slots : ddir[i] = dir[i]
    BY <1>0, <2>1 DEF WindowCoherent
  <2>3. ddir' = dir
    BY <1>0, <2>1, <2>2 DEF StoreType, medium
  <2>4. QED
    BY <2>1, <2>3, SyncReturnsPromised
<1>7. QED
  BY <1>1, <1>2, <1>3, <1>4, <1>5, <1>6 DEF SyncStep

LEMMA NameStepPromised ==
    ASSUME Sure, SyncInv, NameStep, [Next]_vars
    PROVE  Promised'
<1>0. /\ ChainsInv /\ Filed /\ Promised /\ Filing /\ Locals /\ NamesIn(dir) /\ RunHeads
      /\ fil \in [Handles -> Fil] /\ dir \in [Slots -> Entry] /\ op \in Op
      /\ durable \in [Names -> {Unknown} \cup 0 .. MaxSize]
      /\ \A S : ~VisitFails(S) /\ ~WriteBackFails(S) /\ ~LoadFails(S)
      /\ \A i \in Slots : dir[i].size \in Nat
      /\ ddir' = ddir \/ ddir' = dir
  BY FlushTypes, NothingFails, MediumMoves DEF SyncInv, Filed
<1>1. ASSUME UNCHANGED <<dir, fil, durable>>, Finish, pc = "idle" PROVE Promised'
  <2>1. op'.to = "-"
    BY <1>1 DEF Finish, NoOp
  <2>2. QED
    BY <1>1, <2>1, IdlePromised DEF Written
<1>2. ASSUME NEW n \in Names, Unlink(n) PROVE Promised'
  <2>1. PICK i \in Found(n) :
          /\ dir' = [dir EXCEPT ![i] = Erased]
          /\ IF dir[i].sclust = 0
             THEN pc' = "sync" /\ op' = NoOp
             ELSE CallRemoveChain(i, dir[i].sclust, FALSE, "-", "sync")
    BY <1>2 DEF Unlink
  <2>2. /\ i \in Slots /\ dir[i].name = n /\ UNCHANGED fil /\ pc = "idle"
        /\ durable' = [durable EXCEPT ![n] = Unknown]
    BY <1>2, <2>1 DEF Unlink, Found, Ready
  <2>3. op'.to = "-" /\ \A j \in Slots : Attended(j)'
    <3>1. CASE dir[i].sclust = 0
      BY <2>1, <3>1 DEF NoOp, Attended
    <3>2. CASE dir[i].sclust # 0
      BY <2>1, <3>2 DEF CallRemoveChain, NoOp, Attended
    <3>3. QED
      BY <3>1, <3>2
  <2>4. \A j \in Slots \ {i} : dir'[j] = dir[j]
    BY <1>0, <2>1
  <2>5. /\ op.to = "-"
        /\ \A j \in Slots : ~Attended(j) /\ (Written(j) => Written(j)')
    BY <1>0, <2>2, NotRenaming DEF Attended, Written
  <2>6. durable'[n] = Unknown /\ \A m \in Names : durable'[m] \in {Unknown, durable[m]}
    BY <1>0, <2>2
  <2>7. QED
    BY <1>0, <2>2, <2>3, <2>4, <2>5, <2>6, EditPromised
<1>3. ASSUME NEW from \in Names, NEW to \in Names, Rename(from, to)
      PROVE  Promised'
  <2>1. PICK i \in Found(from), j \in Slots :
          /\ AllocSlot(j)
          /\ dir' = [dir EXCEPT ![j] = Renamed(dir[i], to)]
          /\ pc' = "rename_remove"
          /\ op' = [NoOp EXCEPT !.slot = i, !.from = from, !.to = to]
    BY <1>3 DEF Rename
  <2>2. /\ i \in Slots /\ dir[i].name = from /\ Found(to) = {} /\ pc = "idle"
        /\ durable' = durable
    BY <1>3, <2>1 DEF Rename, Found, Ready
  <2>3. PICK e : e = Renamed(dir[i], to)
    OBVIOUS
  <2>4. /\ e.name = to /\ e.size = dir[i].size /\ dir'[j] = e
        /\ \A k \in Slots \ {j} : dir'[k] = dir[k]
    BY <1>0, <2>1, <2>2, <2>3 DEF Renamed, Entry
  <2>5. op'.from = from /\ op'.to = to /\ \A k \in Slots : Attended(k)'
    BY <2>1 DEF NoOp, Attended
  <2>6. to # from /\ \A k \in Slots : dir[k].name # to
    BY <1>0, <2>1, <2>2, NameFound
  <2>7. op.to = "-" /\ to # "-"
    BY <1>0, <2>2, NotRenaming, VolumeAssumption DEF VolumeAssumption
  <2>8. \A n \in Names : durable[n] # Unknown =>
           Holds(dir, n, durable[n]) /\ Holds(ddir, n, durable[n])
    BY <1>0, <2>7 DEF Promised, Promises
  <2>9. dir[j].name \notin Names
    BY <2>1, VolumeAssumption
    DEF AllocSlot, FreeSlots, VolumeAssumption, End, Deleted
  <2>10. Promises(dir)'
    <3>1. ASSUME NEW n \in Names, durable[n] # Unknown
          PROVE  \E k \in Slots : dir'[k].name = n /\ dir'[k].size >= durable[n]
      <4>1. PICK k \in Slots : dir[k].name = n /\ dir[k].size >= durable[n]
        BY <2>8, <3>1 DEF Holds
      <4>2. k # j
        BY <2>9, <4>1
      <4>3. QED
        BY <2>4, <4>1, <4>2
    <3>2. QED
      BY <2>2, <3>1 DEF Promises, Holds
  <2>11. Promises(ddir)'
    BY <1>0, <2>2, <2>8 DEF Promises, Holds
  <2>12. Renaming'
    <3>1. durable[to] = Unknown
      BY <2>6, <2>8 DEF Holds
    <3>2. durable[from] # Unknown => dir'[j].name = to /\ dir'[j].size >= durable[from]
      <4>1. ASSUME durable[from] # Unknown PROVE dir[i].size >= durable[from]
        <5>1. PICK k \in Slots : dir[k].name = from /\ dir[k].size >= durable[from]
          BY <2>8, <4>1 DEF Holds
        <5>2. k = i
          BY <1>0, <2>2, <5>1 DEF NamesIn, Live
        <5>3. QED
          BY <5>1, <5>2
      <4>2. QED
        BY <2>4, <4>1
    <3>3. QED
      BY <2>2, <2>5, <2>6, <3>1, <3>2 DEF Renaming, Holds
  <2>13. QED
    BY <2>5, <2>10, <2>11, <2>12 DEF Promised, Behind
<1>4. CASE RenameRemove
  <2> DEFINE i == op.slot
  <2>1. /\ pc = "rename_remove" /\ dir' = [dir EXCEPT ![i] = Erased]
        /\ durable' = durable /\ i \in Slots
        /\ pc' = "sync" /\ op' = [op EXCEPT !.slot = 0]
    BY <1>0, <1>4 DEF RenameRemove, Locals
  <2>2. /\ op.to # "-" /\ op.from \in Names /\ op.to \in Names /\ op.to # op.from
        /\ dir[i].name = op.from
    BY <1>0, <2>1 DEF RunHeads, Locals, Filing, Promised, Renaming
  <2>3. op'.to = op.to /\ op'.from = op.from
    BY <1>0, <2>1 DEF Op
  <2>4. \A k \in Slots \ {i} : dir'[k] = dir[k]
    BY <1>0, <2>1
  <2>5. ASSUME durable[op.from] # Unknown
        PROVE  \E k \in Slots : /\ dir'[k].name = op.to
                                /\ dir'[k].size >= durable[op.from]
    <3>1. PICK k \in Slots : /\ dir[k].name = op.to
                             /\ dir[k].size >= durable[op.from]
      BY <1>0, <2>2, <2>5 DEF Promised, Renaming, Holds
    <3>2. QED
      BY <2>2, <2>4, <3>1
  <2>6. Renaming'
    BY <1>0, <2>1, <2>3, <2>5 DEF Promised, Renaming, Holds
  <2>7. ASSUME NEW n \in Names, durable[n] # Unknown
        PROVE  \/ \E k \in Slots : dir'[k].name = n /\ dir'[k].size >= durable[n]
               \/ /\ op.from = n
                  /\ \E k \in Slots : dir'[k].name = op.to /\ dir'[k].size >= durable[n]
    <3>1. CASE n = op.from
      BY <2>5, <2>7, <3>1
    <3>2. CASE n # op.from
      <4>1. PICK k \in Slots : dir[k].name = n /\ dir[k].size >= durable[n]
        BY <1>0, <2>7, <3>2 DEF Promised, Promises, Holds
      <4>2. QED
        BY <2>2, <2>4, <3>2, <4>1
    <3>3. QED
      BY <3>1, <3>2
  <2>8. Promises(dir)'
    BY <2>1, <2>2, <2>3, <2>7 DEF Promises, Holds
  <2>9. Promises(ddir)'
    <3>1. Promises(dir) /\ Promises(ddir)
      BY <1>0 DEF Promised
    <3>2. CASE ddir' = dir
      BY <2>1, <2>3, <3>1, <3>2 DEF Promises, Holds
    <3>3. CASE ddir' = ddir
      BY <2>1, <2>3, <3>1, <3>3 DEF Promises, Holds
    <3>4. QED
      BY <1>0, <3>2, <3>3
  <2>10. QED
    BY <2>1, <2>6, <2>8, <2>9 DEF Promised, Behind, Attended
<1>5. CASE GetFree
  BY <1>1, <1>5 DEF GetFree, Ready
<1>6. CASE GetFreeFails
  BY <1>0, <1>6 DEF GetFreeFails
<1>7. ASSUME NEW n, LookUp(n), pc = "idle" PROVE Promised'
  BY <1>1, <1>7 DEF LookUp
<1>8. QED
  BY <1>2, <1>3, <1>4, <1>5, <1>6, <1>7
  DEF NameStep, UnlinkRefused, RenameRefused, Ready

-----------------------------------------------------------------------------
(* Power loss and the rest.                                                *)

(* The next function sees what the medium had.                             *)
LEMMA DismountSync ==
    ASSUME Sure, SyncInv, Dismount
    PROVE  NamesIn(dir') /\ FilesFit' /\ Filing' /\ Promised'
<1>0. /\ Locals /\ durable \in [Names -> {Unknown} \cup 0 .. MaxSize]
      /\ Promises(ddir) /\ NamesIn(ddir)
  BY FlushTypes DEF SyncInv, Promised, Filed
<1>1. /\ dir' = ddir /\ ddir' = ddir /\ Finish /\ Withdraw
      /\ fil' = [h \in Handles |-> ClosedFil]
  BY DEF Dismount
<1>2. NamesIn(dir')
  BY <1>0, <1>1
<1>3. FilesFit'
  BY <1>1 DEF FilesFit, FitsEntry, ClosedFil
<1>4. op'.to = "-"
  BY <1>1 DEF Finish, NoOp
<1>5. Promises(dir)'
  <2>1. ASSUME NEW n \in Names, durable'[n] # Unknown
        PROVE  Holds(ddir, n, durable'[n])
    <3>1. CASE op.to = "-"
      BY <1>0, <1>1, <2>1, <3>1 DEF Withdraw, Promises
    <3>2. CASE op.to # "-"
      <4>1. durable' = [durable EXCEPT ![op.from] = Unknown] /\ op.from \in Names
        BY <1>0, <1>1, <3>2 DEF Withdraw, Locals
      <4>2. n # op.from /\ durable'[n] = durable[n]
        BY <1>0, <2>1, <4>1
      <4>3. QED
        BY <1>0, <2>1, <4>2 DEF Promises
    <3>3. QED
      BY <3>1, <3>2
  <2>2. QED
    BY <1>1, <2>1 DEF Promises, Holds
<1>6. Promised'
  BY <1>1, <1>4, <1>5, EvenPromised DEF Renaming
<1>7. QED
  BY <1>1, <1>2, <1>3, <1>6, FinishFiling

LEMMA SyncInvStep == Sure /\ SyncInv /\ [Next]_vars => SyncInv'
<1> SUFFICES ASSUME Sure, SyncInv, [Next]_vars PROVE SyncInv'
  OBVIOUS
<1>0. ChainsInv /\ Filed /\ Promised
  BY DEF SyncInv
<1>1. ChainsInv'
  BY <1>0, ChainsStep DEF Sure
<1>2. NamesIn(ddir')
  BY <1>0, MediumMoves DEF Filed
<1>3. ASSUME UNCHANGED <<dir, ddir, fil, pc, op, durable>>
      PROVE  NamesIn(dir') /\ FilesFit' /\ Filing' /\ Promised'
  <2>1. NamesIn(dir') /\ FilesFit' /\ Filing'
    BY <1>0, <1>3 DEF Filed, FilesFit, Filing
  <2>2. Promised'
    BY <1>0, <1>3
    DEF Promised, Promises, Behind, Renaming, Holds, Written, Attended
  <2>3. QED
    BY <2>1, <2>2
<1>4. NamesIn(dir') /\ FilesFit' /\ Filing' /\ Promised'
  <2>1. CASE UNCHANGED vars
    BY <1>3, <2>1 DEF vars
  <2>2. CASE Mount
    BY <1>3, <2>2 DEF Mount, store
  <2>3. CASE Unmount \/ PowerLoss
    BY <2>3, DismountSync DEF Unmount, PowerLoss
  <2>4. CASE ChainStep
    BY <1>0, <2>4, ChainStepFiled, ChainStepPromised
  <2>5. CASE OpenStep
    BY <1>0, <2>5, OpenStepFiled, OpenStepPromised
  <2>6. CASE WriteStep
    BY <1>0, <2>6, WriteStepFiled, WriteStepPromised
  <2>7. CASE SyncStep
    BY <1>0, <2>7, SyncStepFiled, SyncStepPromised
  <2>8. CASE NameStep
    BY <1>0, <2>8, NameStepFiled, NameStepPromised
  <2>9. QED
    BY <2>1, <2>2, <2>3, <2>4, <2>5, <2>6, <2>7, <2>8 DEF Next
<1>5. QED
  BY <1>1, <1>2, <1>4 DEF SyncInv, Filed

LEMMA SyncInitially == Init => SyncInv
<1> SUFFICES ASSUME Init PROVE SyncInv
  OBVIOUS
<1>1. /\ dir = [i \in Slots |-> [name |-> End, sclust |-> 0, size |-> 0]]
      /\ ddir = dir /\ fil = [h \in Handles |-> ClosedFil]
      /\ pc = "idle" /\ op = NoOp /\ durable = [n \in Names |-> Unknown]
  BY DEF Init
<1>2. NamesIn(dir)
  BY <1>1, VolumeAssumption DEF NamesIn, Live, VolumeAssumption, End
<1>3. FilesFit
  BY <1>1 DEF FilesFit, FitsEntry, ClosedFil
<1>4. Filing
  BY <1>1 DEF Filing, Growing, NoOp
<1>5. Promised
  BY <1>1 DEF Promised, Promises, Behind, Renaming, NoOp
<1>6. QED
  BY <1>1, <1>2, <1>3, <1>4, <1>5, ChainsInitially DEF SyncInv, Filed

(* Every reachable state satisfies the second inductive invariant: entries *)
(* and FILs agree about sizes, and where an entry is ahead of the medium   *)
(* somebody is to flush it.                                                *)
THEOREM SyncInvariant == Sure => (Spec => []SyncInv)
<1> SUFFICES ASSUME Sure PROVE Spec => []SyncInv
  OBVIOUS
<1>1. SyncInv /\ [Next]_vars => SyncInv'
  BY SyncInvStep
<1>2. QED
  BY <1>1, SyncInitially, PTL DEF Spec

(* What f_sync or f_close has returned FR_OK for stays on the medium with  *)
(* a chain as long as was promised, whatever runs later and wherever the   *)
(* power fails.                                                            *)
THEOREM SyncedStays == Sure => (Spec => []SyncedSurvives)
<1> SUFFICES ASSUME Sure PROVE Spec => []SyncedSurvives
  OBVIOUS
<1>1. ASSUME SyncInv PROVE SyncedSurvives
  <2>0. /\ Covers(dfat, ddir) /\ Promises(ddir)
        /\ durable \in [Names -> {Unknown} \cup 0 .. MaxSize]
        /\ \A i \in Slots : ddir[i].size \in Nat
    BY <1>1, FlushTypes DEF SyncInv, Promised, ChainsInv
  <2>1. ASSUME NEW n, NEW m \in Names, durable[m] # Unknown, Holds(ddir, n, durable[m])
        PROVE  OnMedium(n, durable[m])
    <3>1. PICK i \in Slots : ddir[i].name = n /\ ddir[i].size >= durable[m]
      BY <2>1 DEF Holds
    <3>2. durable[m] \in Nat
      BY <2>0, <2>1, VolumeAssumption DEF VolumeAssumption
    <3>3. HasLength(dfat, ddir[i].sclust, ddir[i].size)
      BY <2>0 DEF Covers, Covered
    <3>4. HasLength(dfat, ddir[i].sclust, durable[m])
      BY <2>0, <3>1, <3>2, <3>3 DEF HasLength
    <3>5. QED
      BY <3>1, <3>4 DEF OnMedium
  <2>2. QED
    BY <2>0, <2>1 DEF Promises, SyncedSurvives
<1>2. QED
  BY <1>1, SyncInvariant, PTL

-----------------------------------------------------------------------------
(* The third invariant, where nothing fails: the free count, and what      *)
(* brings the medium to the memory.                                        *)

Calm == Exclusive /\ Faults = {}

Free(F) == {c \in Clusters : F[c] = 0}
Count(F) == Cardinality(Free(F))

(* create_chain counts a cluster when it has linked it.                    *)
Uncounted == IF pc = "link" THEN 1 ELSE 0

(* What the counters say of a mounted volume.                              *)
CountKnown ==
    /\ FsInfo => free_clust # Unknown
    /\ free_clust # Unknown => free_clust = Count(fat) + Uncounted
    /\ FsInfo /\ ~fsi_flag => dfsi.free = free_clust

(* Nothing is left behind when a volume is not mounted.                    *)
PutAway ==
    /\ pc = "idle" /\ dfat = fat /\ ddir = dir
    /\ \A h \in Handles : ~fil[h].open
    /\ FsInfo => dfsi.free = Count(fat)

Counted == IF mounted THEN CountKnown ELSE PutAway

(* The medium is behind the memory.                                        *)
Lag == medium # <<fat, dir>> \/ (FsInfo /\ fsi_flag)

Owed == \E h \in Handles : fil[h].open /\ fil[h].written

(* f_lseek has come so far that its FIL will be marked.                    *)
AtEnd == Seeking /\ fil[op.h].fptr >= fil[op.h].fsize
NextAtEnd == pc = "seek_got" /\ op.res = "ok" /\ fil[op.h].fptr + 1 >= fil[op.h].fsize

(* Somebody is to flush: a FIL that is marked, or the running function     *)
(* when it ends, or the FIL that it is going to mark.                      *)
Due == \/ Owed
       \/ pc \in {"write_got", "remove", "open_back", "sync", "fsinfo", "rename_remove"}
       \/ pc \in {"create", "link"} /\ op.ret = "write_got"
       \/ pc = "link"
       \/ pc = "seek_first" /\ op.res = "ok"
       \/ AtEnd \/ NextAtEnd

Flushed == /\ Lag => Due
           /\ pc \in {"write_got", "seek_first", "seek_got"} => op.res # "error"

CleanInv == SyncInv /\ Counted /\ Flushed

-----------------------------------------------------------------------------
(* Counting.                                                               *)

LEMMA CalmSure == Calm => Sure
BY DEF Calm, Sure, Scope

LEMMA FreeFinite ==
    ASSUME NEW F
    PROVE  IsFiniteSet(Free(F)) /\ Count(F) \in Nat /\ Count(F) <= n_fatent - 2
<1>1. IsFiniteSet(Clusters) /\ Cardinality(Clusters) = n_fatent - 2
  BY FS_Interval, VolumeAssumption DEF Clusters, VolumeAssumption
<1>2. Free(F) \in SUBSET Clusters
  BY DEF Free
<1>3. IsFiniteSet(Free(F)) /\ Cardinality(Free(F)) <= Cardinality(Clusters)
  BY <1>1, <1>2, FS_Subset
<1>4. QED
  BY <1>1, <1>3, FS_CardinalityType DEF Count

LEMMA CountSame ==
    ASSUME NEW F, NEW G, \A c \in Clusters : F[c] = 0 <=> G[c] = 0
    PROVE  Count(G) = Count(F)
<1>1. Free(G) = Free(F)
  BY DEF Free
<1>2. QED
  BY <1>1 DEF Count

(* One cluster less is free in G than in F.                                *)
LEMMA CountOne ==
    ASSUME NEW F, NEW G, NEW x \in Clusters, F[x] = 0, G[x] # 0,
           \A c \in Clusters \ {x} : G[c] = F[c]
    PROVE  Count(F) = Count(G) + 1 /\ Count(G) \in Nat
<1>1. Free(F) = Free(G) \cup {x} /\ x \notin Free(G)
  BY DEF Free
<1>2. Cardinality(Free(G) \cup {x}) = Cardinality(Free(G)) + 1
  BY <1>1, FreeFinite, FS_AddElement
<1>3. QED
  BY <1>1, <1>2, FreeFinite DEF Count

(* The allocation table and the counters stay.                             *)
LEMMA QuietCounted ==
    ASSUME Counted, mounted, mounted', UNCHANGED <<fat, free_clust, fsi_flag, dfsi>>,
           pc = "link" <=> pc' = "link"
    PROVE  Counted'
BY DEF Counted, CountKnown, Uncounted, Count, Free

(* Which steps leave the volume mounted, and that all of it.               *)
LEMMA StepsMounted ==
    ASSUME Counted, ChainStep \/ OpenStep \/ WriteStep \/ SyncStep \/ NameStep
    PROVE  mounted /\ mounted'
<1>1. mounted' = mounted
  BY DEF ChainStep, OpenStep, WriteStep, SyncStep, NameStep
<1>2. pc # "idle" => mounted
  BY DEF Counted, PutAway
<1>3. CASE OpenStep
  BY <1>2, <1>3
  DEF OpenStep, Stat, LookUpFails, OpenRefused, OpenExisting, OpenCreate,
      OpenTruncate, OpenBack, Ready
<1>4. CASE WriteStep
  BY <1>2, <1>4
  DEF WriteStep, WriteStart, WriteGot, SeekStart, SeekFirst, SeekOn, SeekGot, Ready
<1>5. CASE SyncStep
  BY <1>2, <1>5
  DEF SyncStep, SyncClean, SyncStart, Close, SyncWindow, SyncFails, SyncFsInfo, Ready
<1>6. CASE NameStep
  BY <1>2, <1>6
  DEF NameStep, Unlink, UnlinkRefused, Rename, RenameRefused, RenameRemove,
      GetFree, GetFreeFails, Ready
<1>7. QED
  BY <1>1, <1>2, <1>3, <1>4, <1>5, <1>6, StepsStart

LEMMA ChainStepCounted ==
    ASSUME Calm, SyncInv, Counted, ChainStep
    PROVE  Counted'
<1>0. /\ VolumeInv /\ RunHeads /\ Locals /\ op \in Op /\ Sure
      /\ fat \in [Clusters -> {0} \cup Clusters \cup {EOC}]
      /\ \A S : ~VisitFails(S)
      /\ mounted /\ mounted' /\ dfsi' = dfsi /\ CountKnown
      /\ free_clust \in Nat \cup {Unknown}
  <2>1. ChainsInv
    BY DEF SyncInv
  <2>2. fat \in [Clusters -> {0} \cup Clusters \cup {EOC}]
        /\ free_clust \in Nat \cup {Unknown}
    BY <2>1, FlushTypes DEF VolumeInv, TypeOK
  <2>3. mounted /\ mounted'
    BY StepsMounted
  <2>4. QED
    BY <2>1, <2>2, <2>3, CalmSure, NothingFails, FlushTypes DEF ChainStep, Counted
<1>1. ASSUME UNCHANGED <<fat, free_clust, fsi_flag>>, pc # "link", pc' # "link"
      PROVE  Counted'
  BY <1>0, <1>1, QuietCounted
<1>2. CASE ChainFollowed \/ ChainBroken \/ ChainFull
  <2>1. pc = "create" /\ pc' = op.ret /\ UNCHANGED <<fat, free_clust, fsi_flag>>
    BY <1>2 DEF ChainFollowed, ChainBroken, ChainFull, Return, counters
  <2>2. QED
    BY <1>0, <1>1, <2>1 DEF Locals, Pending
<1>3. CASE ChainMark
  <2>1. PICK k \in 1 .. ScanLength :
          LET ncl == Scanned(ScanStart(op.cl), k) IN
          /\ fat[ncl] = 0
          /\ fat' = [fat EXCEPT ![ncl] = EOC]
          /\ IF op.cl = 0
             THEN Return("ok", ncl) /\ last_clust' = ncl /\ DecFree
             ELSE /\ pc' = "link" /\ op' = [op EXCEPT !.ncl = ncl]
                  /\ UNCHANGED counters
    BY <1>3 DEF ChainMark
  <2>2. PICK x : x = Scanned(ScanStart(op.cl), k)
    OBVIOUS
  <2>3. /\ fat[x] = 0 /\ fat' = [fat EXCEPT ![x] = EOC] /\ x \in Clusters
        /\ pc = "create"
        /\ IF op.cl = 0 THEN pc' = op.ret /\ DecFree
                        ELSE pc' = "link" /\ UNCHANGED counters
    BY <1>0, <1>3, <2>1, <2>2, ScanInTable
    DEF ChainMark, Return, VolumeInv
  <2>4. fat'[x] # 0 /\ \A c \in Clusters \ {x} : fat'[c] = fat[c]
    BY <1>0, <2>3, ClusterNumbers
  <2>5. Count(fat) = Count(fat') + 1 /\ Count(fat') \in Nat
    BY <2>3, <2>4, CountOne
  <2>6. Uncounted = 0
    BY <2>3 DEF Uncounted
  <2>7. CASE op.cl = 0
    <3>1. Uncounted' = 0
      BY <1>0, <2>3, <2>7 DEF Uncounted, Locals, Pending
    <3>2. DecFree
      BY <2>3, <2>7
    <3>3. CASE free_clust = Unknown
      BY <1>0, <3>2, <3>3 DEF DecFree, Counted, CountKnown
    <3>4. CASE free_clust # Unknown
      <4>1. free_clust' = free_clust - 1 /\ fsi_flag' = TRUE
        BY <3>2, <3>4 DEF DecFree
      <4>2. free_clust = Count(fat)
        BY <1>0, <2>5, <2>6, <3>4 DEF CountKnown
      <4>3. free_clust' = Count(fat') /\ free_clust' # Unknown
        BY <2>5, <4>1, <4>2 DEF Unknown
      <4>4. Count(fat)' = Count(fat')
        BY DEF Count, Free
      <4>5. QED
        BY <1>0, <2>5, <3>1, <4>1, <4>3, <4>4 DEF Counted, CountKnown
    <3>5. QED
      BY <3>3, <3>4
  <2>8. CASE op.cl # 0
    <3>1. Uncounted' = 1 /\ UNCHANGED <<free_clust, fsi_flag>>
      BY <2>3, <2>8 DEF Uncounted, counters
    <3>2. Count(fat)' = Count(fat')
      BY DEF Count, Free
    <3>3. QED
      BY <1>0, <2>5, <2>6, <3>1, <3>2 DEF Counted, CountKnown
  <2>9. QED
    BY <2>7, <2>8
<1>4. CASE ChainLink
  <2>1. /\ fat' = [fat EXCEPT ![op.cl] = op.ncl] /\ DecFree /\ pc' = op.ret
        /\ pc = "link" /\ fat[op.cl] = EOC /\ op.ncl \in Clusters
        /\ op.cl \in Clusters
    BY <1>0, <1>4 DEF ChainLink, Return, RunHeads, Locals
  <2>2. \A c \in Clusters : fat[c] = 0 <=> fat'[c] = 0
    BY <1>0, <2>1, ClusterNumbers
  <2>3. Count(fat') = Count(fat) /\ Count(fat) \in Nat
    BY <2>2, CountSame, FreeFinite
  <2>4. Uncounted = 1 /\ Uncounted' = 0
    BY <1>0, <2>1 DEF Uncounted, Locals, Pending
  <2>5. CASE free_clust = Unknown
    BY <1>0, <2>1, <2>5 DEF DecFree, Counted, CountKnown
  <2>6. CASE free_clust # Unknown
    <3>1. free_clust' = free_clust - 1 /\ fsi_flag' = TRUE
      BY <2>1, <2>6 DEF DecFree
    <3>2. free_clust = Count(fat) + 1
      BY <1>0, <2>4, <2>6 DEF CountKnown
    <3>3. free_clust' = Count(fat') /\ free_clust' # Unknown
      BY <2>3, <3>1, <3>2 DEF Unknown
    <3>4. Count(fat)' = Count(fat')
      BY DEF Count, Free
    <3>5. QED
      BY <1>0, <2>3, <2>4, <3>1, <3>3, <3>4 DEF Counted, CountKnown
  <2>7. QED
    BY <2>5, <2>6
<1>5. CASE RemoveLink
  <2>1. /\ fat' = [fat EXCEPT ![op.cl] = 0] /\ IncFree /\ fat[op.cl] # 0
        /\ op.cl \in Clusters /\ pc # "link" /\ pc' # "link"
    BY <1>0, <1>5 DEF RemoveLink, Goto, Locals
  <2>2. fat'[op.cl] = 0 /\ \A c \in Clusters \ {op.cl} : fat[c] = fat'[c]
    BY <1>0, <2>1
  <2>3. Count(fat') = Count(fat) + 1 /\ Count(fat) \in Nat
    BY <2>1, <2>2, CountOne
  <2>4. Uncounted = 0 /\ Uncounted' = 0
    BY <2>1 DEF Uncounted
  <2>5. CASE free_clust = Unknown
    BY <1>0, <2>1, <2>5 DEF IncFree, Counted, CountKnown
  <2>6. CASE free_clust # Unknown
    <3>1. free_clust' = free_clust + 1 /\ fsi_flag' = TRUE
      BY <2>1, <2>6 DEF IncFree
    <3>2. free_clust = Count(fat)
      BY <1>0, <2>3, <2>4, <2>6 DEF CountKnown
    <3>3. free_clust' = Count(fat') /\ free_clust' # Unknown
      BY <2>3, <3>1, <3>2 DEF Unknown
    <3>4. Count(fat)' = Count(fat')
      BY DEF Count, Free
    <3>5. QED
      BY <1>0, <2>3, <2>4, <3>1, <3>3, <3>4 DEF Counted, CountKnown
  <2>7. QED
    BY <2>5, <2>6
<1>6. CASE RemoveStops
  BY <1>0, <1>1, <1>6 DEF RemoveStops, Goto, Locals, counters
<1>7. QED
  BY <1>0, <1>2, <1>3, <1>4, <1>5, <1>6 DEF ChainStep, ChainFails, RemoveFails

-----------------------------------------------------------------------------
(* Flushing.                                                               *)

LEMMA LagKept ==
    ASSUME ChainsInv, [Next]_vars, UNCHANGED <<fat, dir>>,
           FsInfo /\ fsi_flag' => fsi_flag
    PROVE  Lag' => Lag
<1>1. UNCHANGED medium \/ medium' = <<fat, dir>>
  BY MediumMoves
<1>2. QED
  BY <1>1 DEF Lag

LEMMA OwedKept ==
    ASSUME fil \in [Handles -> Fil], NEW h \in Handles, NEW g,
           fil' = [fil EXCEPT ![h] = g],
           fil[h].open /\ fil[h].written => g.open /\ g.written
    PROVE  Owed => Owed'
<1>1. fil'[h] = g /\ \A k \in Handles \ {h} : fil'[k] = fil[k]
  OBVIOUS
<1>2. QED
  BY <1>1 DEF Owed

LEMMA OwedNow ==
    ASSUME fil \in [Handles -> Fil], NEW h \in Handles, NEW g,
           fil' = [fil EXCEPT ![h] = g], g.open, g.written
    PROVE  Owed'
BY DEF Owed

(* No function, or one that has done nothing yet.                          *)
LEMMA DueAtStart ==
    ASSUME Flushed, pc = "idle"
    PROVE  Lag => Owed
BY DEF Flushed, Due, AtEnd, NextAtEnd, Seeking

(* Where the chain ends the FIL is at its end.                             *)
LEMMA EndsAtSize ==
    ASSUME ChainsInv, Seeking, NEW h \in Handles, h = op.h, fil[h].open,
           fat[fil[h].clust] = EOC
    PROVE  fil[h].fptr + 1 >= fil[h].fsize
<1>0. /\ fil[h].fptr \in Nat /\ fil[h].fsize \in Nat
      /\ Walked(fat, fil[h].sclust, fil[h].fptr, fil[h].clust)
      /\ Covered(fat, fil[h].sclust, fil[h].fsize)
  BY ChainsTypes DEF Running, Chains, Fits
<1>1. PICK s, k, n : s = fil[h].sclust /\ k = fil[h].fptr /\ n = fil[h].fsize
  OBVIOUS
<1>2. ASSUME k + 1 < n PROVE FALSE
  <2>1. k + 1 \in 0 .. n - 1 /\ k \in Nat
    BY <1>0, <1>1, <1>2
  <2>2. PICK x : Walked(fat, s, k + 1, x)
    BY <1>0, <1>1, <2>1, CoveredWalk
  <2>3. PICK y : Walked(fat, s, k, y) /\ fat[y] = x
    BY <2>1, <2>2, WalkedBack
  <2>4. x = EOC
    BY <1>0, <1>1, <2>3 DEF Walked
  <2>5. QED
    BY <2>2, <2>4, ClusterNumbers DEF Walked
<1>3. QED
  BY <1>0, <1>1, <1>2

(* create_chain follows a chain whose clusters are allocated.              *)
LEMMA NothingBroken ==
    ASSUME ChainsInv, pc = "create", op.cl # 0
    PROVE  fat[op.cl] # 0
<1>0. /\ RunHeads /\ Running /\ Locals /\ OwnersInv /\ op.h \in Handles
      /\ op.ret \in {"write_got", "seek_first", "seek_got"}
  BY ChainsTypes DEF Locals, Pending, ChainsInv
<1>1. fil[op.h].open /\ fil[op.h].sclust # 0 /\ op.ret # "seek_first"
  BY <1>0 DEF RunHeads, Growing
<1>2. CASE op.ret = "write_got"
  BY <1>0, <1>1, <1>2, WritingAt, WalkedAllocated
<1>3. CASE op.ret = "seek_got"
  <2>1. Walked(fat, fil[op.h].sclust, fil[op.h].fptr, op.cl)
    BY <1>0, <1>3 DEF Running, Seeking
  <2>2. QED
    BY <1>0, <1>1, <2>1, WalkedAllocated
<1>4. QED
  BY <1>0, <1>1, <1>2, <1>3

LEMMA ChainStepFlushed ==
    ASSUME Calm, SyncInv, Counted, Flushed, ChainStep, [Next]_vars
    PROVE  Flushed'
<1>0. /\ ChainsInv /\ RunHeads /\ Running /\ Locals /\ op \in Op /\ Sure
      /\ TablesType(fat, dir) /\ fil \in [Handles -> Fil]
      /\ \A S : ~VisitFails(S)
      /\ UNCHANGED <<dir, fil>>
      /\ op'.h = op.h /\ op'.ret = op.ret
  BY CalmSure, NothingFails, FlushTypes, ChainsTypes, ChainShape DEF SyncInv
<1>1. Owed => Owed'
  BY <1>0 DEF Owed
<1>2. ASSUME pc \in {"create", "link"}
      PROVE  /\ op.h \in Handles /\ fil[op.h].open
             /\ op.ret \in {"write_got", "seek_first", "seek_got"}
  BY <1>0, <1>2 DEF Locals, Pending, RunHeads, Growing
<1>3. CASE ChainFollowed \/ ChainFull
  <2>1. /\ pc = "create" /\ pc' = op.ret
        /\ UNCHANGED <<fat, dir, fsi_flag>>
        /\ \E ncl : Return("ok", ncl) \/ Return("full", ncl)
    BY <1>3 DEF ChainFollowed, ChainFull, Return, counters
  <2>2. op'.res # "error"
    BY <1>0, <2>1 DEF Return, Op
  <2>3. AtEnd => AtEnd'
    BY <1>0, <2>1 DEF AtEnd, Seeking
  <2>4. Due => Due'
    BY <1>1, <2>1, <2>3 DEF Due, NextAtEnd
  <2>5. Lag' => Lag
    BY <1>0, <2>1, LagKept
  <2>6. QED
    BY <2>2, <2>4, <2>5 DEF Flushed
<1>4. CASE ChainBroken
  BY <1>0, <1>4, NothingBroken DEF ChainBroken
<1>5. CASE ChainMark
  <2>1. /\ pc = "create"
        /\ \/ pc' = "link"
           \/ /\ op.cl = 0 /\ pc' = op.ret
              /\ \E ncl : op' = [op EXCEPT !.res = "ok", !.ncl = ncl]
    BY <1>5 DEF ChainMark, Return
  <2>2. CASE pc' = "link"
    BY <2>2 DEF Flushed, Due
  <2>3. CASE op.cl = 0 /\ pc' = op.ret
             /\ \E ncl : op' = [op EXCEPT !.res = "ok", !.ncl = ncl]
    <3>1. op'.res = "ok" /\ pc' \in {"write_got", "seek_first"}
      BY <1>0, <1>2, <2>1, <2>3 DEF RunHeads, Op
    <3>2. QED
      BY <3>1 DEF Flushed, Due
  <2>4. QED
    BY <2>1, <2>2, <2>3
<1>6. CASE ChainLink
  <2>1. /\ pc = "link" /\ pc' = op.ret /\ fat[op.cl] = EOC
        /\ op' = [op EXCEPT !.res = "ok", !.ncl = op.ncl]
    BY <1>0, <1>6 DEF ChainLink, Return, RunHeads
  <2>2. op'.res = "ok"
    BY <1>0, <2>1 DEF Op
  <2>3. CASE op.ret \in {"write_got", "seek_first"}
    BY <2>1, <2>2, <2>3 DEF Flushed, Due
  <2>4. CASE op.ret = "seek_got"
    <3>1. Seeking /\ op.cl = fil[op.h].clust
      BY <1>0, <2>1, <2>4 DEF Seeking, Running
    <3>2. fil[op.h].fptr + 1 >= fil[op.h].fsize
      BY <1>0, <1>2, <2>1, <3>1, EndsAtSize
    <3>3. NextAtEnd'
      BY <1>0, <2>1, <2>2, <2>4, <3>2 DEF NextAtEnd
    <3>4. QED
      BY <2>2, <3>3 DEF Flushed, Due
  <2>5. QED
    BY <1>2, <2>1, <2>3, <2>4
<1>7. CASE RemoveLink \/ RemoveStops
  <2>1. pc' \in {"remove", "open_back", "sync"}
    BY <1>0, <1>7 DEF RemoveLink, RemoveStops, Goto, Locals
  <2>2. QED
    BY <2>1 DEF Flushed, Due
<1>8. QED
  BY <1>0, <1>3, <1>4, <1>5, <1>6, <1>7 DEF ChainStep, ChainFails, RemoveFails

(* A function that does not change the tables runs to its end.             *)
LEMMA LookFlushed ==
    ASSUME ChainsInv, Flushed, [Next]_vars, UNCHANGED <<fat, dir, fsi_flag>>,
           pc = "idle", pc' \notin {"write_got", "seek_first", "seek_got"},
           Owed => Owed'
    PROVE  Flushed'
BY LagKept, DueAtStart DEF Flushed, Due

LEMMA OpenStepClean ==
    ASSUME Calm, CleanInv, OpenStep, [Next]_vars
    PROVE  Counted' /\ Flushed'
<1>0. /\ ChainsInv /\ Counted /\ Flushed /\ Locals /\ Filing /\ VolumeInv
      /\ fil \in [Handles -> Fil] /\ \A S : ~VisitFails(S)
      /\ mounted /\ mounted'
      /\ pc \in {"idle", "open_back"}
  BY CalmSure, NothingFails, FlushTypes, StepsMounted, StepsStart
  DEF CleanInv, SyncInv, Filed
<1>1. /\ UNCHANGED <<fat, free_clust, fsi_flag, dfsi>>
      /\ pc' \in {"idle", "remove"}
  BY <1>0
  DEF OpenStep, Stat, LookUpFails, OpenRefused, OpenExisting, OpenCreate,
      OpenTruncate, OpenBack, LookUp, CallRemoveChain, Finish, counters
<1>2. Counted'
  BY <1>0, <1>1, QuietCounted
<1> SUFFICES Flushed'
  BY <1>2
<1>3. ASSUME Owed' PROVE Flushed'
  BY <1>1, <1>3 DEF Flushed, Due
<1>4. ASSUME NEW n, LookUp(n), pc = "idle" PROVE Flushed'
  <2>1. UNCHANGED <<dir, fil>>
    BY <1>4 DEF LookUp
  <2>2. QED
    BY <1>0, <1>1, <1>4, <2>1, LookFlushed DEF Owed
<1>5. ASSUME NEW h \in Handles, NEW n \in Names, NEW mode \in Modes,
             NEW write \in BOOLEAN, OpenExisting(h, n, mode, write)
      PROVE  Flushed'
  <2>1. PICK g : fil' = [fil EXCEPT ![h] = g]
    BY <1>5 DEF OpenExisting
  <2>2. UNCHANGED dir /\ ~fil[h].open /\ pc = "idle"
    BY <1>5 DEF OpenExisting, Ready
  <2>3. QED
    BY <1>0, <1>1, <2>1, <2>2, OwedKept, LookFlushed
<1>6. ASSUME NEW h \in Handles, NEW i, fil' = [fil EXCEPT ![h] = NewFil(i, TRUE, TRUE, 0, 0)]
      PROVE  Flushed'
  <2>1. PICK g : g = NewFil(i, TRUE, TRUE, 0, 0)
    OBVIOUS
  <2>2. fil' = [fil EXCEPT ![h] = g] /\ g.open /\ g.written
    BY <1>6, <2>1, CreatedFilFields
  <2>3. QED
    BY <1>0, <1>3, <2>2, OwedNow
<1>7. ASSUME NEW h \in Handles, NEW n \in Names, OpenTruncate(h, n)
      PROVE  Flushed'
  <2>1. PICK i \in Found(n) :
          IF dir[i].sclust = 0
          THEN Finish /\ fil' = [fil EXCEPT ![h] = NewFil(i, TRUE, TRUE, 0, 0)]
          ELSE /\ CallRemoveChain(i, dir[i].sclust, TRUE, h, "open_back")
               /\ UNCHANGED fil
    BY <1>7 DEF OpenTruncate
  <2>2. CASE dir[i].sclust = 0
    BY <1>6, <2>1, <2>2
  <2>3. CASE dir[i].sclust # 0
    <3>1. pc' = "remove"
      BY <2>1, <2>3 DEF CallRemoveChain
    <3>2. QED
      BY <3>1 DEF Flushed, Due
  <2>4. QED
    BY <2>2, <2>3
<1>8. ASSUME NEW h \in Handles, NEW n \in Names, NEW mode \in Modes,
             OpenCreate(h, n, mode)
      PROVE  Flushed'
  BY <1>6, <1>8 DEF OpenCreate
<1>9. CASE OpenBack
  <2>1. PICK h, i : h = op.h /\ i = op.slot
    OBVIOUS
  <2>2. h \in Handles /\ fil' = [fil EXCEPT ![h] = NewFil(i, TRUE, TRUE, 0, 0)]
    BY <1>0, <1>9, <2>1 DEF OpenBack, Locals, Opening
  <2>3. QED
    BY <1>6, <2>2
<1>10. QED
  BY <1>0, <1>2, <1>4, <1>5, <1>7, <1>8, <1>9
  DEF OpenStep, Stat, LookUpFails, OpenRefused, Ready

LEMMA WriteGotFlushed ==
    ASSUME Calm, CleanInv, WriteGot
    PROVE  Flushed'
<1>0. /\ op \in Op /\ fil \in [Handles -> Fil] /\ op.h \in Handles
      /\ fil[op.h] \in Fil /\ fil[op.h].open /\ op.res # "error" /\ "io" \notin Faults
  BY FlushTypes
  DEF Calm, CleanInv, SyncInv, Flushed, WriteGot, Locals, Pending, RunHeads, Growing
<1>1. pc' = "idle"
  BY DEF WriteGot, Finish
<1>2. PICK f, p : /\ f = fil[op.h]
                  /\ p = [f EXCEPT !.clust = op.ncl,
                                   !.sclust = IF @ = 0 THEN op.ncl ELSE @]
  OBVIOUS
<1>3. PICK g :
        /\ fil' = [fil EXCEPT ![op.h] = g]
        /\ \/ g = [p EXCEPT !.fptr = @ + 1,
                            !.fsize = IF f.fptr < @ THEN @ ELSE f.fptr + 1,
                            !.written = TRUE]
           \/ g = [f EXCEPT !.written = TRUE]
  BY <1>0, <1>2 DEF WriteGot
<1>4. p.open = f.open /\ DOMAIN p = DOMAIN f
  BY <1>0, <1>2 DEF Fil
<1>5. g.open /\ g.written
  <2>1. CASE g = [f EXCEPT !.written = TRUE]
    BY <1>0, <1>2, <2>1 DEF Fil
  <2>2. CASE g = [p EXCEPT !.fptr = @ + 1,
                           !.fsize = IF f.fptr < @ THEN @ ELSE f.fptr + 1,
                           !.written = TRUE]
    BY <1>0, <1>2, <1>4, <2>2 DEF Fil
  <2>3. QED
    BY <1>3, <2>1, <2>2
<1>6. Owed'
  BY <1>0, <1>3, <1>5, OwedNow
<1>7. QED
  BY <1>1, <1>6 DEF Flushed, Due

(* A FIL that has arrived at or behind its end is marked.                  *)
LEMMA ArrivedOwed ==
    ASSUME fil \in [Handles -> Fil], NEW h \in Handles, fil[h].open,
           fil' = [fil EXCEPT ![h] = Arrived(@)]
    PROVE  Owed \/ fil[h].fptr >= fil[h].fsize => Owed'
<1>1. PICK g : g = Arrived(fil[h])
  OBVIOUS
<1>2. fil' = [fil EXCEPT ![h] = g] /\ fil[h] \in Fil
  BY <1>1
<1>3. g.open = fil[h].open
  BY <1>1, <1>2 DEF Arrived, Fil
<1>4. g.written = (fil[h].written \/ fil[h].fptr >= fil[h].fsize)
  BY <1>1, <1>2 DEF Arrived, Fil
<1>5. CASE fil[h].fptr >= fil[h].fsize
  BY <1>2, <1>3, <1>4, <1>5, OwedNow
<1>6. CASE Owed
  BY <1>2, <1>3, <1>4, <1>6, OwedKept
<1>7. QED
  BY <1>5, <1>6

(* A FIL goes on by a cluster.                                             *)
LEMMA OneFurtherAtEnd ==
    ASSUME fil \in [Handles -> Fil], NEW h \in Handles, NEW c,
           fil' = [fil EXCEPT ![h] = OneFurther(@, c)], pc' = "seek", op'.h = h,
           fil[h].fptr + 1 >= fil[h].fsize
    PROVE  AtEnd'
<1>1. fil[h] \in Fil /\ fil'[h] = OneFurther(fil[h], c)
  OBVIOUS
<1>2. fil'[h].fptr = fil[h].fptr + 1 /\ fil'[h].fsize = fil[h].fsize
  BY <1>1 DEF OneFurther, Fil
<1>3. QED
  BY <1>2 DEF AtEnd, Seeking

LEMMA WriteStepClean ==
    ASSUME Calm, CleanInv, WriteStep, [Next]_vars
    PROVE  Counted' /\ Flushed'
<1>0. /\ ChainsInv /\ Counted /\ Flushed /\ Locals /\ Filing /\ VolumeInv /\ RunHeads
      /\ fil \in [Handles -> Fil] /\ \A S : ~VisitFails(S) /\ op \in Op
      /\ \A h \in Handles : /\ fil[h] \in Fil /\ fil[h].fptr \in Nat
                            /\ fil[h].fsize \in Nat
      /\ mounted /\ mounted'
      /\ UNCHANGED <<dir, fat, free_clust, fsi_flag, dfsi>>
      /\ pc \in {"idle", "write_got", "seek_first", "seek", "seek_got"}
  <2>1. ChainsInv /\ Counted /\ Flushed /\ Filing /\ Sure
    BY CalmSure DEF CleanInv, SyncInv, Filed
  <2>2. mounted /\ mounted'
    BY <2>1, StepsMounted
  <2>3. QED
    BY <2>1, <2>2, NothingFails, FlushTypes, WriteShape
<1>1. pc' \in {"idle", "write_got", "create", "seek"}
  BY DEF WriteStep, WriteStart, WriteGot, SeekStart, SeekFirst, SeekOn, SeekGot,
         CallCreateChain, Finish
<1>2. Counted'
  BY <1>0, <1>1, QuietCounted
<1> SUFFICES Flushed'
  BY <1>2
<1>3. Owed => Owed'
  <2>1. CASE UNCHANGED fil
    BY <2>1 DEF Owed
  <2>2. CASE \E h \in Handles : \E g :
                /\ fil' = [fil EXCEPT ![h] = g]
                /\ g.open = fil[h].open /\ g.slot = fil[h].slot
                /\ fil[h].written => g.written
    BY <1>0, <2>2, OwedKept
  <2>3. QED
    BY <1>0, <2>1, <2>2, WriteShape
<1>4. Lag' => Lag
  BY <1>0, LagKept
<1> DEFINE Got == pc' \in {"write_got", "seek_first", "seek_got"}
<1>5. Owed' \/ AtEnd' => Due'
  BY DEF Due
<1>6. ASSUME Due => Due', ~Got PROVE Flushed'
  BY <1>0, <1>4, <1>6 DEF Flushed
<1>7. ASSUME NEW h \in Handles, WriteStart(h) PROVE Flushed'
  <2>1. \/ pc' = "write_got" /\ op' = [NoOp EXCEPT !.h = h, !.ncl = fil[h].sclust]
        \/ \E c : CallCreateChain(h, c, 0, "write_got")
    BY <1>7 DEF WriteStart
  <2>2. CASE pc' = "write_got" /\ op' = [NoOp EXCEPT !.h = h, !.ncl = fil[h].sclust]
    <3>1. op'.res = "ok"
      BY <2>2 DEF NoOp
    <3>2. QED
      BY <2>2, <3>1 DEF Flushed, Due
  <2>3. ASSUME NEW c, CallCreateChain(h, c, 0, "write_got") PROVE Flushed'
    <3>1. pc' = "create" /\ op'.ret = "write_got"
      BY <2>3 DEF CallCreateChain, NoOp
    <3>2. QED
      BY <3>1 DEF Flushed, Due
  <2>4. QED
    BY <2>1, <2>2, <2>3
<1>8. CASE WriteGot
  BY <1>8, WriteGotFlushed
<1>9. ASSUME NEW h \in Handles, NEW to \in 0 .. MaxSize, SeekStart(h, to)
      PROVE  Flushed'
  <2>1. pc = "idle" /\ pc' \in {"idle", "seek", "create"}
    BY <1>9 DEF SeekStart, Ready, CallCreateChain, Finish
  <2>2. QED
    BY <1>0, <1>3, <2>1, LookFlushed
<1>10. CASE SeekFirst
  <2> DEFINE h == op.h
  <2>1. /\ pc = "seek_first" /\ h \in Handles /\ op.res # "error" /\ fil[h].open
        /\ fil[h].fptr = 0 /\ fil[h].sclust = 0
    BY <1>0, <1>10 DEF SeekFirst, Flushed, Locals, Pending, RunHeads, Growing
  <2>2. CASE op.res = "ok"
    <3>1. fil' = [fil EXCEPT ![h] = [@ EXCEPT !.sclust = op.ncl, !.clust = op.ncl]]
          /\ pc' = "seek" /\ op' = [NoOp EXCEPT !.h = h, !.ofs = op.ofs]
      BY <1>10, <2>2 DEF SeekFirst
    <3>2. fil'[h].fptr = 0 /\ fil'[h].fsize = fil[h].fsize
      BY <1>0, <2>1, <3>1 DEF Fil
    <3>3. op'.h = h
      BY <3>1 DEF NoOp
    <3>4. fil[h].fsize = 0
      <4>1. Heads(fat, Pruned, fil)
        BY <1>0, FlushTypes DEF Owners
      <4>2. QED
        BY <2>1, <4>1 DEF Heads, Agrees
    <3>5. AtEnd'
      BY <3>1, <3>2, <3>3, <3>4 DEF AtEnd, Seeking
    <3>6. QED
      BY <1>5, <1>6, <3>1, <3>5
  <2>3. CASE op.res # "ok"
    <3>1. pc' = "idle"
      BY <1>10, <2>3 DEF SeekFirst, Finish
    <3>2. Due => Owed
      BY <2>1, <2>3 DEF Due, AtEnd, NextAtEnd, Seeking
    <3>3. QED
      BY <1>3, <1>5, <1>6, <3>1, <3>2
  <2>4. QED
    BY <2>2, <2>3
<1>11. CASE SeekOn
  <2> DEFINE h == op.h
  <2>1. pc = "seek" /\ h \in Handles /\ fil[h].open
    BY <1>0, <1>11 DEF SeekOn, Locals, RunHeads
  <2>2. op.ofs \in Nat
    BY <1>0, VolumeAssumption DEF Op, VolumeAssumption
  <2>3. Due => Owed \/ fil[h].fptr >= fil[h].fsize
    BY <2>1 DEF Due, AtEnd, NextAtEnd
  <2>4. CASE op.ofs <= 1
    <3>1. fil' = [fil EXCEPT ![h] = Arrived(@)] /\ pc' = "idle"
      <4>1. ~(op.ofs > 1)
        BY <2>4, <2>2
      <4>2. QED
        BY <1>11, <4>1 DEF SeekOn, Finish
    <3>2. Owed \/ fil[h].fptr >= fil[h].fsize => Owed'
      BY <1>0, <2>1, <3>1, ArrivedOwed
    <3>3. QED
      BY <1>5, <1>6, <2>3, <3>1, <3>2
  <2>5. CASE op.ofs > 1 /\ fil[h].write
    <3>1. CallCreateChain(h, fil[h].clust, op.ofs, "seek_got") /\ UNCHANGED fil
      BY <1>0, <1>11, <2>1, <2>5, <2>2 DEF SeekOn
    <3>2. pc' = "create" /\ op'.h = h /\ op'.ret = "seek_got"
      BY <3>1 DEF CallCreateChain, NoOp
    <3>3. AtEnd => AtEnd'
      BY <3>1, <3>2 DEF AtEnd, Seeking
    <3>4. Due => Owed \/ AtEnd
      BY <2>1 DEF Due, NextAtEnd
    <3>5. QED
      BY <1>3, <1>5, <1>6, <3>2, <3>3, <3>4
  <2>6. CASE op.ofs > 1 /\ ~fil[h].write
    <3>2. fil[h].fptr + op.ofs <= fil[h].fsize
      BY <1>0, <2>1, <2>6 DEF Filing
    <3>3. ~(fil[h].fptr >= fil[h].fsize)
      BY <1>0, <2>1, <2>6, <2>2, <3>2
    <3>4. pc' \in {"idle", "seek"}
      BY <1>0, <1>11, <2>1, <2>6, <2>2 DEF SeekOn, Finish
    <3>5. QED
      BY <1>3, <1>5, <1>6, <2>3, <3>3, <3>4
  <2>7. QED
    BY <2>4, <2>5, <2>6, <2>2
<1>12. CASE SeekGot
  <2> DEFINE h == op.h
  <2>1. pc = "seek_got" /\ h \in Handles /\ fil[h].open /\ op.res # "error"
    BY <1>0, <1>12 DEF SeekGot, Locals, Pending, RunHeads, Growing, Flushed
  <2>2. CASE op.res = "ok"
    <3>1. /\ fil' = [fil EXCEPT ![h] = OneFurther(@, op.ncl)]
          /\ pc' = "seek" /\ op' = [NoOp EXCEPT !.h = h, !.ofs = op.ofs - 1]
      BY <1>12, <2>2 DEF SeekGot
    <3>2. op'.h = h
      BY <3>1 DEF NoOp
    <3>3. Due => Owed \/ fil[h].fptr + 1 >= fil[h].fsize
      BY <1>0, <2>1 DEF Due, AtEnd, NextAtEnd
    <3>4. fil[h].fptr + 1 >= fil[h].fsize => AtEnd'
      BY <1>0, <2>1, <3>1, <3>2, OneFurtherAtEnd
    <3>5. QED
      BY <1>3, <1>5, <1>6, <3>1, <3>3, <3>4
  <2>3. CASE op.res = "full"
    <3>1. fil' = [fil EXCEPT ![h] = Arrived(@)] /\ pc' = "idle"
      BY <1>12, <2>3 DEF SeekGot, Finish
    <3>2. Due => Owed \/ fil[h].fptr >= fil[h].fsize
      BY <2>1, <2>3 DEF Due, AtEnd, NextAtEnd
    <3>3. Owed \/ fil[h].fptr >= fil[h].fsize => Owed'
      BY <1>0, <2>1, <3>1, ArrivedOwed
    <3>4. QED
      BY <1>5, <1>6, <3>1, <3>2, <3>3
  <2>4. QED
    BY <1>12, <2>1, <2>2, <2>3 DEF SeekGot
<1>13. QED
  BY <1>2, <1>7, <1>8, <1>9, <1>10, <1>11, <1>12 DEF WriteStep

LEMMA SyncStepClean ==
    ASSUME Calm, CleanInv, SyncStep, [Next]_vars
    PROVE  Counted' /\ Flushed'
<1>0. /\ ChainsInv /\ Counted /\ Flushed /\ FilesFit /\ Locals /\ VolumeInv
      /\ fil \in [Handles -> Fil] /\ \A S : ~VisitFails(S)
      /\ \A h \in Handles : fil[h] \in Fil
      /\ mounted /\ mounted' /\ CountKnown
      /\ StoreType /\ WindowCoherent
  <2>1. ChainsInv /\ Counted /\ Flushed /\ FilesFit /\ Sure
    BY CalmSure DEF CleanInv, SyncInv, Filed
  <2>2. mounted /\ mounted'
    BY <2>1, StepsMounted
  <2>3. StoreType /\ WindowCoherent
    BY <2>1, FlushTypes DEF VolumeInv, TypeOK, StoreType
  <2>4. QED
    BY <2>1, <2>2, <2>3, NothingFails, FlushTypes DEF Counted
<1>1. ASSUME UNCHANGED <<fat, counters, dfsi>>, pc # "link", pc' # "link"
      PROVE  Counted'
  BY <1>0, <1>1, QuietCounted DEF counters
<1>2. ASSUME dfat' = fat, ddir' = dir, UNCHANGED <<fat, dir>>,
             ~(FsInfo /\ fsi_flag'), pc' = "idle"
      PROVE  Flushed'
  BY <1>2 DEF Flushed, Lag, medium
<1>3. ASSUME NEW h \in Handles, NEW closing \in BOOLEAN, SyncClean(h, closing)
      PROVE  Counted' /\ Flushed'
  <2>1. PICK g : g = [fil[h] EXCEPT !.closing = @ \/ closing]
    OBVIOUS
  <2>2. /\ fil' = [fil EXCEPT ![h] = g] /\ pc = "idle"
        /\ UNCHANGED <<fat, dir, counters, dfsi, pc>>
    BY <1>3, <2>1 DEF SyncClean, Ready, store
  <2>3. g.open = fil[h].open /\ g.written = fil[h].written
    BY <1>0, <2>1 DEF Fil
  <2>4. Owed => Owed'
    BY <1>0, <2>2, <2>3, OwedKept
  <2>5. QED
    BY <1>0, <1>1, <2>2, <2>4, LookFlushed DEF counters
<1>4. ASSUME NEW h \in Handles, NEW closing \in BOOLEAN, SyncStart(h, closing)
      PROVE  Counted' /\ Flushed'
  <2>1. pc = "idle" /\ pc' = "sync" /\ UNCHANGED <<fat, counters, dfsi>>
    BY <1>0, <1>4 DEF SyncStart, Ready
  <2>2. QED
    BY <1>1, <2>1 DEF Flushed, Due
<1>5. ASSUME NEW h \in Handles, Close(h) PROVE Counted' /\ Flushed'
  <2>1. /\ fil' = [fil EXCEPT ![h] = ClosedFil] /\ pc = "idle" /\ fil[h].closing
        /\ UNCHANGED <<fat, dir, counters, dfsi, pc>>
    BY <1>5 DEF Close, Ready, store
  <2>2. ~fil[h].written
    BY <1>0, <2>1 DEF FilesFit, FitsEntry
  <2>3. PICK g : g = ClosedFil
    OBVIOUS
  <2>4. Owed => Owed'
    BY <1>0, <2>1, <2>2, <2>3, OwedKept
  <2>5. QED
    BY <1>0, <1>1, <2>1, <2>4, LookFlushed DEF counters
<1>6. CASE SyncWindow
  <2>1. /\ pc = "sync" /\ dfat' = fat /\ ddir' = dir
        /\ UNCHANGED <<fat, dir, counters, dfsi>>
    BY <1>0, <1>6, WriteBackCompletes DEF SyncWindow
  <2>2. CASE FsInfo /\ fsi_flag
    <3>1. pc' = "fsinfo"
      BY <1>6, <2>2 DEF SyncWindow, Goto
    <3>2. QED
      BY <1>1, <2>1, <3>1 DEF Flushed, Due
  <2>3. CASE ~(FsInfo /\ fsi_flag)
    <3>1. pc' = "idle"
      BY <1>6, <2>3 DEF SyncWindow, SyncReturns, Finish
    <3>2. QED
      BY <1>1, <1>2, <2>1, <2>3, <3>1 DEF counters
  <2>4. QED
    BY <2>2, <2>3
<1>7. CASE SyncFails
  BY <1>7 DEF Calm, SyncFails
<1>8. CASE SyncFsInfo
  <2>1. /\ pc = "fsinfo" /\ UNCHANGED <<fat, dir, medium, free_clust>>
        /\ fsi_flag' = FALSE /\ pc' = "idle" /\ ~wflag
        /\ dfsi' = [free |-> free_clust, next |-> last_clust]
    BY <1>0, <1>8 DEF SyncFsInfo, SyncReturns, Finish, Locals, Calm
  <2>2. /\ \A c \in Clusters : dfat[c] = fat[c]
        /\ \A i \in Slots : ddir[i] = dir[i]
    BY <1>0, <2>1 DEF WindowCoherent
  <2>3. dfat' = fat /\ ddir' = dir
    BY <1>0, <2>1, <2>2 DEF StoreType, medium
  <2>4. Flushed'
    BY <1>2, <2>1, <2>3
  <2>5. dfsi'.free = free_clust'
    BY <2>1
  <2>6. Uncounted = 0 /\ Uncounted' = 0 /\ Count(fat)' = Count(fat)
    BY <2>1 DEF Uncounted, Count, Free
  <2>7. CountKnown'
    BY <1>0, <2>1, <2>5, <2>6 DEF CountKnown
  <2>8. QED
    BY <1>0, <2>4, <2>7 DEF Counted
<1>9. QED
  BY <1>3, <1>4, <1>5, <1>6, <1>7, <1>8 DEF SyncStep

LEMMA NameStepClean ==
    ASSUME Calm, CleanInv, NameStep, [Next]_vars
    PROVE  Counted' /\ Flushed'
<1>0. /\ ChainsInv /\ Counted /\ Flushed /\ mounted /\ mounted' /\ CountKnown
      /\ \A S : ~VisitFails(S) /\ ~WriteBackFails(S) /\ ~LoadFails(S)
      /\ dfsi' = dfsi
  <2>1. ChainsInv /\ Counted /\ Flushed /\ Sure
    BY CalmSure DEF CleanInv, SyncInv
  <2>2. mounted /\ mounted'
    BY <2>1, StepsMounted
  <2>3. QED
    BY <2>1, <2>2, NothingFails DEF Counted, NameStep
<1>1. ASSUME UNCHANGED <<fat, counters>>, pc # "link",
             pc' \in {"sync", "remove", "rename_remove"}
      PROVE  Counted' /\ Flushed'
  <2>1. Counted'
    BY <1>0, <1>1, QuietCounted DEF counters
  <2>2. Flushed'
    BY <1>1 DEF Flushed, Due
  <2>3. QED
    BY <2>1, <2>2
<1>2. ASSUME NEW n, LookUp(n), pc = "idle" PROVE Counted' /\ Flushed'
  <2>1. UNCHANGED <<fat, dir, counters, fil>> /\ pc' = "idle"
    BY <1>2 DEF LookUp, Finish
  <2>2. Counted'
    BY <1>0, <1>2, <2>1, QuietCounted DEF counters
  <2>3. Flushed'
    BY <1>0, <1>2, <2>1, LookFlushed DEF Owed, counters
  <2>4. QED
    BY <2>2, <2>3
<1>3. ASSUME NEW n \in Names, Unlink(n) PROVE Counted' /\ Flushed'
  BY <1>1, <1>3 DEF Unlink, CallRemoveChain, Ready
<1>4. ASSUME NEW from \in Names, NEW to \in Names, Rename(from, to)
      PROVE  Counted' /\ Flushed'
  BY <1>1, <1>4 DEF Rename, Ready
<1>5. CASE RenameRemove
  BY <1>0, <1>1, <1>5 DEF RenameRemove
<1>6. CASE GetFree
  <2>1. /\ pc = "idle" /\ pc' = "idle" /\ UNCHANGED <<fat, dir, fil>>
        /\ free_clust \notin 0 .. n_fatent - 2
        /\ free_clust' = FreeBelow(FatSize)
    BY <1>6 DEF GetFree, Ready, Finish
  <2>2. Uncounted = 0 /\ Uncounted' = 0 /\ Count(fat)' = Count(fat)
    BY <2>1 DEF Uncounted, Count, Free
  <2>3. Count(fat) \in Nat /\ Count(fat) <= n_fatent - 2
    BY FreeFinite
  <2>4. ~FsInfo
    <3>1. ASSUME FsInfo PROVE FALSE
      <4>1. free_clust = Count(fat)
        BY <1>0, <2>2, <2>3, <3>1 DEF CountKnown
      <4>2. free_clust \in 0 .. n_fatent - 2
        BY <2>3, <4>1, VolumeAssumption DEF VolumeAssumption
      <4>3. QED
        BY <2>1, <4>2
    <3>2. QED
      BY <3>1
  <2>5. free_clust' = Count(fat)
    <3>1. {c \in Clusters : FatSector(c) < FatSize /\ fat[c] = 0} = Free(fat)
      BY FatSectors DEF Free
    <3>2. QED
      BY <2>1, <3>1 DEF FreeBelow, Count
  <2>6. Counted'
    BY <1>0, <2>2, <2>3, <2>4, <2>5 DEF Counted, CountKnown
  <2>7. Lag => Owed
    BY <1>0, <2>1, DueAtStart
  <2>8. Lag' => Lag
    BY <1>0, <2>1, <2>4, LagKept
  <2>9. Flushed'
    BY <2>1, <2>7, <2>8 DEF Flushed, Due, Owed
  <2>10. QED
    BY <2>6, <2>9
<1>7. CASE GetFreeFails
  BY <1>0, <1>7 DEF GetFreeFails
<1>8. QED
  BY <1>2, <1>3, <1>4, <1>5, <1>6, <1>7
  DEF NameStep, UnlinkRefused, RenameRefused, Ready

-----------------------------------------------------------------------------
(* Mounting and unmounting.                                                *)

LEMMA MountClean ==
    ASSUME CleanInv, Mount
    PROVE  Counted' /\ Flushed'
<1>0. /\ pc = "idle" /\ pc' = "idle" /\ mounted' /\ fsi_flag' = FALSE
      /\ UNCHANGED <<fat, dir, dfat, ddir, dfsi>>
      /\ free_clust' = IF FsInfo THEN dfsi.free ELSE Unknown
      /\ PutAway
  BY DEF CleanInv, Counted, Mount, store
<1>1. Count(fat) \in Nat /\ Count(fat)' = Count(fat) /\ Uncounted' = 0
  BY <1>0, FreeFinite DEF Uncounted, Count, Free
<1>2. CASE FsInfo
  <2>1. free_clust' = Count(fat) /\ free_clust' # Unknown /\ dfsi'.free = free_clust'
    BY <1>0, <1>1, <1>2 DEF PutAway, Unknown
  <2>2. CountKnown'
    BY <1>1, <2>1 DEF CountKnown
  <2>3. QED
    BY <1>0, <2>2 DEF Counted, PutAway, Flushed, Lag, medium
<1>3. CASE ~FsInfo
  BY <1>0, <1>3 DEF Counted, CountKnown, PutAway, Flushed, Lag, medium
<1>4. QED
  BY <1>2, <1>3

(* Nothing is to be flushed when no file is open, so nothing is lost.      *)
LEMMA UnmountClean ==
    ASSUME CleanInv, Unmount
    PROVE  Counted' /\ Flushed'
<1>0. /\ pc = "idle" /\ mounted /\ \A h \in Handles : ~fil[h].open
      /\ CountKnown /\ Flushed
      /\ ~mounted' /\ fat' = dfat /\ dir' = ddir /\ pc' = "idle"
      /\ fil' = [h \in Handles |-> ClosedFil]
      /\ UNCHANGED <<dfat, ddir, dfsi, fsi_flag>>
  BY DEF CleanInv, Counted, Unmount, Dismount, Finish, counters
<1>1. ~Lag
  BY <1>0, DueAtStart DEF Owed
<1>2. dfat = fat /\ ddir = dir /\ ~(FsInfo /\ fsi_flag)
  BY <1>1 DEF Lag, medium
<1>3. Flushed'
  BY <1>0, <1>2 DEF Flushed, Lag, medium
<1>4. FsInfo => dfsi.free = Count(fat)
  <2>1. Uncounted = 0 /\ Count(fat) \in Nat
    BY <1>0, FreeFinite DEF Uncounted
  <2>2. QED
    BY <1>0, <1>2, <2>1 DEF CountKnown
<1>5. Count(fat)' = Count(fat)
  BY <1>0, <1>2 DEF Count, Free
<1>6. \A h \in Handles : ~fil'[h].open
  BY <1>0 DEF ClosedFil
<1>7. QED
  BY <1>0, <1>2, <1>3, <1>4, <1>5, <1>6 DEF Counted, PutAway

LEMMA CleanStep == Calm /\ CleanInv /\ [Next]_vars => CleanInv'
<1> SUFFICES ASSUME Calm, CleanInv, [Next]_vars PROVE CleanInv'
  OBVIOUS
<1>0. SyncInv /\ Counted /\ Flushed
  BY DEF CleanInv
<1>1. SyncInv'
  BY <1>0, CalmSure, SyncInvStep
<1>2. Counted' /\ Flushed'
  <2>1. CASE UNCHANGED vars
    <3>1. Counted'
      BY <1>0, <2>1 DEF vars, Counted, CountKnown, PutAway, Uncounted, Count, Free
    <3>2. Flushed'
      BY <1>0, <2>1 DEF vars, Flushed, Lag, Due, Owed, AtEnd, NextAtEnd, Seeking, medium
    <3>3. QED
      BY <3>1, <3>2
  <2>2. CASE ChainStep
    BY <1>0, <2>2, ChainStepCounted, ChainStepFlushed
  <2>3. CASE PowerLoss
    BY <2>3 DEF PowerLoss, Calm
  <2>4. QED
    BY <2>1, <2>2, <2>3, OpenStepClean, WriteStepClean, SyncStepClean,
       NameStepClean, MountClean, UnmountClean
    DEF Next
<1>3. QED
  BY <1>1, <1>2 DEF CleanInv

LEMMA CleanInitially == Init => CleanInv
<1> SUFFICES ASSUME Init PROVE CleanInv
  OBVIOUS
<1>1. /\ fat = [c \in Clusters |-> IF c \in Root THEN EOC ELSE 0]
      /\ dfat = fat /\ ddir = dir
      /\ dfsi = [free |-> n_fatent - 3, next |-> 2] /\ ~mounted /\ fsi_flag = FALSE
      /\ fil = [h \in Handles |-> ClosedFil] /\ pc = "idle"
  BY DEF Init
<1>2. FsInfo => dfsi.free = Count(fat)
  <2>1. ASSUME FsInfo PROVE Count(fat) = n_fatent - 3
    <3>1. 2 \in Clusters /\ Root = {2}
      BY <2>1, VolumeAssumption DEF Root, Clusters, VolumeAssumption
    <3>2. Free(fat) = Clusters \ {2}
      BY <1>1, <3>1, ClusterNumbers DEF Free
    <3>3. IsFiniteSet(Clusters) /\ Cardinality(Clusters) = n_fatent - 2
      BY FS_Interval, VolumeAssumption DEF Clusters, VolumeAssumption
    <3>4. Cardinality(Clusters \ {2}) = Cardinality(Clusters) - 1
      BY <3>1, <3>3, FS_RemoveElement
    <3>5. QED
      BY <3>2, <3>3, <3>4, VolumeAssumption DEF Count, VolumeAssumption
  <2>2. QED
    BY <1>1, <2>1
<1>3. Counted
  BY <1>1, <1>2 DEF Counted, PutAway, ClosedFil
<1>4. Flushed
  BY <1>1 DEF Flushed, Lag, medium
<1>5. QED
  BY <1>3, <1>4, SyncInitially DEF CleanInv

(* Where nothing fails, every reachable state satisfies the third          *)
(* inductive invariant: the counters count, and whatever the medium lacks  *)
(* somebody is going to flush.                                             *)
THEOREM CleanInvariant == Calm => (Spec => []CleanInv)
<1> SUFFICES ASSUME Calm PROVE Spec => []CleanInv
  OBVIOUS
<1>1. CleanInv /\ [Next]_vars => CleanInv'
  BY CleanStep
<1>2. QED
  BY <1>1, CleanInitially, PTL DEF Spec

(* Between two functions the free count is the number of free clusters, or *)
(* known to be unknown: create_chain counts what it links and remove_chain *)
(* what it frees, once each.                                               *)
THEOREM FreeCountStaysExact == Calm => (Spec => []FreeCountExact)
<1> SUFFICES ASSUME Calm PROVE Spec => []FreeCountExact
  OBVIOUS
<1>1. CleanInv => FreeCountExact
  <2>1. Count(fat) \in Nat
    BY FreeFinite
  <2>2. QED
    BY <2>1
    DEF CleanInv, Counted, CountKnown, Uncounted, Count, Free, FreeCountExact
<1>2. QED
  BY <1>1, CleanInvariant, PTL

(* When no file is open the medium holds all there is and FSINFO its free  *)
(* count: an unmount, which flushes nothing, loses nothing.                *)
THEOREM CleanAtUnmount == Calm => (Spec => []CleanWhenClosed)
<1> SUFFICES ASSUME Calm PROVE Spec => []CleanWhenClosed
  OBVIOUS
<1>1. ASSUME CleanInv PROVE CleanWhenClosed
  <2>1. SUFFICES ASSUME pc = "idle", \A h \in Handles : ~fil[h].open
                 PROVE  /\ dfat = fat /\ ddir = dir
                        /\ FsInfo => dfsi.free = Count(dfat)
    BY DEF CleanWhenClosed, Count, Free
  <2>2. Counted /\ Flushed
    BY <1>1 DEF CleanInv
  <2>3. CASE mounted
    <3>1. ~Lag
      BY <2>1, <2>2, DueAtStart DEF Owed
    <3>2. dfat = fat /\ ddir = dir /\ ~(FsInfo /\ fsi_flag)
      BY <3>1 DEF Lag, medium
    <3>3. Uncounted = 0 /\ Count(fat) \in Nat
      BY <2>1, FreeFinite DEF Uncounted
    <3>4. QED
      BY <2>2, <2>3, <3>2, <3>3 DEF Counted, CountKnown
  <2>4. CASE ~mounted
    BY <2>2, <2>4 DEF Counted, PutAway
  <2>5. QED
    BY <2>3, <2>4
<1>2. QED
  BY <1>1, CleanInvariant, PTL

-----------------------------------------------------------------------------
(* The fourth invariant, where nothing fails: no cluster is lost.  That    *)
(* every allocated cluster is on a chain that somebody knows the start of  *)
(* is said without walks: it is in every set that holds the known starts   *)
(* and follows the links.                                                  *)

(* The running function has the only start of a chain.                     *)
NewStart ==
    \/ pc = "link"
    \/ pc \in {"write_got", "seek_first"} /\ op.res = "ok" /\ fil[op.h].sclust = 0

Starts(X) ==
    /\ Root \subseteq X
    /\ \A i \in Slots : dir[i].sclust \in X \cup {0}
    /\ \A h \in Handles : fil[h].sclust \in X \cup {0}
    /\ NewStart => op.ncl \in X
    /\ pc = "remove" => op.cl \in X

Follows(F, X) == \A c \in X : F[c] \in Clusters => F[c] \in X

Held ==
    \A X \in SUBSET Clusters :
        Starts(X) /\ Follows(fat, X) => \A c \in Clusters : fat[c] # 0 => c \in X

(* A start that its entry does not have yet will be written into it.       *)
Kept(D, h) == Unsaved(D, fil[h]) => fil[h].written \/ (h = op.h /\ AtEnd)

(* Free entries have no chain, the directory one cluster, a new cluster is *)
(* the last of its chain, and f_rename has put the start into the new      *)
(* entry.                                                                  *)
Placed ==
    /\ \A c \in Root : fat[c] = EOC
    /\ \A i \in Slots : ~Live(dir, i) => dir[i].sclust = 0
    /\ pc = "link" => fat[op.ncl] = EOC
    /\ pc = "rename_remove" =>
          \E j \in Slots : j # op.slot /\ dir[j].sclust = dir[op.slot].sclust

Keeping == /\ Held
           /\ \A h \in Handles : Kept(dir, h)
           /\ Placed

KeptInv == CleanInv /\ Keeping

-----------------------------------------------------------------------------
(* What the steps have in common.                                          *)

LEMMA KeptTypes ==
    ASSUME Calm, KeptInv
    PROVE  /\ CleanInv /\ SyncInv /\ Counted /\ Flushed /\ FilesFit /\ Filing
           /\ ChainsInv /\ VolumeInv /\ Owners /\ RunHeads /\ Locals
           /\ fil \in [Handles -> Fil] /\ op \in Op
           /\ fat \in [Clusters -> {0} \cup Clusters \cup {EOC}]
           /\ dir \in [Slots -> Entry]
           /\ \A i \in Slots : dir[i].sclust \in {0} \cup Clusters
           /\ \A h \in Handles : /\ fil[h] \in Fil
                                 /\ fil[h].sclust \in {0} \cup Clusters
           /\ Exclusive /\ "io" \notin Faults /\ \A S : ~VisitFails(S)
<1>1. CleanInv /\ SyncInv /\ Counted /\ Flushed /\ FilesFit /\ Filing /\ ChainsInv
  BY DEF KeptInv, CleanInv, SyncInv, Filed
<1>2. fat \in [Clusters -> {0} \cup Clusters \cup {EOC}]
  BY <1>1, FlushTypes DEF VolumeInv, TypeOK
<1>3. Exclusive /\ "io" \notin Faults /\ \A S : ~VisitFails(S)
  BY CalmSure, NothingFails DEF Calm
<1>4. \A i \in Slots : dir[i].sclust \in {0} \cup Clusters
  BY <1>1, ChainsTypes
<1>5. QED
  BY <1>1, <1>2, <1>3, <1>4, FlushTypes

(* The links stay, and every start is still known.                         *)
LEMMA HeldOn ==
    ASSUME Held, fat' = fat, \A X \in SUBSET Clusters : Starts(X)' => Starts(X)
    PROVE  Held'
BY DEF Held, Follows

(* A FIL that is not open has no chain.                                    *)
LEMMA ClosedNoChain ==
    ASSUME FilesFit, NEW h \in Handles, ~fil[h].open
    PROVE  fil[h].sclust = 0
BY DEF FilesFit, FitsEntry, ClosedFil

(* Nothing changes and no function runs, or one that has not yet begun to. *)
LEMMA QuietKeeping ==
    ASSUME Keeping, UNCHANGED <<fat, dir, fil>>, ~NewStart, pc # "remove", ~AtEnd,
           pc' \notin {"link", "rename_remove"}
    PROVE  Keeping'
<1>1. Held'
  BY HeldOn DEF Keeping, Starts
<1>2. \A h \in Handles : Kept(dir, h)'
  BY DEF Keeping, Kept, Unsaved
<1>3. Placed'
  BY DEF Keeping, Placed, Live
<1>4. QED
  BY <1>1, <1>2, <1>3 DEF Keeping

LEMMA IdleIsQuiet == pc \in {"idle", "open_back", "sync", "fsinfo"}
                        => ~NewStart /\ pc # "remove" /\ ~AtEnd
BY DEF NewStart, AtEnd, Seeking

(* FIL h becomes g; its start stays known.                                 *)
LEMMA FilKeeping ==
    ASSUME Keeping, UNCHANGED <<fat, dir>>, fil \in [Handles -> Fil],
           NEW h \in Handles, NEW g, fil' = [fil EXCEPT ![h] = g],
           pc \notin {"link", "remove"}, pc' \notin {"link", "rename_remove"},
           NewStart => op.ncl = g.sclust /\ g.sclust \in Clusters,
           \/ fil[h].sclust \in {0, g.sclust}
           \/ \E i \in Slots : dir[i].sclust = fil[h].sclust,
           AtEnd => op.h = h,
           Unsaved(dir, g) => g.written \/ (h = op'.h /\ AtEnd')
    PROVE  Keeping'
<1>0. fil'[h] = g /\ \A k \in Handles \ {h} : fil'[k] = fil[k]
  OBVIOUS
<1>1. Held'
  <2>1. ASSUME NEW X \in SUBSET Clusters, Starts(X)' PROVE Starts(X)
    <3>1. /\ Root \subseteq X
          /\ \A i \in Slots : dir[i].sclust \in X \cup {0}
          /\ \A k \in Handles : fil'[k].sclust \in X \cup {0}
      BY <2>1 DEF Starts
    <3>2. g.sclust \in X \cup {0}
      BY <1>0, <3>1
    <3>3. \A k \in Handles : fil[k].sclust \in X \cup {0}
      BY <1>0, <3>1, <3>2
    <3>4. NewStart => op.ncl \in X
      BY <3>2, ClusterNumbers
    <3>5. QED
      BY <3>1, <3>3, <3>4 DEF Starts
  <2>2. QED
    BY <2>1, HeldOn DEF Keeping
<1>2. ASSUME NEW k \in Handles PROVE Kept(dir, k)'
  <2>1. CASE k = h
    BY <1>0, <2>1 DEF Kept, Unsaved
  <2>2. CASE k # h
    <3>1. fil'[k] = fil[k] /\ Kept(dir, k)
      BY <1>0, <2>2 DEF Keeping
    <3>2. QED
      BY <2>2, <3>1 DEF Kept, Unsaved
  <2>3. QED
    BY <2>1, <2>2
<1>3. Placed'
  BY DEF Keeping, Placed, Live
<1>4. QED
  BY <1>1, <1>2, <1>3 DEF Keeping

-----------------------------------------------------------------------------
(* create_chain and remove_chain.                                          *)

(* What create_chain and remove_chain leave alone.                         *)
LEMMA ChainKept ==
    ASSUME Calm, KeptInv, ChainStep
    PROVE  /\ \A h \in Handles : Kept(dir, h)'
           /\ \A i \in Slots : ~Live(dir, i)' => dir'[i].sclust = 0
           /\ pc' # "rename_remove"
           /\ UNCHANGED <<dir, fil>>
<1>1. /\ UNCHANGED <<dir, fil>> /\ op'.h = op.h /\ op'.ret = op.ret
      /\ \/ /\ pc \in {"create", "link"} /\ pc' \in {"link", op.ret}
            /\ op.ret \in {"write_got", "seek_first", "seek_got"}
         \/ /\ pc = "remove" /\ pc' \in {"remove", op.ret}
            /\ op.ret \in {"open_back", "sync"}
  BY KeptTypes, CalmSure, ChainShape
<1>2. AtEnd => AtEnd'
  BY <1>1 DEF AtEnd, Seeking
<1>3. \A h \in Handles : Kept(dir, h)'
  BY <1>1, <1>2 DEF KeptInv, Keeping, Kept, Unsaved
<1>4. QED
  BY <1>1, <1>3 DEF KeptInv, Keeping, Placed, Live

LEMMA ChainMarkKeeping ==
    ASSUME Calm, KeptInv, ChainStep, ChainMark
    PROVE  Keeping'
<1>0. /\ UNCHANGED <<dir, fil>> /\ op \in Op /\ RunHeads /\ Locals
      /\ fat \in [Clusters -> {0} \cup Clusters \cup {EOC}]
      /\ Held /\ Placed /\ pc = "create" /\ TypeOK
  BY KeptTypes, ChainKept DEF KeptInv, Keeping, ChainMark, VolumeInv
<1>1. PICK k \in 1 .. ScanLength :
        LET ncl == Scanned(ScanStart(op.cl), k) IN
        /\ fat[ncl] = 0
        /\ fat' = [fat EXCEPT ![ncl] = EOC]
        /\ IF op.cl = 0
           THEN Return("ok", ncl) /\ last_clust' = ncl /\ DecFree
           ELSE /\ pc' = "link" /\ op' = [op EXCEPT !.ncl = ncl]
                /\ UNCHANGED counters
  BY DEF ChainMark
<1>2. PICK c : c = Scanned(ScanStart(op.cl), k)
  OBVIOUS
<1>3. c \in Clusters /\ fat[c] = 0 /\ fat' = [fat EXCEPT ![c] = EOC]
  BY <1>0, <1>1, <1>2, ScanInTable
<1>4. fat'[c] = EOC /\ \A d \in Clusters \ {c} : fat'[d] = fat[d]
  BY <1>0, <1>3
<1>5. op'.ncl = c /\ NewStart'
  <2>1. CASE op.cl = 0
    <3>1. pc' = op.ret /\ op' = [op EXCEPT !.res = "ok", !.ncl = c]
      BY <1>1, <1>2, <2>1 DEF Return
    <3>2. op'.ncl = c /\ op'.res = "ok" /\ op'.h = op.h
      BY <1>0, <3>1 DEF Op
    <3>3. fil[op.h].sclust = 0 /\ op.ret \in {"write_got", "seek_first"}
      BY <1>0, <2>1 DEF RunHeads, Locals, Pending
    <3>4. QED
      BY <1>0, <3>1, <3>2, <3>3 DEF NewStart
  <2>2. CASE op.cl # 0
    BY <1>0, <1>1, <1>2, <2>2 DEF Op, NewStart
  <2>3. QED
    BY <2>1, <2>2
<1>6. Held'
  <2>1. SUFFICES ASSUME NEW X \in SUBSET Clusters, Starts(X)', Follows(fat', X)
                 PROVE  \A d \in Clusters : fat'[d] # 0 => d \in X
    BY DEF Held
  <2>2. c \in X /\ Starts(X)
    BY <1>0, <1>5, <2>1 DEF Starts, NewStart
  <2>3. Follows(fat, X)
    BY <1>3, <1>4, <2>1, ClusterNumbers DEF Follows
  <2>4. \A d \in Clusters : fat[d] # 0 => d \in X
    BY <1>0, <2>2, <2>3 DEF Held
  <2>5. QED
    BY <1>4, <2>2, <2>4
<1>7. \A d \in Root : fat'[d] = EOC
  BY <1>0, <1>4, ClusterNumbers DEF Placed
<1>8. Placed'
  BY <1>4, <1>5, <1>7, ChainKept DEF Placed
<1>9. QED
  BY <1>6, <1>8, ChainKept DEF Keeping

(* A chain of a FIL is none of the directory's.                            *)
LEMMA WalkedFrom ==
    ASSUME Tables(fat, dir), NEW s, fat[s] # 0, s \notin Root,
           NEW k, NEW x, Walked(fat, s, k, x)
    PROVE  fat[x] # 0 /\ x \notin Root
<1>1. k \in Nat
  BY VolumeAssumption DEF Walked, VolumeAssumption
<1>2. CASE k = 0
  BY <1>2, WalkSteps DEF Walked
<1>3. CASE k # 0
  <2>1. k - 1 \in Nat /\ (k - 1) + 1 = k
    BY <1>1, <1>3
  <2>2. PICK y : Walked(fat, s, k - 1, y) /\ fat[y] = x
    BY <2>1, WalkedBack
  <2>3. QED
    BY <2>2 DEF Tables, NoDanglingIn, NoCrossLinkIn, Walked
<1>4. QED
  BY <1>2, <1>3

(* Where a chain that is known can start.                                  *)
LEMMA StartsApart ==
    ASSUME ChainsInv, pc # "rename_remove", NEW s \in Clusters,
           \/ \E i \in Slots : dir[i].sclust = s
           \/ \E h \in Handles : fil[h].open /\ fil[h].sclust = s
    PROVE  fat[s] # 0 /\ s \notin Root /\ Simple(fat, s)
<1>0. /\ Tables(fat, dir) /\ Heads(fat, dir, fil) /\ OwnersInv
      /\ \A h \in Handles : fil[h].open => fil[h].slot \in Slots
      /\ s # 0
  BY FlushTypes, PrunedIsDir, ClusterNumbers DEF ChainsInv, Owners
<1>1. CASE \E i \in Slots : dir[i].sclust = s
  BY <1>0, <1>1, ClusterNumbers DEF Tables, NoDanglingIn, NoCrossLinkIn, Simple
<1>2. ASSUME NEW h \in Handles, fil[h].open, fil[h].sclust = s
      PROVE  fat[s] # 0 /\ s \notin Root /\ Simple(fat, s)
  <2>1. fat[s] # 0 /\ Simple(fat, s)
    BY <1>0, <1>2, FilHead
  <2>2. CASE Unsaved(dir, fil[h])
    BY <1>0, <1>2, <2>1, <2>2 DEF Heads, Agrees, Loose, Pointed
  <2>3. CASE ~Unsaved(dir, fil[h])
    <3>1. dir[fil[h].slot].sclust = s
      BY <1>0, <1>2, <2>3 DEF Heads, Agrees, Unsaved
    <3>2. QED
      BY <1>0, <1>1, <1>2, <3>1
  <2>4. QED
    BY <2>1, <2>2, <2>3
<1>3. QED
  BY <1>1, <1>2

(* create_chain does not link to the directory's cluster.                  *)
LEMMA LinkedApart ==
    ASSUME ChainsInv, pc = "link"
    PROVE  op.cl \notin Root
<1>0. /\ RunHeads /\ Running /\ Locals /\ op.h \in Handles /\ op.cl \in Clusters
      /\ op.ret \in {"write_got", "seek_first", "seek_got"} /\ Tables(fat, dir)
      /\ fil[op.h].sclust \in {0} \cup Clusters
  BY ChainsTypes, PrunedIsDir DEF Locals, Pending, Owners
<1>1. op.cl # 0 /\ fil[op.h].open /\ fil[op.h].sclust # 0 /\ op.ret # "seek_first"
  BY <1>0, ClusterNumbers DEF RunHeads, Growing
<1>2. \E k : Walked(fat, fil[op.h].sclust, k, op.cl)
  <2>1. CASE op.ret = "write_got"
    BY <1>1, <2>1, WritingAt
  <2>2. CASE op.ret = "seek_got"
    BY <1>0, <2>2 DEF Running, Seeking
  <2>3. QED
    BY <1>0, <1>1, <2>1, <2>2
<1>3. fat[fil[op.h].sclust] # 0 /\ fil[op.h].sclust \notin Root
  BY <1>0, <1>1, StartsApart
<1>4. QED
  BY <1>0, <1>2, <1>3, WalkedFrom

(* The new cluster is now found through the one it is linked to.           *)
LEMMA ChainLinkKeeping ==
    ASSUME Calm, KeptInv, ChainStep, ChainLink
    PROVE  Keeping'
<1>0. /\ UNCHANGED <<dir, fil>> /\ pc = "link" /\ Held /\ RunHeads
      /\ fat \in [Clusters -> {0} \cup Clusters \cup {EOC}]
      /\ op.cl \in Clusters /\ op.ncl \in Clusters /\ op.ncl # op.cl
      /\ fat[op.cl] = EOC /\ fat[op.ncl] = EOC
  BY KeptTypes, ChainKept
  DEF KeptInv, Keeping, ChainLink, RunHeads, Locals, Placed
<1>1. pc' = op.ret /\ op.ret \in {"write_got", "seek_first", "seek_got"}
  BY <1>0, KeptTypes DEF ChainLink, Return, Locals, Pending
<1>2. /\ fat'[op.cl] = op.ncl
      /\ \A d \in Clusters \ {op.cl} : fat'[d] = fat[d]
  BY <1>0 DEF ChainLink
<1>3. Held'
  <2>1. SUFFICES ASSUME NEW X \in SUBSET Clusters, Starts(X)', Follows(fat', X)
                 PROVE  \A d \in Clusters : fat'[d] # 0 => d \in X
    BY DEF Held
  <2>2. PICK Y \in SUBSET Clusters : Y = X \cup {op.ncl}
    BY <1>0
  <2>3. Starts(Y)
    BY <1>0, <2>1, <2>2 DEF Starts
  <2>4. Follows(fat, Y)
    BY <1>0, <1>2, <2>1, <2>2, ClusterNumbers DEF Follows
  <2>5. \A d \in Clusters : fat[d] # 0 => d \in Y
    BY <1>0, <2>3, <2>4 DEF Held
  <2>6. op.cl \in X
    BY <1>0, <2>2, <2>5, ClusterNumbers
  <2>7. op.ncl \in X
    BY <1>0, <1>2, <2>1, <2>6 DEF Follows
  <2>8. QED
    BY <1>0, <1>2, <2>2, <2>5, <2>7, ClusterNumbers
<1>4. \A d \in Root : fat'[d] = EOC
  BY <1>0, <1>2, ClusterNumbers, KeptTypes, LinkedApart DEF KeptInv, Keeping, Placed
<1>5. Placed'
  BY <1>1, <1>4, ChainKept DEF Placed
<1>6. QED
  BY <1>3, <1>5, ChainKept DEF Keeping

(* remove_chain goes from the cluster it frees to the one that follows.    *)
LEMMA RemoveLinkKeeping ==
    ASSUME Calm, KeptInv, ChainStep, RemoveLink
    PROVE  Keeping'
<1>0. /\ UNCHANGED <<dir, fil>> /\ pc = "remove" /\ Held /\ op \in Op
      /\ fat \in [Clusters -> {0} \cup Clusters \cup {EOC}]
      /\ op.cl \in Clusters /\ op.ret \in {"open_back", "sync"}
  BY KeptTypes, ChainKept DEF KeptInv, Keeping, RemoveLink, Locals
<1>1. /\ fat'[op.cl] = 0
      /\ \A d \in Clusters \ {op.cl} : fat'[d] = fat[d]
  BY <1>0 DEF RemoveLink
<1>2. /\ pc' \in {"remove", op.ret}
      /\ fat[op.cl] \in Clusters => pc' = "remove" /\ op'.cl = fat[op.cl]
  BY <1>0 DEF RemoveLink, Goto, Op
<1>3. Held'
  <2>1. SUFFICES ASSUME NEW X \in SUBSET Clusters, Starts(X)', Follows(fat', X)
                 PROVE  \A d \in Clusters : fat'[d] # 0 => d \in X
    BY DEF Held
  <2>2. PICK Y \in SUBSET Clusters : Y = X \cup {op.cl}
    BY <1>0
  <2>3. Starts(Y)
    BY <1>0, <2>1, <2>2 DEF Starts, NewStart
  <2>4. fat[op.cl] \in Clusters => fat[op.cl] \in X
    BY <1>2, <2>1 DEF Starts
  <2>5. Follows(fat, Y)
    BY <1>0, <1>1, <2>1, <2>2, <2>4 DEF Follows
  <2>6. \A d \in Clusters : fat[d] # 0 => d \in Y
    BY <1>0, <2>3, <2>5 DEF Held
  <2>7. QED
    BY <1>1, <2>2, <2>6
<1>4. \A d \in Root : fat'[d] = EOC
  <2>1. op.cl \notin Root
    BY <1>0, KeptTypes DEF RunHeads, Detached, Loose, Pointed
  <2>2. QED
    BY <1>1, <2>1, ClusterNumbers DEF KeptInv, Keeping, Placed
<1>5. Placed'
  BY <1>0, <1>2, <1>4, ChainKept DEF Placed
<1>6. QED
  BY <1>3, <1>5, ChainKept DEF Keeping

LEMMA ChainStepKeeping ==
    ASSUME Calm, KeptInv, ChainStep
    PROVE  Keeping'
<1>0. /\ RunHeads /\ Locals /\ ~(\E S : VisitFails(S))
      /\ UNCHANGED <<dir, fil>> /\ Held
  BY KeptTypes, ChainKept DEF KeptInv, Keeping
<1>1. CASE ChainFollowed \/ ChainBroken \/ ChainFull
  <2>1. /\ pc = "create" /\ fat' = fat /\ pc' = op.ret
        /\ op.ret \in {"write_got", "seek_first", "seek_got"}
    BY <1>0, <1>1 DEF ChainFollowed, ChainBroken, ChainFull, Return, Locals, Pending
  <2>2. Held'
    BY <1>0, <2>1, HeldOn DEF Starts, NewStart
  <2>3. \A d \in Root : fat'[d] = EOC
    BY <2>1 DEF KeptInv, Keeping, Placed
  <2>4. QED
    BY <2>1, <2>2, <2>3, ChainKept DEF Keeping, Placed
<1>2. CASE RemoveStops
  BY <1>0, <1>2 DEF RemoveStops, RunHeads, Detached, Loose
<1>3. CASE ChainFails \/ RemoveFails
  BY <1>0, <1>3 DEF ChainFails, RemoveFails
<1>4. QED
  BY <1>1, <1>2, <1>3, ChainMarkKeeping, ChainLinkKeeping, RemoveLinkKeeping
  DEF ChainStep

-----------------------------------------------------------------------------
(* Functions that change an entry.                                         *)

(* Entry i becomes e: its chain goes over to remove_chain, or another      *)
(* entry has it too, or there was none.                                    *)
LEMMA EntryKeeping ==
    ASSUME Keeping, fat' = fat, dir \in [Slots -> Entry],
           NEW i \in Slots, NEW e, dir' = [dir EXCEPT ![i] = e],
           pc \in {"idle", "rename_remove"}, pc' \notin {"link", "rename_remove"},
           \/ dir[i].sclust \in {0, e.sclust}
           \/ pc' = "remove" /\ op'.cl = dir[i].sclust
           \/ \E j \in Slots \ {i} : dir[j].sclust = dir[i].sclust,
           e.name \notin Names => e.sclust = 0,
           \A k \in Handles :
              \/ fil'[k] = fil[k] /\ (fil[k].open => fil[k].slot \in Slots \ {i})
              \/ fil[k].sclust \in {0, fil'[k].sclust} /\ ~Unsaved(dir', fil'[k])
    PROVE  Keeping'
<1>0. dir'[i] = e /\ \A j \in Slots \ {i} : dir'[j] = dir[j]
  OBVIOUS
<1>1. Held'
  <2>1. ASSUME NEW X \in SUBSET Clusters, Starts(X)' PROVE Starts(X)
    <3>1. /\ Root \subseteq X
          /\ \A j \in Slots : dir'[j].sclust \in X \cup {0}
          /\ \A k \in Handles : fil'[k].sclust \in X \cup {0}
          /\ pc' = "remove" => op'.cl \in X
      BY <2>1 DEF Starts
    <3>2. \A j \in Slots \ {i} : dir[j].sclust \in X \cup {0}
      BY <1>0, <3>1
    <3>3. e.sclust \in X \cup {0}
      BY <1>0, <3>1
    <3>4. dir[i].sclust \in X \cup {0}
      BY <3>1, <3>2, <3>3
    <3>5. \A k \in Handles : fil[k].sclust \in X \cup {0}
      BY <3>1
    <3>6. QED
      BY <3>1, <3>2, <3>4, <3>5 DEF Starts, NewStart
  <2>2. QED
    BY <2>1, HeldOn DEF Keeping
<1>2. ASSUME NEW k \in Handles PROVE Kept(dir, k)'
  <2>1. CASE fil'[k] = fil[k] /\ (fil[k].open => fil[k].slot \in Slots \ {i})
    <3>1. Unsaved(dir, fil[k]) => fil[k].written
      BY DEF Keeping, Kept, AtEnd, Seeking
    <3>2. QED
      BY <1>0, <2>1, <3>1 DEF Kept, Unsaved
  <2>2. CASE ~Unsaved(dir', fil'[k])
    BY <2>2 DEF Kept
  <2>3. QED
    BY <2>1, <2>2
<1>3. Placed'
  BY <1>0 DEF Keeping, Placed, Live
<1>4. QED
  BY <1>1, <1>2, <1>3 DEF Keeping

(* The entry of no open FIL.                                               *)
LEMMA NotOpen ==
    ASSUME Calm, KeptInv, NEW i \in Slots, OpenOn(i) = {}
    PROVE  \A k \in Handles : fil[k].open => fil[k].slot \in Slots \ {i}
BY KeptTypes, FlushTypes DEF OpenOn

LEMMA CreatedKeeping ==
    ASSUME Calm, KeptInv, NEW i \in Slots, OpenOn(i) = {}, fat' = fat, pc = "idle",
           pc' = "idle", NEW e, dir' = [dir EXCEPT ![i] = e], e.name \in Names,
           dir[i].sclust = 0, e.sclust = 0,
           NEW h \in Handles, ~fil[h].open,
           fil' = [fil EXCEPT ![h] = NewFil(i, TRUE, TRUE, 0, 0)]
    PROVE  Keeping'
<1>1. PICK g : g = NewFil(i, TRUE, TRUE, 0, 0)
  OBVIOUS
<1>2. g.sclust = 0 /\ ~Unsaved(dir', g)
  BY <1>1, CreatedFilFields DEF Unsaved
<1>3. fil'[h] = g /\ \A k \in Handles \ {h} : fil'[k] = fil[k]
  BY <1>1, KeptTypes
<1>4. fil[h].sclust = 0
  BY KeptTypes, ClosedNoChain
<1>5. \A k \in Handles :
         \/ fil'[k] = fil[k] /\ (fil[k].open => fil[k].slot \in Slots \ {i})
         \/ fil[k].sclust \in {0, fil'[k].sclust} /\ ~Unsaved(dir', fil'[k])
  BY <1>2, <1>3, <1>4, NotOpen
<1>6. QED
  BY <1>5, KeptTypes, EntryKeeping DEF KeptInv

LEMMA OpenStepKeeping ==
    ASSUME Calm, KeptInv, OpenStep
    PROVE  Keeping'
<1>0. /\ Keeping /\ Locals /\ RunHeads /\ Exclusive /\ \A S : ~VisitFails(S)
      /\ fil \in [Handles -> Fil] /\ dir \in [Slots -> Entry]
      /\ \A i \in Slots : dir[i].sclust \in {0} \cup Clusters
      /\ pc \in {"idle", "open_back"}
  BY KeptTypes, StepsStart DEF KeptInv
<1>1. ASSUME NEW n, LookUp(n) PROVE Keeping'
  BY <1>0, <1>1, QuietKeeping, IdleIsQuiet DEF LookUp, Finish
<1>2. ASSUME NEW h \in Handles, NEW n \in Names, NEW mode \in Modes,
             NEW write \in BOOLEAN, OpenExisting(h, n, mode, write)
      PROVE  Keeping'
  <2>1. PICK i \in Found(n) :
          fil' = [fil EXCEPT ![h] = NewFil(i, write, FALSE, dir[i].sclust, dir[i].size)]
    BY <1>2 DEF OpenExisting
  <2>2. PICK g : g = NewFil(i, write, FALSE, dir[i].sclust, dir[i].size)
    OBVIOUS
  <2>3. UNCHANGED <<fat, dir>> /\ pc = "idle" /\ pc' = "idle" /\ ~fil[h].open
    BY <1>2 DEF OpenExisting, Ready, Finish
  <2>4. g.slot = i /\ g.sclust = dir[i].sclust
    BY <2>2 DEF NewFil, ClosedFil
  <2>5. ~Unsaved(dir, g)
    BY <2>4 DEF Unsaved
  <2>6. fil[h].sclust = 0
    BY <2>3, KeptTypes, ClosedNoChain
  <2>7. fil' = [fil EXCEPT ![h] = g]
    BY <2>1, <2>2
  <2>8. QED
    BY <1>0, <2>3, <2>5, <2>6, <2>7, IdleIsQuiet, FilKeeping
<1>3. ASSUME NEW h \in Handles, NEW n \in Names, NEW mode \in Modes,
             OpenCreate(h, n, mode)
      PROVE  Keeping'
  <2>1. PICK i \in Slots :
          /\ AllocSlot(i)
          /\ dir' = [dir EXCEPT ![i] = [name |-> n, sclust |-> 0, size |-> 0]]
          /\ fil' = [fil EXCEPT ![h] = NewFil(i, TRUE, TRUE, 0, 0)]
    BY <1>3 DEF OpenCreate
  <2>2. PICK e : e = [name |-> n, sclust |-> 0, size |-> 0]
    OBVIOUS
  <2>3. e.name = n /\ e.sclust = 0 /\ dir' = [dir EXCEPT ![i] = e]
    BY <2>1, <2>2
  <2>4. fat' = fat /\ pc = "idle" /\ pc' = "idle" /\ ~fil[h].open
    BY <1>3 DEF OpenCreate, Ready, Finish
  <2>5. OpenOn(i) = {} /\ ~Live(dir, i)
    <3>1. Heads(fat, dir, fil)
      BY <2>4, KeptTypes, PrunedIsDir DEF Owners
    <3>2. QED
      BY <2>1, <3>1, FreeSlotClosed
  <2>6. dir[i].sclust = 0
    BY <1>0, <2>5 DEF Keeping, Placed
  <2>7. QED
    BY <2>1, <2>3, <2>4, <2>5, <2>6, CreatedKeeping
<1>4. ASSUME NEW h \in Handles, NEW n \in Names, OpenTruncate(h, n)
      PROVE  Keeping'
  <2>1. PICK i \in Found(n) :
          /\ MayOpen(i, TRUE)
          /\ dir' = [dir EXCEPT ![i] = Resized(@, 0, 0)]
          /\ IF dir[i].sclust = 0
             THEN Finish /\ fil' = [fil EXCEPT ![h] = NewFil(i, TRUE, TRUE, 0, 0)]
             ELSE /\ CallRemoveChain(i, dir[i].sclust, TRUE, h, "open_back")
                  /\ UNCHANGED fil
    BY <1>4 DEF OpenTruncate
  <2>2. /\ i \in Slots /\ dir[i].name = n /\ ~fil[h].open /\ OpenOn(i) = {}
        /\ fat' = fat /\ pc = "idle"
    BY <1>0, <1>4, <2>1 DEF OpenTruncate, Found, MayOpen, Ready
  <2>3. PICK e : e = Resized(dir[i], 0, 0)
    OBVIOUS
  <2>4. dir[i] \in Entry /\ dir' = [dir EXCEPT ![i] = e]
    BY <1>0, <2>1, <2>2, <2>3
  <2>5. e.name = n /\ e.sclust = 0
    BY <2>2, <2>3, <2>4 DEF Resized, Entry
  <2>6. CASE dir[i].sclust = 0
    BY <2>1, <2>2, <2>4, <2>5, <2>6, CreatedKeeping DEF Finish
  <2>7. CASE dir[i].sclust # 0
    <3>1. UNCHANGED fil /\ pc' = "remove" /\ op'.cl = dir[i].sclust
      BY <2>1, <2>7 DEF CallRemoveChain, NoOp
    <3>2. \A k \in Handles : fil[k].open => fil[k].slot \in Slots \ {i}
      BY <2>2, NotOpen
    <3>3. QED
      BY <1>0, <2>2, <2>4, <2>5, <3>1, <3>2, EntryKeeping
  <2>8. QED
    BY <2>6, <2>7
<1>5. CASE OpenBack
  <2>1. PICK h, g : h = op.h /\ g = NewFil(op.slot, TRUE, TRUE, 0, 0)
    OBVIOUS
  <2>2. /\ h \in Handles /\ fil' = [fil EXCEPT ![h] = g]
        /\ pc = "open_back" /\ pc' = "idle" /\ UNCHANGED <<fat, dir>>
    BY <1>0, <1>5, <2>1 DEF OpenBack, Locals, Opening, Finish
  <2>3. g.sclust = 0 /\ ~Unsaved(dir, g)
    BY <2>1, CreatedFilFields DEF Unsaved
  <2>4. fil[h].sclust = 0
    BY <2>1, <2>2, KeptTypes, ClosedNoChain DEF Filing
  <2>5. QED
    BY <1>0, <2>2, <2>3, <2>4, IdleIsQuiet, FilKeeping
<1>6. QED
  BY <1>0, <1>1, <1>2, <1>3, <1>4, <1>5
  DEF OpenStep, Stat, LookUpFails, OpenRefused

LEMMA NameStepKeeping ==
    ASSUME Calm, KeptInv, NameStep
    PROVE  Keeping'
<1>0. /\ Keeping /\ Locals /\ RunHeads /\ Exclusive /\ Filing
      /\ \A S : ~VisitFails(S) /\ ~WriteBackFails(S) /\ ~LoadFails(S)
      /\ fil \in [Handles -> Fil] /\ dir \in [Slots -> Entry] /\ op \in Op
      /\ \A i \in Slots : dir[i].sclust \in {0} \cup Clusters
  BY KeptTypes, CalmSure, NothingFails DEF KeptInv
<1>1. ASSUME UNCHANGED <<fat, dir, fil>>, Finish, pc = "idle" PROVE Keeping'
  BY <1>0, <1>1, QuietKeeping, IdleIsQuiet DEF Finish
<1>2. ASSUME NEW n \in Names, Unlink(n) PROVE Keeping'
  <2>1. PICK i \in Found(n) :
          /\ MayChange(i)
          /\ dir' = [dir EXCEPT ![i] = Erased]
          /\ IF dir[i].sclust = 0
             THEN pc' = "sync" /\ op' = NoOp
             ELSE CallRemoveChain(i, dir[i].sclust, FALSE, "-", "sync")
    BY <1>2 DEF Unlink
  <2>2. i \in Slots /\ OpenOn(i) = {} /\ UNCHANGED <<fat, fil>> /\ pc = "idle"
    BY <1>0, <1>2, <2>1 DEF Unlink, Found, MayChange, Ready
  <2>3. /\ pc' \in {"sync", "remove"}
        /\ dir[i].sclust # 0 => pc' = "remove" /\ op'.cl = dir[i].sclust
    BY <2>1 DEF CallRemoveChain, NoOp
  <2>4. \A k \in Handles : fil[k].open => fil[k].slot \in Slots \ {i}
    BY <2>2, NotOpen
  <2>5. PICK e : e = Erased
    OBVIOUS
  <2>6. dir' = [dir EXCEPT ![i] = e] /\ e.sclust = 0
    BY <2>1, <2>5, ErasedEntry
  <2>7. QED
    BY <1>0, <2>2, <2>3, <2>4, <2>6, EntryKeeping
<1>3. ASSUME NEW from \in Names, NEW to \in Names, Rename(from, to)
      PROVE  Keeping'
  <2>1. PICK i \in Found(from), j \in Slots :
          /\ MayChange(i)
          /\ AllocSlot(j)
          /\ dir' = [dir EXCEPT ![j] = Renamed(dir[i], to)]
          /\ pc' = "rename_remove"
          /\ op' = [NoOp EXCEPT !.slot = i, !.from = from, !.to = to]
    BY <1>3 DEF Rename
  <2>2. /\ i \in Slots /\ UNCHANGED <<fat, fil>> /\ pc = "idle"
        /\ dir[i].name = from /\ dir[i] \in Entry
    BY <1>0, <1>3 DEF Rename, Found, Ready
  <2>3. PICK e : e = Renamed(dir[i], to)
    OBVIOUS
  <2>4. e.sclust = dir[i].sclust /\ e.name = to /\ dir' = [dir EXCEPT ![j] = e]
    BY <2>1, <2>2, <2>3 DEF Renamed, Entry
  <2>5. OpenOn(j) = {} /\ ~Live(dir, j)
    <3>1. Heads(fat, dir, fil)
      BY <2>2, KeptTypes, PrunedIsDir DEF Owners
    <3>2. QED
      BY <2>1, <3>1, FreeSlotClosed
  <2>6. dir[j].sclust = 0 /\ i # j
    BY <1>0, <2>2, <2>5 DEF Keeping, Placed, Live
  <2>7. /\ dir'[j] = e /\ dir'[i] = dir[i]
        /\ \A k \in Slots \ {j} : dir'[k] = dir[k]
        /\ op'.slot = i
    BY <1>0, <2>1, <2>2, <2>4, <2>6 DEF NoOp
  <2>8. Held'
    <3>1. ASSUME NEW X \in SUBSET Clusters, Starts(X)' PROVE Starts(X)
      <4>1. \A k \in Slots : dir[k].sclust \in X \cup {0}
        BY <2>6, <2>7, <3>1 DEF Starts
      <4>2. QED
        BY <2>2, <3>1, <4>1 DEF Starts, NewStart
    <3>2. QED
      BY <1>0, <2>2, <3>1, HeldOn DEF Keeping
  <2>9. ASSUME NEW k \in Handles PROVE Kept(dir, k)'
    <3>1. Unsaved(dir, fil[k]) => fil[k].written
      BY <1>0, <2>2 DEF Keeping, Kept, AtEnd, Seeking
    <3>2. fil[k].open => fil[k].slot \in Slots \ {j}
      BY <2>5, NotOpen
    <3>3. QED
      BY <2>2, <2>7, <3>1, <3>2 DEF Kept, Unsaved
  <2>10. Placed'
    <3>1. \A k \in Slots : ~Live(dir, k)' => dir'[k].sclust = 0
      BY <1>0, <2>4, <2>7 DEF Keeping, Placed, Live
    <3>2. j # op'.slot /\ dir'[j].sclust = dir'[op'.slot].sclust
      BY <2>4, <2>6, <2>7
    <3>3. \A c \in Root : fat'[c] = EOC
      BY <1>0, <2>2 DEF Keeping, Placed
    <3>4. QED
      BY <2>1, <3>1, <3>2, <3>3 DEF Placed
  <2>11. QED
    BY <2>8, <2>9, <2>10 DEF Keeping
<1>4. CASE RenameRemove
  <2>1. PICK i, e : i = op.slot /\ e = Erased
    OBVIOUS
  <2>2. /\ pc = "rename_remove" /\ pc' = "sync" /\ i \in Slots
        /\ dir' = [dir EXCEPT ![i] = e] /\ UNCHANGED <<fat, fil>>
        /\ OpenOn(i) = {} /\ e.sclust = 0
    BY <1>0, <1>4, <2>1, ErasedEntry DEF RenameRemove, Locals, RunHeads
  <2>3. \E j \in Slots \ {i} : dir[j].sclust = dir[i].sclust
    BY <1>0, <2>1, <2>2 DEF Keeping, Placed
  <2>4. \A k \in Handles : fil[k].open => fil[k].slot \in Slots \ {i}
    BY <2>2, NotOpen
  <2>5. QED
    BY <1>0, <2>2, <2>3, <2>4, EntryKeeping
<1>5. CASE GetFree
  BY <1>1, <1>5 DEF GetFree, Ready
<1>6. CASE GetFreeFails
  BY <1>0, <1>6 DEF GetFreeFails
<1>7. ASSUME NEW n, LookUp(n), pc = "idle" PROVE Keeping'
  BY <1>1, <1>7 DEF LookUp
<1>8. QED
  BY <1>2, <1>3, <1>4, <1>5, <1>6, <1>7
  DEF NameStep, UnlinkRefused, RenameRefused, Ready

-----------------------------------------------------------------------------
(* f_sync and f_close.                                                     *)

(* Only the flags of a FIL change, or none.                                *)
LEMMA FlagKeeping ==
    ASSUME Calm, KeptInv, NEW h \in Handles, NEW g, fil' = [fil EXCEPT ![h] = g],
           UNCHANGED <<fat, dir>>, pc \in {"idle", "sync", "fsinfo"},
           pc' \notin {"link", "rename_remove"},
           g.open = fil[h].open, g.slot = fil[h].slot, g.sclust = fil[h].sclust,
           g.written = fil[h].written
    PROVE  Keeping'
<1>1. Unsaved(dir, g) => g.written
  <2>1. Unsaved(dir, fil[h]) => fil[h].written
    BY DEF KeptInv, Keeping, Kept, AtEnd, Seeking
  <2>2. QED
    BY <2>1 DEF Unsaved
<1>2. QED
  BY <1>1, KeptTypes, IdleIsQuiet, FilKeeping DEF KeptInv

LEMMA SyncStepKeeping ==
    ASSUME Calm, KeptInv, SyncStep
    PROVE  Keeping'
<1>0. /\ Keeping /\ Locals /\ Filing /\ FilesFit /\ ChainsInv
      /\ \A S : ~VisitFails(S)
      /\ fil \in [Handles -> Fil] /\ dir \in [Slots -> Entry]
      /\ \A h \in Handles : fil[h] \in Fil
  BY KeptTypes DEF KeptInv
<1>1. ASSUME NEW h \in Handles, NEW closing \in BOOLEAN, SyncClean(h, closing)
      PROVE  Keeping'
  <2>1. PICK f, g : f = fil[h] /\ g = [f EXCEPT !.closing = @ \/ closing]
    OBVIOUS
  <2>2. /\ fil' = [fil EXCEPT ![h] = g] /\ pc = "idle" /\ pc' = "idle"
        /\ UNCHANGED <<fat, dir>>
    BY <1>1, <2>1 DEF SyncClean, Ready, store
  <2>3. /\ g.open = f.open /\ g.slot = f.slot /\ g.sclust = f.sclust
        /\ g.written = f.written
    BY <1>0, <2>1 DEF Fil
  <2>4. QED
    BY <2>1, <2>2, <2>3, FlagKeeping
<1>2. ASSUME NEW h \in Handles, NEW closing \in BOOLEAN, SyncStart(h, closing)
      PROVE  Keeping'
  <2>1. PICK f, i : f = fil[h] /\ i = f.slot
    OBVIOUS
  <2>2. /\ f.open /\ f.written /\ f.write /\ f \in Fil /\ pc = "idle"
        /\ i \in Slots /\ Live(dir, i) /\ dir[i] \in Entry
    BY <1>0, <1>2, <2>1, FlushTypes DEF SyncStart, Usable, Ready, FilesFit, FitsEntry
  <2>3. PICK g, e :
          /\ g = [f EXCEPT !.written = FALSE]
          /\ e = Resized(dir[i], f.sclust, f.fsize)
    OBVIOUS
  <2>4. /\ fil' = [fil EXCEPT ![h] = g] /\ dir' = [dir EXCEPT ![i] = e]
        /\ pc' = "sync" /\ fat' = fat
    BY <1>0, <1>2, <2>1, <2>2, <2>3 DEF SyncStart
  <2>5. g.slot = i /\ g.sclust = f.sclust
    BY <2>1, <2>2, <2>3 DEF Fil
  <2>6. e.name = dir[i].name /\ e.sclust = f.sclust
    BY <2>2, <2>3 DEF Resized, Entry
  <2>7. /\ dir'[i] = e /\ fil'[h] = g
        /\ \A k \in Handles \ {h} : fil'[k] = fil[k]
    BY <1>0, <2>2, <2>4
  <2>8. dir[i].sclust \in {0, e.sclust}
    <3>1. Heads(fat, dir, fil)
      BY <2>2, KeptTypes, PrunedIsDir DEF Owners
    <3>2. QED
      BY <2>1, <2>2, <2>6, <3>1 DEF Heads, Agrees
  <2>9. ~Unsaved(dir', g)
    BY <2>5, <2>6, <2>7 DEF Unsaved
  <2>10. \A k \in Handles \ {h} : fil[k].open => fil[k].slot \in Slots \ {i}
    BY <1>0, <2>1, <2>2, FlushTypes, SharedForReading
  <2>11. e.name \in Names
    BY <2>2, <2>6 DEF Live
  <2>12. \A k \in Handles :
           \/ fil'[k] = fil[k] /\ (fil[k].open => fil[k].slot \in Slots \ {i})
           \/ fil[k].sclust \in {0, fil'[k].sclust} /\ ~Unsaved(dir', fil'[k])
    BY <2>1, <2>5, <2>7, <2>9, <2>10
  <2>13. QED
    BY <1>0, <2>2, <2>4, <2>8, <2>11, <2>12, EntryKeeping
<1>3. ASSUME NEW h \in Handles, Close(h) PROVE Keeping'
  <2>1. PICK g : g = ClosedFil
    OBVIOUS
  <2>2. /\ fil' = [fil EXCEPT ![h] = g] /\ UNCHANGED <<fat, dir>>
        /\ pc = "idle" /\ pc' = "idle" /\ fil[h].closing
    BY <1>3, <2>1 DEF Close, Ready, store
  <2>3. ~Unsaved(dir, g)
    BY <2>1 DEF Unsaved, ClosedFil
  <2>4. fil[h].sclust = 0 \/ \E i \in Slots : dir[i].sclust = fil[h].sclust
    <3>1. CASE ~fil[h].open
      BY <1>0, <3>1, ClosedNoChain
    <3>2. CASE fil[h].open
      <4>1. ~fil[h].written
        BY <1>0, <2>2 DEF FilesFit, FitsEntry
      <4>2. ~Unsaved(dir, fil[h])
        BY <1>0, <2>2, <4>1 DEF Keeping, Kept, AtEnd, Seeking
      <4>3. fil[h].slot \in Slots
        BY <1>0, <3>2, FlushTypes
      <4>4. Heads(fat, dir, fil)
        BY <2>2, KeptTypes, PrunedIsDir DEF Owners
      <4>5. QED
        BY <3>2, <4>2, <4>3, <4>4 DEF Unsaved, Heads, Agrees
    <3>3. QED
      BY <3>1, <3>2
  <2>5. QED
    BY <1>0, <2>2, <2>3, <2>4, IdleIsQuiet, FilKeeping
<1>4. ASSUME pc \in {"sync", "fsinfo"}, UNCHANGED <<fat, dir>>, SyncReturns
      PROVE  Keeping'
  <2>1. CASE op.ret = "closed"
    <3>1. PICK h, f, g : h = op.h /\ f = fil[h] /\ g = [f EXCEPT !.closing = TRUE]
      OBVIOUS
    <3>2. h \in Handles /\ fil' = [fil EXCEPT ![h] = g] /\ pc' = "idle"
      BY <1>0, <1>4, <2>1, <3>1 DEF SyncReturns, Finish, Locals
    <3>3. /\ g.open = f.open /\ g.slot = f.slot /\ g.sclust = f.sclust
          /\ g.written = f.written
      BY <1>0, <3>1, <3>2 DEF Fil
    <3>4. QED
      BY <1>4, <3>1, <3>2, <3>3, FlagKeeping
  <2>2. CASE op.ret # "closed"
    BY <1>0, <1>4, <2>2, QuietKeeping, IdleIsQuiet DEF SyncReturns, Finish
  <2>3. QED
    BY <2>1, <2>2
<1>5. CASE SyncWindow
  <2>1. pc = "sync" /\ UNCHANGED <<fat, dir>>
    BY <1>5 DEF SyncWindow
  <2>2. CASE Goto("fsinfo") /\ UNCHANGED fil
    BY <1>0, <2>1, <2>2, QuietKeeping, IdleIsQuiet DEF Goto
  <2>3. QED
    BY <1>4, <1>5, <2>1, <2>2 DEF SyncWindow
<1>6. CASE SyncFails
  BY <1>6 DEF Calm, SyncFails
<1>7. CASE SyncFsInfo
  BY <1>4, <1>7 DEF SyncFsInfo
<1>8. QED
  BY <1>1, <1>2, <1>3, <1>5, <1>6, <1>7 DEF SyncStep

-----------------------------------------------------------------------------
(* f_write and f_lseek.                                                    *)

LEMMA WriteGotKeeping ==
    ASSUME Calm, KeptInv, WriteStep, WriteGot
    PROVE  Keeping'
<1>0. /\ op \in Op /\ fil \in [Handles -> Fil] /\ op.h \in Handles
      /\ fil[op.h] \in Fil /\ op.res # "error" /\ "io" \notin Faults
      /\ op.res = "ok" => op.ncl \in Clusters
      /\ pc = "write_got" /\ pc' = "idle" /\ UNCHANGED <<fat, dir>>
  BY KeptTypes DEF Flushed, WriteGot, Locals, Pending, Finish, store
<1>1. PICK h, f, p : /\ h = op.h /\ f = fil[h]
                     /\ p = [f EXCEPT !.clust = op.ncl,
                                      !.sclust = IF @ = 0 THEN op.ncl ELSE @]
  OBVIOUS
<1>2. PICK g :
        /\ fil' = [fil EXCEPT ![h] = g]
        /\ \/ /\ op.res = "ok"
              /\ g = [p EXCEPT !.fptr = @ + 1,
                               !.fsize = IF f.fptr < @ THEN @ ELSE f.fptr + 1,
                               !.written = TRUE]
           \/ /\ op.res = "full"
              /\ g = [f EXCEPT !.written = TRUE]
  BY <1>0, <1>1 DEF WriteGot
<1>3. p.sclust = (IF f.sclust = 0 THEN op.ncl ELSE f.sclust) /\ DOMAIN p = DOMAIN f
  BY <1>0, <1>1 DEF Fil
<1>4. CASE op.res = "ok"
  <2>1. g = [p EXCEPT !.fptr = @ + 1,
                      !.fsize = IF f.fptr < @ THEN @ ELSE f.fptr + 1,
                      !.written = TRUE]
    BY <1>2, <1>4
  <2>2. g.sclust = p.sclust
    BY <1>0, <1>1, <1>3, <2>1 DEF Fil
  <2>3. g.written
    BY <1>0, <1>1, <1>3, <2>1 DEF Fil
  <2>4. NewStart => op.ncl = g.sclust /\ g.sclust \in Clusters
    BY <1>0, <1>1, <1>3, <1>4, <2>2 DEF NewStart
  <2>5. f.sclust \in {0, g.sclust}
    BY <1>3, <2>2
  <2>6. QED
    BY <1>0, <1>1, <1>2, <2>3, <2>4, <2>5, FilKeeping
    DEF KeptInv, AtEnd, Seeking
<1>5. CASE op.res # "ok"
  <2>1. g = [f EXCEPT !.written = TRUE]
    BY <1>2, <1>5
  <2>2. g.sclust = f.sclust
    BY <1>0, <1>1, <2>1 DEF Fil
  <2>3. g.written
    BY <1>0, <1>1, <2>1 DEF Fil
  <2>4. ~NewStart
    BY <1>0, <1>5 DEF NewStart
  <2>5. QED
    BY <1>0, <1>1, <1>2, <2>2, <2>3, <2>4, FilKeeping
    DEF KeptInv, AtEnd, Seeking
<1>6. QED
  BY <1>4, <1>5

LEMMA SeekStartKeeping ==
    ASSUME Calm, KeptInv, NEW h \in Handles, NEW to \in 0 .. MaxSize, SeekStart(h, to)
    PROVE  Keeping'
<1>0. fil[h] \in Fil
  BY KeptTypes
<1>1. PICK f : f = fil[h]
  OBVIOUS
<1>2. PICK g :
        /\ fil' = [fil EXCEPT ![h] = g]
        /\ \/ g = [f EXCEPT !.fptr = 0]
           \/ g = [f EXCEPT !.fptr = f.fptr - 1]
           \/ g = [f EXCEPT !.fptr = 0, !.clust = f.sclust]
  BY <1>1 DEF SeekStart
<1>3. /\ pc = "idle" /\ pc' \in {"idle", "seek", "create"} /\ UNCHANGED <<fat, dir>>
  BY DEF SeekStart, Ready, CallCreateChain, Finish, store
<1>4. /\ g.open = f.open /\ g.slot = f.slot /\ g.sclust = f.sclust
      /\ g.written = f.written
  BY <1>0, <1>1, <1>2 DEF Fil
<1>5. QED
  BY <1>1, <1>2, <1>3, <1>4, FlagKeeping

(* f_lseek is at its end, or the start of its FIL will be saved.           *)
LEMMA SeekKept ==
    ASSUME KeptInv, pc \in {"seek", "seek_got"}, NEW h \in Handles, h = op.h
    PROVE  Unsaved(dir, fil[h]) => fil[h].written \/ fil[h].fptr >= fil[h].fsize
BY DEF KeptInv, Keeping, Kept, AtEnd

(* The FIL arrives, and its start will be saved.                           *)
LEMMA ArrivedKeeping ==
    ASSUME Calm, KeptInv, pc \in {"seek", "seek_got"}, NEW h \in Handles, h = op.h,
           UNCHANGED <<fat, dir>>, pc' = "idle", fil[h].sclust # 0,
           fil' = [fil EXCEPT ![h] = Arrived(@)]
    PROVE  Keeping'
<1>0. fil[h] \in Fil /\ fil \in [Handles -> Fil]
  BY KeptTypes
<1>1. PICK f, g : f = fil[h] /\ g = Arrived(f)
  OBVIOUS
<1>2. g.open = f.open /\ g.slot = f.slot /\ g.sclust = f.sclust
  BY <1>0, <1>1, ArrivedFields
<1>3. g.written = (f.written \/ f.fptr >= f.fsize)
  BY <1>0, <1>1 DEF Arrived, Fil
<1>4. Unsaved(dir, g) => Unsaved(dir, f)
  BY <1>2 DEF Unsaved
<1>5. Unsaved(dir, g) => g.written
  BY <1>1, <1>3, <1>4, SeekKept
<1>6. QED
  BY <1>0, <1>1, <1>2, <1>5, FilKeeping DEF KeptInv, NewStart, AtEnd

LEMMA SeekFirstKeeping ==
    ASSUME Calm, KeptInv, SeekFirst
    PROVE  Keeping'
<1>0. /\ op \in Op /\ fil \in [Handles -> Fil] /\ op.h \in Handles /\ Keeping
      /\ fil[op.h] \in Fil /\ op.res \in {"ok", "full"} /\ fil[op.h].open
      /\ fil[op.h].sclust = 0 /\ fil[op.h].fptr = 0
      /\ op.res = "ok" => op.ncl \in Clusters
      /\ op.res = "full" => op.ncl = 0
      /\ pc = "seek_first" /\ UNCHANGED <<fat, dir>>
  BY KeptTypes
  DEF KeptInv, Flushed, SeekFirst, Locals, Pending, RunHeads, Growing, Op, store
<1>1. PICK h, f, g : /\ h = op.h /\ f = fil[h]
                     /\ g = [f EXCEPT !.sclust = op.ncl, !.clust = op.ncl]
  OBVIOUS
<1>2. /\ fil' = [fil EXCEPT ![h] = g]
      /\ op.res = "ok" => pc' = "seek" /\ op'.h = h
      /\ op.res = "full" => pc' = "idle"
  BY <1>0, <1>1 DEF SeekFirst, Finish, NoOp
<1>3. /\ g.open = f.open /\ g.slot = f.slot /\ g.sclust = op.ncl
      /\ g.fptr = f.fptr /\ g.fsize = f.fsize
  BY <1>0, <1>1 DEF Fil
<1>4. f.fsize = 0
  <2>1. Heads(fat, dir, fil)
    BY <1>0, KeptTypes, PrunedIsDir DEF Owners
  <2>2. QED
    BY <1>0, <1>1, <2>1 DEF Heads, Agrees
<1>5. CASE op.res = "ok"
  <2>1. fil'[h] = g
    BY <1>0, <1>1, <1>2
  <2>2. AtEnd'
    BY <1>0, <1>1, <1>2, <1>3, <1>4, <1>5, <2>1 DEF AtEnd, Seeking
  <2>3. QED
    BY <1>0, <1>1, <1>2, <1>3, <1>5, <2>2, FilKeeping DEF NewStart, AtEnd, Seeking
<1>6. CASE op.res = "full"
  <2>1. ~Unsaved(dir, g)
    BY <1>0, <1>3, <1>6 DEF Unsaved
  <2>2. ~NewStart /\ ~AtEnd
    BY <1>0, <1>6 DEF NewStart, AtEnd, Seeking
  <2>3. QED
    BY <1>0, <1>1, <1>2, <1>6, <2>1, <2>2, FilKeeping
<1>7. QED
  BY <1>0, <1>5, <1>6

LEMMA SeekOnKeeping ==
    ASSUME Calm, KeptInv, SeekOn
    PROVE  Keeping'
<1>0. /\ op \in Op /\ fil \in [Handles -> Fil] /\ op.h \in Handles /\ Keeping
      /\ fil[op.h] \in Fil /\ fil[op.h].open /\ fil[op.h].sclust # 0
      /\ pc = "seek" /\ UNCHANGED <<fat, dir>> /\ \A S : ~VisitFails(S)
      /\ Heads(fat, dir, fil) /\ op.ofs \in Nat
  <2>1. /\ op \in Op /\ fil \in [Handles -> Fil] /\ op.h \in Handles /\ Keeping
        /\ fil[op.h] \in Fil /\ fil[op.h].open /\ fil[op.h].sclust # 0
        /\ pc = "seek" /\ \A S : ~VisitFails(S)
    BY KeptTypes DEF KeptInv, SeekOn, Locals, RunHeads
  <2>2. Heads(fat, dir, fil)
    BY <2>1, KeptTypes, PrunedIsDir DEF Owners
  <2>3. op.ofs \in Nat
    BY <2>1, VolumeAssumption DEF Op, VolumeAssumption
  <2>4. UNCHANGED <<fat, dir>>
    BY <2>1 DEF SeekOn, store
  <2>5. QED
    BY <2>1, <2>2, <2>3, <2>4
<1>1. PICK h, f : h = op.h /\ f = fil[h]
  OBVIOUS
<1>2. CASE op.ofs <= 1
  <2>1. ~(op.ofs > 1)
    BY <1>0, <1>2
  <2>2. fil' = [fil EXCEPT ![h] = Arrived(@)] /\ pc' = "idle"
    BY <1>1, <2>1 DEF SeekOn, Finish
  <2>3. QED
    BY <1>0, <1>1, <2>2, ArrivedKeeping
<1>3. CASE op.ofs > 1 /\ f.write
  <2>1. CallCreateChain(h, f.clust, op.ofs, "seek_got") /\ UNCHANGED fil
    BY <1>0, <1>1, <1>3 DEF SeekOn
  <2>2. pc' = "create" /\ op'.h = h /\ op'.ret = "seek_got"
    BY <2>1 DEF CallCreateChain, NoOp
  <2>3. AtEnd => AtEnd'
    BY <1>1, <2>1, <2>2 DEF AtEnd, Seeking
  <2>4. fil' = [fil EXCEPT ![h] = f]
    BY <1>0, <1>1, <2>1
  <2>5. Unsaved(dir, f) => f.written \/ (h = op'.h /\ AtEnd')
    BY <1>0, <1>1, <2>2, <2>3 DEF Keeping, Kept
  <2>6. QED
    BY <1>0, <1>1, <2>2, <2>4, <2>5, FilKeeping DEF NewStart, AtEnd
<1>4. CASE op.ofs > 1 /\ ~f.write
  <2>1. PICK g : /\ fil' = [fil EXCEPT ![h] = g]
                 /\ g = Aborted(f) \/ \E c : g = OneFurther(f, c)
    <3>1. ~(op.ofs <= 1)
      BY <1>0, <1>4
    <3>2. \/ fil' = [fil EXCEPT ![h] = Aborted(f)]
          \/ \E c : fil' = [fil EXCEPT ![h] = OneFurther(f, c)]
      BY <1>0, <1>1, <1>4, <3>1 DEF SeekOn
    <3>3. QED
      BY <3>2
  <2>2. pc' \in {"idle", "seek"}
    BY <1>0, <1>1, <1>4 DEF SeekOn, Finish
  <2>3. g.open = f.open /\ g.slot = f.slot /\ g.sclust = f.sclust
    BY <1>0, <1>1, <2>1, AbortedFields, OneFurtherFields
  <2>4. ~Unsaved(dir, f)
    BY <1>0, <1>1, <1>4 DEF Heads, Agrees
  <2>5. ~Unsaved(dir, g)
    BY <2>3, <2>4 DEF Unsaved
  <2>6. QED
    BY <1>0, <1>1, <2>1, <2>2, <2>3, <2>5, FilKeeping DEF NewStart, AtEnd
<1>5. QED
  BY <1>0, <1>2, <1>3, <1>4

LEMMA SeekGotKeeping ==
    ASSUME Calm, KeptInv, SeekGot
    PROVE  Keeping'
<1>0. /\ op \in Op /\ fil \in [Handles -> Fil] /\ op.h \in Handles /\ Keeping
      /\ fil[op.h] \in Fil /\ op.res \in {"ok", "full"} /\ fil[op.h].sclust # 0
      /\ fil[op.h].fptr \in Nat /\ fil[op.h].fsize \in Nat
      /\ pc = "seek_got" /\ UNCHANGED <<fat, dir>>
  BY KeptTypes, FlushTypes
  DEF KeptInv, Flushed, SeekGot, Locals, Pending, RunHeads, Op, store
<1>1. PICK h, f : h = op.h /\ f = fil[h]
  OBVIOUS
<1>2. CASE op.res = "ok"
  <2>1. PICK g : g = OneFurther(f, op.ncl)
    OBVIOUS
  <2>2. fil' = [fil EXCEPT ![h] = g] /\ pc' = "seek" /\ op'.h = h
    BY <1>1, <1>2, <2>1 DEF SeekGot, NoOp
  <2>3. /\ g.open = f.open /\ g.slot = f.slot /\ g.sclust = f.sclust
        /\ g.fptr = f.fptr + 1 /\ g.fsize = f.fsize
    BY <1>0, <1>1, <2>1, OneFurtherFields
  <2>4. g.written = f.written
    BY <1>0, <1>1, <2>1 DEF OneFurther, Fil
  <2>5. fil'[h] = g
    BY <1>0, <1>1, <2>2
  <2>6. f.fptr >= f.fsize => AtEnd'
    BY <1>0, <1>1, <2>2, <2>3, <2>5 DEF AtEnd, Seeking
  <2>7. Unsaved(dir, g) => Unsaved(dir, f)
    BY <2>3 DEF Unsaved
  <2>8. Unsaved(dir, g) => g.written \/ (h = op'.h /\ AtEnd')
    BY <1>0, <1>1, <2>2, <2>4, <2>6, <2>7, SeekKept
  <2>9. QED
    BY <1>0, <1>1, <2>2, <2>3, <2>8, FilKeeping DEF NewStart, AtEnd
<1>3. CASE op.res = "full"
  <2>1. fil' = [fil EXCEPT ![h] = Arrived(@)] /\ pc' = "idle"
    BY <1>1, <1>3 DEF SeekGot, Finish
  <2>2. QED
    BY <1>0, <1>1, <2>1, ArrivedKeeping
<1>4. QED
  BY <1>0, <1>2, <1>3

LEMMA WriteStepKeeping ==
    ASSUME Calm, KeptInv, WriteStep
    PROVE  Keeping'
<1>1. ASSUME NEW h \in Handles, WriteStart(h) PROVE Keeping'
  <2>1. pc = "idle" /\ pc' \in {"write_got", "create"} /\ UNCHANGED <<fat, dir, fil>>
    BY <1>1 DEF WriteStart, Ready, CallCreateChain, store
  <2>2. QED
    BY <2>1, QuietKeeping, IdleIsQuiet DEF KeptInv
<1>2. QED
  BY <1>1, WriteGotKeeping, SeekStartKeeping, SeekFirstKeeping, SeekOnKeeping,
     SeekGotKeeping
  DEF WriteStep

-----------------------------------------------------------------------------
(* Every step, and the theorem.                                            *)

LEMMA KeptStep == Calm /\ KeptInv /\ [Next]_vars => KeptInv'
<1> SUFFICES ASSUME Calm, KeptInv, [Next]_vars PROVE KeptInv'
  OBVIOUS
<1>0. Keeping /\ CleanInv
  BY DEF KeptInv
<1>1. CleanInv'
  BY <1>0, CleanStep
<1>2. Keeping'
  <2>1. CASE UNCHANGED vars
    <3>1. Held'
      BY <1>0, <2>1, HeldOn DEF vars, Keeping, Starts, NewStart
    <3>2. \A h \in Handles : Kept(dir, h)'
      BY <1>0, <2>1 DEF vars, Keeping, Kept, Unsaved, AtEnd, Seeking
    <3>3. QED
      BY <1>0, <2>1, <3>1, <3>2 DEF vars, Keeping, Placed, Live
  <2>2. CASE Mount
    BY <1>0, <2>2, QuietKeeping, IdleIsQuiet DEF Mount, store
  <2>3. CASE Unmount
    <3>1. /\ pc = "idle" /\ pc' = "idle" /\ \A h \in Handles : ~fil[h].open
          /\ mounted /\ Flushed
          /\ fat' = dfat /\ dir' = ddir /\ fil' = [h \in Handles |-> ClosedFil]
      BY <2>3, KeptTypes DEF Unmount, Dismount, Finish
    <3>2. ~Lag
      BY <3>1, DueAtStart DEF Owed
    <3>3. dfat = fat /\ ddir = dir
      BY <3>2 DEF Lag, medium
    <3>4. \A h \in Handles : fil[h] = ClosedFil
      BY <3>1, KeptTypes DEF FilesFit, FitsEntry
    <3>5. fil' = fil
      BY <3>1, <3>4, KeptTypes
    <3>6. QED
      BY <1>0, <3>1, <3>3, <3>5, QuietKeeping, IdleIsQuiet
  <2>4. CASE PowerLoss
    BY <2>4 DEF PowerLoss, Calm
  <2>5. QED
    BY <2>1, <2>2, <2>3, <2>4, ChainStepKeeping, OpenStepKeeping,
       WriteStepKeeping, SyncStepKeeping, NameStepKeeping
    DEF Next
<1>3. QED
  BY <1>1, <1>2 DEF KeptInv

LEMMA KeptInitially == Init => KeptInv
<1> SUFFICES ASSUME Init PROVE KeptInv
  OBVIOUS
<1>1. /\ fat = [c \in Clusters |-> IF c \in Root THEN EOC ELSE 0]
      /\ dir = [i \in Slots |-> [name |-> End, sclust |-> 0, size |-> 0]]
      /\ fil = [h \in Handles |-> ClosedFil] /\ pc = "idle"
  BY DEF Init
<1>2. Held
  BY <1>1 DEF Held, Starts
<1>3. \A h \in Handles : Kept(dir, h)
  BY <1>1 DEF Kept, Unsaved, ClosedFil
<1>4. Placed
  BY <1>1, ClusterNumbers DEF Placed
<1>5. QED
  BY <1>2, <1>3, <1>4, CleanInitially DEF KeptInv, Keeping

(* Where nothing fails, every reachable state satisfies the fourth         *)
(* inductive invariant: every allocated cluster is on a chain whose start  *)
(* the directory, a FIL or the running function has.                       *)
THEOREM KeptInvariant == Calm => (Spec => []KeptInv)
<1> SUFFICES ASSUME Calm PROVE Spec => []KeptInv
  OBVIOUS
<1>1. KeptInv /\ [Next]_vars => KeptInv'
  BY KeptStep
<1>2. QED
  BY <1>1, KeptInitially, PTL DEF Spec

(* The clusters of a chain are found by following the links, ...           *)
LEMMA ChainFollows ==
    ASSUME NEW F, NEW s \in Clusters, Simple(F, s)
    PROVE  s \in Chain(F, s) /\ Follows(F, Chain(F, s))
<1>1. \A c : c \in Chain(F, s) <=> \E k : Walked(F, s, k, c)
  BY DEF Chain, Walked
<1>2. s \in Chain(F, s)
  BY <1>1, WalkedFirst
<1>3. ASSUME NEW c \in Chain(F, s), F[c] \in Clusters PROVE F[c] \in Chain(F, s)
  <2>1. PICK k : Walked(F, s, k, c)
    BY <1>1
  <2>2. k < n_fatent
    BY <2>1, WalkedShort
  <2>3. Walked(F, s, k + 1, F[c])
    BY <1>3, <2>1, <2>2, WalkedNext
  <2>4. QED
    BY <1>1, <2>3
<1>4. QED
  BY <1>2, <1>3 DEF Follows

(* ... and there are none where there is no start.                         *)
LEMMA ChainNone ==
    ASSUME NEW F
    PROVE  Chain(F, 0) = {}
<1>1. ASSUME NEW c \in Chain(F, 0) PROVE FALSE
  <2>1. PICK k : Walked(F, 0, k, c)
    BY DEF Chain, Walked
  <2>2. 0 \in 0 .. k
    BY <2>1, VolumeAssumption DEF Walked, VolumeAssumption
  <2>3. Walk(F, 0)[0] \in Clusters
    BY <2>1, <2>2, WalkedAll DEF Walked
  <2>4. QED
    BY <2>3, WalkSteps, ClusterNumbers
<1>2. QED
  BY <1>1

(* Between two functions every allocated cluster is in the chain of an     *)
(* entry or of an open FIL, so nothing that f_write and f_lseek take or    *)
(* f_unlink and f_open give back is lost.                                  *)
THEOREM NothingLost == Calm => (Spec => []NoLostCluster)
<1> SUFFICES ASSUME Calm PROVE Spec => []NoLostCluster
  OBVIOUS
<1>1. ASSUME KeptInv PROVE NoLostCluster
  <2>1. SUFFICES ASSUME pc = "idle"
                 PROVE  {c \in Clusters : fat[c] # 0} =
                          Root \cup (UNION {Chain(fat, dir[i].sclust) : i \in Slots})
                               \cup (UNION {Chain(fat, fil[h].sclust) : h \in Handles})
    BY DEF NoLostCluster
  <2>2. PICK R : R = Root \cup (UNION {Chain(fat, dir[i].sclust) : i \in Slots})
                          \cup (UNION {Chain(fat, fil[h].sclust) : h \in Handles})
    OBVIOUS
  <2>3. /\ ChainsInv /\ Tables(fat, dir) /\ Held /\ FilesFit
        /\ \A i \in Slots : dir[i].sclust \in {0} \cup Clusters
        /\ \A h \in Handles : fil[h].sclust \in {0} \cup Clusters
        /\ \A c \in Root : fat[c] = EOC /\ fat[c] # 0
    BY <1>1, <2>1, KeptTypes, PrunedIsDir, ClusterNumbers
    DEF KeptInv, Keeping, Placed, Owners
  <2> DEFINE Known(s) == \/ \E i \in Slots : dir[i].sclust = s
                         \/ \E h \in Handles : fil[h].sclust = s
  <2>4. ASSUME NEW s \in Clusters, Known(s)
        PROVE  fat[s] # 0 /\ s \notin Root /\ Simple(fat, s)
    <3>1. ASSUME NEW h \in Handles, fil[h].sclust = s PROVE fil[h].open
      BY <2>3, <2>4, <3>1, ClosedNoChain, ClusterNumbers
    <3>2. QED
      BY <2>1, <2>3, <2>4, <3>1, StartsApart
  <2>5. \A s \in {0} \cup Clusters : Known(s) =>
           s \in Chain(fat, s) \cup {0} /\ Follows(fat, Chain(fat, s))
    BY <2>4, ChainFollows, ChainNone DEF Follows
  <2>6. \A c : c \in R <=> \/ c \in Root
                           \/ \E s \in {0} \cup Clusters : Known(s) /\ c \in Chain(fat, s)
    <3>1. ASSUME NEW c
          PROVE  c \in R <=> \/ c \in Root
                             \/ \E i \in Slots : c \in Chain(fat, dir[i].sclust)
                             \/ \E h \in Handles : c \in Chain(fat, fil[h].sclust)
      BY <2>2
    <3>2. ASSUME NEW c
          PROVE  (\E s \in {0} \cup Clusters : Known(s) /\ c \in Chain(fat, s))
                    <=> \/ \E i \in Slots : c \in Chain(fat, dir[i].sclust)
                        \/ \E h \in Handles : c \in Chain(fat, fil[h].sclust)
      BY <2>3
    <3>3. QED
      BY <3>1, <3>2
  <2> HIDE DEF Known
  <2>7. R \in SUBSET Clusters
    BY <2>6, ClusterNumbers DEF Chain
  <2>8. Starts(R)
    <3>1. \A s \in {0} \cup Clusters : Known(s) => s \in R \cup {0}
      BY <2>5, <2>6
    <3>2. QED
      BY <2>1, <2>3, <2>6, <3>1 DEF Known, Starts, NewStart
  <2>9. Follows(fat, R)
    <3>1. ASSUME NEW c \in R, fat[c] \in Clusters PROVE fat[c] \in R
      <4>1. c \notin Root
        BY <2>3, <3>1, ClusterNumbers
      <4>2. PICK s \in {0} \cup Clusters : Known(s) /\ c \in Chain(fat, s)
        BY <2>6, <4>1
      <4>3. fat[c] \in Chain(fat, s)
        BY <2>5, <3>1, <4>2 DEF Follows
      <4>4. QED
        BY <2>6, <4>2, <4>3
    <3>2. QED
      BY <3>1 DEF Follows
  <2>10. \A c \in Clusters : fat[c] # 0 => c \in R
    BY <2>3, <2>7, <2>8, <2>9 DEF Held
  <2>11. ASSUME NEW c \in R PROVE fat[c] # 0
    <3>1. CASE c \in Root
      BY <2>3, <3>1
    <3>2. CASE c \notin Root
      <4>1. PICK s \in {0} \cup Clusters : Known(s) /\ c \in Chain(fat, s)
        BY <2>6, <3>2
      <4>2. s \in Clusters
        BY <4>1, ChainNone
      <4>3. fat[s] # 0 /\ s \notin Root
        BY <2>4, <4>1, <4>2
      <4>4. PICK k : Walked(fat, s, k, c)
        BY <4>1 DEF Chain, Walked
      <4>5. QED
        BY <2>3, <4>3, <4>4, WalkedFrom
    <3>3. QED
      BY <3>1, <3>2
  <2>12. QED
    BY <2>2, <2>7, <2>10, <2>11
<1>2. QED
  BY <1>1, KeptInvariant, PTL

=============================================================================
