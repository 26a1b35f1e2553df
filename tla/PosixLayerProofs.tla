---------------------------- MODULE PosixLayerProofs ----------------------------
(***************************************************************************)
(* The volume lock under the calls of fatfs.c, for every number of tasks,  *)
(* objects and mounts: the lock excludes, nothing is kept that no known    *)
(* way out forgot, the volume is mounted only under the lock, and no       *)
(* signal ends a function inside the file system.                          *)
(*                                                                         *)
(* Mutual exclusion is not inductive alone.  f_mount makes the lock free   *)
(* without holding it: that is harmless because a lock being created was   *)
(* destroyed first, by this task and no other, and is destroyed only when  *)
(* nobody holds it.                                                        *)
(***************************************************************************)
EXTENDS PosixLayer, TLAPS

(* One task between delete and create at a time, with a dead lock; a dead  *)
(* lock and a free one are held by nobody.                                 *)
CreateInv ==
    /\ \A t \in Tasks : task[t].pc = "create" => sobj = "dead"
    /\ \A s, t \in Tasks :
          task[s].pc = "create" /\ task[t].pc = "create" => s = t
    /\ sobj = "dead" => mutex.owner = Nobody
    /\ mutex.owner = Nobody => mutex.count = 0

(* unlock_fs keeps the lock for no result but the one of f_rename.         *)
LeaveInv == \A t \in Tasks :
    task[t].pc = "leave" /\ task[t].res \in KeepsLock
        => task[t].fn = "f_rename"

(* The delay mutex is set from the grant to the release.                   *)
DelayInv == \A t \in Tasks :
    task[t].pc \in {"status", "mounting", "body", "leave"} => t \in delayed

LockInv ==
    /\ LockTypeOK /\ MutualExclusion /\ LockBalance
    /\ CreateInv /\ LeaveInv /\ DelayInv

(* What a call does to the lock.                                           *)
LockStep(t) ==
    \/ FunctionStep(t)
    \/ \E res \in Results : Body(t, res)
    \/ \E o \in Objects \cup {NoObject} :
          \/ \E f \in ObjectFunctions : StartObject(t, f, o)
          \/ \E f \in PathFunctions : StartPath(t, f, o)
    \/ \E f \in {"f_mount", "f_unmount"} : StartMount(t, f)
    \/ Returned(t) \/ CloseAfterSync(t)
    \/ \E objects \in SUBSET Objects : Dies(t, objects)

-----------------------------------------------------------------------------
(* Every step of the calls is one of them, or leaves the lock alone.       *)
LEMMA CallsStepLock ==
    ASSUME TypeOK, [Next]_vars
    PROVE  (\E t \in Tasks : LockStep(t)) \/ Eject \/ UNCHANGED lockVars
<1>1. CASE UNCHANGED vars
  BY <1>1 DEF vars
<1>2. CASE Eject
  BY <1>2
<1>3. ASSUME NEW t \in Tasks, Step(t) \/ Call(t) \/ Killed(t)
      PROVE  LockStep(t)
  <2>1. CASE Step(t)
    <3>1. CASE FunctionStep(t)
      BY <3>1 DEF LockStep
    <3>2. CASE Served(t)
      BY <3>2 DEF Served, LockStep
    <3>3. CASE EndCall(t)
      BY <3>3 DEF EndCall, Return, LockStep
    <3>4. CASE CloseGoesOn(t)
      BY <3>4 DEF CloseGoesOn, LockStep
    <3>5. CASE SeekDone(t)
      BY <3>5 DEF SeekDone, LockStep
    <3>6. CASE Transfer(t)
      <4>1. job[t].obj \in Objects \cup {NoObject}
        BY DEF TypeOK
      <4>2. StartObject(t, "f_transfer", job[t].obj)
        BY <3>6 DEF Transfer
      <4>3. "f_transfer" \in ObjectFunctions
        BY DEF ObjectFunctions
      <4> QED
        BY <4>1, <4>2, <4>3 DEF LockStep
    <3> QED
      BY <2>1, <3>1, <3>2, <3>3, <3>4, <3>5, <3>6 DEF Step
  <2>2. CASE Call(t)
    <3>1. ASSUME NEW o \in Objects, Open(t, o)
          PROVE  LockStep(t)
      BY <3>1 DEF Open, LockStep, PathFunctions
    <3>2. ASSUME NEW o \in Objects, NEW call \in Transfers,
                 NEW loc \in 0 .. MaxLoc, Read(t, o, call, loc)
          PROVE  LockStep(t)
      BY <3>2 DEF Read, LockStep, ObjectFunctions
    <3>3. ASSUME NEW o \in Objects, NEW call \in {"fsync", "close", "closedir"},
                 OnObject(t, o, call)
          PROVE  LockStep(t)
      BY <3>3 DEF OnObject, LockStep, ObjectFunctions
    <3>4. ASSUME NEW call \in {"path", "direct"}, OnPath(t, call)
          PROVE  LockStep(t)
      BY <3>4 DEF OnPath, LockStep, PathFunctions
    <3>5. ASSUME Mount(t) \/ Unmount(t)
          PROVE  LockStep(t)
      BY <3>5 DEF Mount, Unmount, LockStep
    <3> QED
      BY <2>2, <3>1, <3>2, <3>3, <3>4, <3>5 DEF Call
  <2>3. CASE Killed(t)
    <3>1. {o \in Objects : user[o] = t} \in SUBSET Objects
      OBVIOUS
    <3> QED
      BY <2>3, <3>1 DEF Killed, LockStep
  <2> QED
    BY <1>3, <2>1, <2>2, <2>3
<1> QED
  BY <1>1, <1>2, <1>3 DEF Next

LEMMA LockInitInv == LockInit => LockInv
<1> SUFFICES ASSUME LockInit PROVE LockInv
  OBVIOUS
<1>1. Idle \in FunctionStates
  BY DEF Idle, FunctionStates, Places, Results, PathFunctions
<1>2. LockTypeOK
  BY <1>1, LockAssumption DEF LockInit, LockTypeOK, Free
<1>3. \A t \in Tasks : task[t].pc = "idle" /\ leaks[t] = 0
  BY DEF LockInit, Idle
<1>4. mutex.owner = Nobody /\ mutex.count = 0 /\ sobj = "live"
  BY DEF LockInit, Free
<1>5. MutualExclusion /\ LockBalance /\ CreateInv
  BY <1>3, <1>4, LockAssumption DEF MutualExclusion, LockBalance, CreateInv, Inside
<1>6. LeaveInv /\ DelayInv
  BY <1>3 DEF LeaveInv, DelayInv
<1> QED
  BY <1>2, <1>5, <1>6 DEF LockInv

-----------------------------------------------------------------------------
(* Moving one task.                                                        *)

Moved(t, pc, res) ==
    /\ task' \in [Tasks -> FunctionStates]
    /\ task'[t].pc = pc /\ task'[t].res = res
    /\ task'[t].fn = task[t].fn /\ task'[t].obj = task[t].obj
    /\ \A s \in Tasks : s # t => task'[s] = task[s]

LEMMA GotoMoves ==
    ASSUME LockTypeOK, NEW t \in Tasks, NEW pc \in Places, Goto(t, pc)
    PROVE  Moved(t, pc, task[t].res)
<1>1. [task[t] EXCEPT !.pc = pc] \in FunctionStates
  BY DEF LockTypeOK, FunctionStates
<1> QED
  BY <1>1 DEF Goto, Moved, LockTypeOK, FunctionStates

LEMMA GotoWithMoves ==
    ASSUME LockTypeOK, NEW t \in Tasks, NEW pc \in Places, NEW res \in Results,
           GotoWith(t, pc, res)
    PROVE  Moved(t, pc, res)
<1>1. [task[t] EXCEPT !.pc = pc, !.res = res] \in FunctionStates
  BY DEF LockTypeOK, FunctionStates
<1> QED
  BY <1>1 DEF GotoWith, Moved, LockTypeOK, FunctionStates

LEMMA TimedLockKeeps ==
    ASSUME LockInv, NEW t \in Tasks, TimedLock(t)
    PROVE  LockInv'
<1>1. LockTypeOK /\ MutualExclusion /\ LockBalance /\ CreateInv /\ LeaveInv /\ DelayInv
  BY DEF LockInv
<1>2. Moved(t, "granted", task[t].res)
  BY <1>1, GotoMoves DEF TimedLock, Places, Results, MayLock
<1>3. LockTypeOK'
  BY <1>1, <1>2 DEF TimedLock, LockTypeOK, Moved, MayLock
<1>4. MutualExclusion' /\ LockBalance'
  BY <1>1, <1>2, LockAssumption
     DEF TimedLock, LockTypeOK, MutualExclusion, LockBalance, CreateInv, Inside, Moved, MayLock
<1>5. CreateInv'
  BY <1>1, <1>2, LockAssumption
     DEF TimedLock, LockTypeOK, MutualExclusion, CreateInv, Inside, Moved, MayLock
<1>6. LeaveInv' /\ DelayInv'
  BY <1>1, <1>2 DEF TimedLock, LeaveInv, DelayInv, KeepsLock, Moved
<1> QED
  BY <1>3, <1>4, <1>5, <1>6 DEF LockInv

LEMMA TimedOutKeeps ==
    ASSUME LockInv, NEW t \in Tasks, TimedOut(t)
    PROVE  LockInv'
<1>1. LockTypeOK /\ MutualExclusion /\ LockBalance /\ CreateInv /\ LeaveInv /\ DelayInv
  BY DEF LockInv
<1>2. Moved(t, "done", "TIMEOUT")
  BY <1>1, GotoWithMoves DEF TimedOut, Places, Results
<1>3. LockTypeOK'
  BY <1>1, <1>2 DEF TimedOut, LockTypeOK, Moved
<1>4. MutualExclusion' /\ LockBalance'
  BY <1>1, <1>2, LockAssumption
     DEF TimedOut, LockTypeOK, MutualExclusion, LockBalance, CreateInv, Inside, Moved
<1>5. CreateInv'
  BY <1>1, <1>2, LockAssumption
     DEF TimedOut, LockTypeOK, MutualExclusion, CreateInv, Inside, Moved
<1>6. LeaveInv' /\ DelayInv'
  BY <1>1, <1>2 DEF TimedOut, LeaveInv, DelayInv, KeepsLock, Moved
<1> QED
  BY <1>3, <1>4, <1>5, <1>6 DEF LockInv

LEMMA SetDelayKeeps ==
    ASSUME LockInv, NEW t \in Tasks, SetDelay(t)
    PROVE  LockInv'
<1>1. LockTypeOK /\ MutualExclusion /\ LockBalance /\ CreateInv /\ LeaveInv /\ DelayInv
  BY DEF LockInv
<1>2. Moved(t, "status", task[t].res)
  BY <1>1, GotoMoves DEF SetDelay, Places, Results
<1>3. LockTypeOK'
  BY <1>1, <1>2 DEF SetDelay, LockTypeOK, Moved
<1>4. MutualExclusion' /\ LockBalance'
  BY <1>1, <1>2, LockAssumption
     DEF SetDelay, LockTypeOK, MutualExclusion, LockBalance, CreateInv, Inside, Moved
<1>5. CreateInv'
  BY <1>1, <1>2, LockAssumption
     DEF SetDelay, LockTypeOK, MutualExclusion, CreateInv, Inside, Moved
<1>6. LeaveInv' /\ DelayInv'
  BY <1>1, <1>2 DEF SetDelay, LeaveInv, DelayInv, KeepsLock, Moved
<1> QED
  BY <1>3, <1>4, <1>5, <1>6 DEF LockInv

LEMMA StatusObjectKeeps ==
    ASSUME LockInv, NEW t \in Tasks, StatusObject(t)
    PROVE  LockInv'
<1>1. LockTypeOK /\ MutualExclusion /\ LockBalance /\ CreateInv /\ LeaveInv /\ DelayInv
  BY DEF LockInv
<1>2. \/ Moved(t, "body", task[t].res) /\ leaks' = leaks
      \/ Moved(t, "leave", "NOT_READY") /\ leaks' = leaks
      \/ Moved(t, "done", "NOT_READY") /\ leaks' = [leaks EXCEPT ![t] = @ + 1]
  <2>1. CASE ready /\ Goto(t, "body") /\ UNCHANGED leaks
    <3>1. Moved(t, "body", task[t].res)
      BY <1>1, <2>1, GotoMoves DEF Places
    <3> QED
      BY <2>1, <3>1
  <2>2. CASE GotoWith(t, "leave", "NOT_READY") /\ UNCHANGED leaks
    <3>1. Moved(t, "leave", "NOT_READY")
      BY <1>1, <2>2, GotoWithMoves DEF Places, Results
    <3> QED
      BY <2>2, <3>1
  <2>3. CASE GotoWith(t, "done", "NOT_READY") /\ leaks' = [leaks EXCEPT ![t] = @ + 1]
    <3>1. Moved(t, "done", "NOT_READY")
      BY <1>1, <2>3, GotoWithMoves DEF Places, Results
    <3> QED
      BY <2>3, <3>1
  <2> QED
    BY <2>1, <2>2, <2>3 DEF StatusObject
<1>3. LockTypeOK'
  BY <1>1, <1>2 DEF StatusObject, LockTypeOK, Moved
<1>4. MutualExclusion' /\ LockBalance'
  BY <1>1, <1>2, LockAssumption
     DEF StatusObject, LockTypeOK, MutualExclusion, LockBalance, CreateInv, Inside, Moved
<1>5. CreateInv'
  BY <1>1, <1>2, LockAssumption
     DEF StatusObject, LockTypeOK, MutualExclusion, CreateInv, Inside, Moved
<1>6. LeaveInv' /\ DelayInv'
  BY <1>1, <1>2 DEF StatusObject, LeaveInv, DelayInv, KeepsLock, Moved
<1> QED
  BY <1>3, <1>4, <1>5, <1>6 DEF LockInv

LEMMA StatusPathKeeps ==
    ASSUME LockInv, NEW t \in Tasks, StatusPath(t)
    PROVE  LockInv'
<1>1. LockTypeOK /\ MutualExclusion /\ LockBalance /\ CreateInv /\ LeaveInv /\ DelayInv
  BY DEF LockInv
<1>2. \/ Moved(t, "body", task[t].res)
      \/ Moved(t, "mounting", task[t].res)
  BY <1>1, GotoMoves DEF StatusPath, Places, Results
<1>3. LockTypeOK'
  BY <1>1, <1>2 DEF StatusPath, LockTypeOK, Moved
<1>4. MutualExclusion' /\ LockBalance'
  BY <1>1, <1>2, LockAssumption
     DEF StatusPath, LockTypeOK, MutualExclusion, LockBalance, CreateInv, Inside, Moved
<1>5. CreateInv'
  BY <1>1, <1>2, LockAssumption
     DEF StatusPath, LockTypeOK, MutualExclusion, CreateInv, Inside, Moved
<1>6. LeaveInv' /\ DelayInv'
  BY <1>1, <1>2 DEF StatusPath, LeaveInv, DelayInv, KeepsLock, Moved
<1> QED
  BY <1>3, <1>4, <1>5, <1>6 DEF LockInv

LEMMA MountingKeeps ==
    ASSUME LockInv, NEW t \in Tasks, Mounting(t)
    PROVE  LockInv'
<1>1. LockTypeOK /\ MutualExclusion /\ LockBalance /\ CreateInv /\ LeaveInv /\ DelayInv
  BY DEF LockInv
<1>2. \/ Moved(t, "body", task[t].res)
      \/ Moved(t, "leave", "NOT_READY")
      \/ Moved(t, "leave", "ERROR")
  BY <1>1, GotoMoves, GotoWithMoves DEF Mounting, Places, Results
<1>3. LockTypeOK'
  <2>1. id' \in 1 .. MaxMounts
    <3>1. id \in 1 .. MaxMounts /\ MaxMounts \in Nat
      BY <1>1, LockAssumption DEF LockTypeOK
    <3>2. id' = id \/ (id < MaxMounts /\ id' = id + 1)
      BY DEF Mounting
    <3> QED
      BY <3>1, <3>2
  <2>2. fs_type' \in BOOLEAN /\ ready' \in BOOLEAN
    BY <1>1 DEF Mounting, LockTypeOK
  <2>3. UNCHANGED <<mutex, sobj, delayed, fil, leaks>>
    BY DEF Mounting
  <2> QED
    BY <1>1, <1>2, <2>1, <2>2, <2>3 DEF LockTypeOK, Moved
<1>4. MutualExclusion' /\ LockBalance'
  BY <1>1, <1>2, LockAssumption
     DEF Mounting, LockTypeOK, MutualExclusion, LockBalance, CreateInv, Inside, Moved
<1>5. CreateInv'
  BY <1>1, <1>2, LockAssumption
     DEF Mounting, LockTypeOK, MutualExclusion, CreateInv, Inside, Moved
<1>6. LeaveInv' /\ DelayInv'
  BY <1>1, <1>2 DEF Mounting, LeaveInv, DelayInv, KeepsLock, Moved
<1> QED
  BY <1>3, <1>4, <1>5, <1>6 DEF LockInv

LEMMA LeaveKeeps ==
    ASSUME LockInv, NEW t \in Tasks, Leave(t)
    PROVE  LockInv'
<1>1. LockTypeOK /\ MutualExclusion /\ LockBalance /\ CreateInv /\ LeaveInv /\ DelayInv
  BY DEF LockInv
<1>2. \/ /\ Moved(t, "done", task[t].res) /\ delayed' = delayed
         /\ leaks' = [leaks EXCEPT ![t] = @ + 1]
      \/ /\ Moved(t, "unlock", task[t].res) /\ delayed' = delayed \ {t}
         /\ leaks' = leaks
  BY <1>1, GotoMoves DEF Leave, Places, Results, LeaveInv
<1>3. LockTypeOK'
  BY <1>1, <1>2 DEF Leave, LockTypeOK, Moved
<1>4. MutualExclusion' /\ LockBalance'
  BY <1>1, <1>2, LockAssumption
     DEF Leave, LockTypeOK, MutualExclusion, LockBalance, CreateInv, Inside, Moved
<1>5. CreateInv'
  BY <1>1, <1>2, LockAssumption
     DEF Leave, LockTypeOK, MutualExclusion, CreateInv, Inside, Moved
<1>6. LeaveInv' /\ DelayInv'
  BY <1>1, <1>2 DEF Leave, LeaveInv, DelayInv, KeepsLock, Moved
<1> QED
  BY <1>3, <1>4, <1>5, <1>6 DEF LockInv

LEMMA UnlockKeeps ==
    ASSUME LockInv, NEW t \in Tasks, Unlock(t)
    PROVE  LockInv'
<1>1. LockTypeOK /\ MutualExclusion /\ LockBalance /\ CreateInv /\ LeaveInv /\ DelayInv
  BY DEF LockInv
<1>2. Moved(t, "done", task[t].res)
  BY <1>1, GotoMoves DEF Unlock, Places, Results, Unlocked, Free
<1>3. LockTypeOK'
  BY <1>1, <1>2 DEF Unlock, LockTypeOK, Moved, Unlocked, Free, LockBalance, Inside
<1>4. MutualExclusion' /\ LockBalance'
  BY <1>1, <1>2, LockAssumption
     DEF Unlock, LockTypeOK, MutualExclusion, LockBalance, CreateInv, Inside, Moved, Unlocked, Free
<1>5. CreateInv'
  BY <1>1, <1>2, LockAssumption
     DEF Unlock, LockTypeOK, MutualExclusion, CreateInv, Inside, Moved, Unlocked, Free
<1>6. LeaveInv' /\ DelayInv'
  BY <1>1, <1>2 DEF Unlock, LeaveInv, DelayInv, KeepsLock, Moved
<1> QED
  BY <1>3, <1>4, <1>5, <1>6 DEF LockInv

LEMMA ValidateAgainKeeps ==
    ASSUME LockInv, NEW t \in Tasks, ValidateAgain(t)
    PROVE  LockInv'
<1>1. LockTypeOK /\ MutualExclusion /\ LockBalance /\ CreateInv /\ LeaveInv /\ DelayInv
  BY DEF LockInv
<1>2. \/ Moved(t, "enter", "OK")
      \/ Moved(t, "done", "INVALID_OBJECT")
  BY <1>1, GotoWithMoves DEF ValidateAgain, Places, Results, Entered
<1>3. LockTypeOK'
  BY <1>1, <1>2 DEF ValidateAgain, LockTypeOK, Moved, Entered
<1>4. MutualExclusion' /\ LockBalance'
  BY <1>1, <1>2, LockAssumption
     DEF ValidateAgain, LockTypeOK, MutualExclusion, LockBalance, CreateInv, Inside, Moved, Entered
<1>5. CreateInv'
  BY <1>1, <1>2, LockAssumption
     DEF ValidateAgain, LockTypeOK, MutualExclusion, CreateInv, Inside, Moved, Entered
<1>6. LeaveInv' /\ DelayInv'
  BY <1>1, <1>2 DEF ValidateAgain, LeaveInv, DelayInv, KeepsLock, Moved
<1> QED
  BY <1>3, <1>4, <1>5, <1>6 DEF LockInv

LEMMA DeleteLockKeeps ==
    ASSUME LockInv, NEW t \in Tasks, DeleteLock(t)
    PROVE  LockInv'
<1>1. LockTypeOK /\ MutualExclusion /\ LockBalance /\ CreateInv /\ LeaveInv /\ DelayInv
  BY DEF LockInv
<1>2. \/ /\ Moved(t, "create", task[t].res) /\ sobj = "live"
         /\ mutex.owner = Nobody /\ sobj' = "dead"
      \/ Moved(t, "done", "INT_ERR") /\ sobj' = sobj
  <2>1. CASE sobj = "live" /\ mutex.owner = Nobody
    <3>1. Goto(t, "create") /\ sobj' = "dead"
      BY <2>1 DEF DeleteLock
    <3>2. Moved(t, "create", task[t].res)
      BY <1>1, <3>1, GotoMoves DEF Places
    <3> QED
      BY <2>1, <3>1, <3>2
  <2>2. CASE ~(sobj = "live" /\ mutex.owner = Nobody)
    <3>1. GotoWith(t, "done", "INT_ERR") /\ sobj' = sobj
      BY <2>2 DEF DeleteLock
    <3> QED
      BY <1>1, <3>1, GotoWithMoves DEF Places, Results
  <2> QED
    BY <2>1, <2>2
<1>3. LockTypeOK'
  BY <1>1, <1>2 DEF DeleteLock, LockTypeOK, Moved
<1>4. MutualExclusion' /\ LockBalance'
  BY <1>1, <1>2, LockAssumption
     DEF DeleteLock, LockTypeOK, MutualExclusion, LockBalance, CreateInv, Inside, Moved
<1>5. CreateInv'
  BY <1>1, <1>2, LockAssumption
     DEF DeleteLock, LockTypeOK, MutualExclusion, CreateInv, Inside, Moved
<1>6. LeaveInv' /\ DelayInv'
  BY <1>1, <1>2 DEF DeleteLock, LeaveInv, DelayInv, KeepsLock, Moved
<1> QED
  BY <1>3, <1>4, <1>5, <1>6 DEF LockInv

LEMMA CreateLockKeeps ==
    ASSUME LockInv, NEW t \in Tasks, CreateLock(t)
    PROVE  LockInv'
<1>1. LockTypeOK /\ MutualExclusion /\ LockBalance /\ CreateInv /\ LeaveInv /\ DelayInv
  BY DEF LockInv
<1>2. \/ Moved(t, "done", "INT_ERR")
      \/ Moved(t, "enter", "OK")
      \/ Moved(t, "clear", "OK")
  BY <1>1, GotoMoves, GotoWithMoves DEF CreateLock, Places, Results, Free
<1>3. LockTypeOK'
  BY <1>1, <1>2 DEF CreateLock, LockTypeOK, Moved, Free
<1>4. MutualExclusion' /\ LockBalance'
  BY <1>1, <1>2, LockAssumption
     DEF CreateLock, LockTypeOK, MutualExclusion, LockBalance, CreateInv, Inside, Moved, Free
<1>5. CreateInv'
  BY <1>1, <1>2, LockAssumption
     DEF CreateLock, LockTypeOK, MutualExclusion, CreateInv, Inside, Moved, Free
<1>6. LeaveInv' /\ DelayInv'
  BY <1>1, <1>2 DEF CreateLock, LeaveInv, DelayInv, KeepsLock, Moved
<1> QED
  BY <1>3, <1>4, <1>5, <1>6 DEF LockInv

LEMMA ClearMountedKeeps ==
    ASSUME LockInv, NEW t \in Tasks, ClearMounted(t)
    PROVE  LockInv'
<1>1. LockTypeOK /\ MutualExclusion /\ LockBalance /\ CreateInv /\ LeaveInv /\ DelayInv
  BY DEF LockInv
<1>2. Moved(t, "done", task[t].res)
  BY <1>1, GotoMoves DEF ClearMounted, Places, Results
<1>3. LockTypeOK'
  BY <1>1, <1>2 DEF ClearMounted, LockTypeOK, Moved
<1>4. MutualExclusion' /\ LockBalance'
  BY <1>1, <1>2, LockAssumption
     DEF ClearMounted, LockTypeOK, MutualExclusion, LockBalance, CreateInv, Inside, Moved
<1>5. CreateInv'
  BY <1>1, <1>2, LockAssumption
     DEF ClearMounted, LockTypeOK, MutualExclusion, CreateInv, Inside, Moved
<1>6. LeaveInv' /\ DelayInv'
  BY <1>1, <1>2 DEF ClearMounted, LeaveInv, DelayInv, KeepsLock, Moved
<1> QED
  BY <1>3, <1>4, <1>5, <1>6 DEF LockInv

(* The body gives f_rename alone a result for which the lock is kept.      *)
LEMMA BodyKeeps ==
    ASSUME LockInv, NEW t \in Tasks, NEW res \in Results, Body(t, res)
    PROVE  LockInv'
<1>1. LockTypeOK /\ MutualExclusion /\ LockBalance /\ CreateInv /\ LeaveInv /\ DelayInv
  BY DEF LockInv
<1>2. Moved(t, "leave", res)
  BY <1>1, GotoWithMoves DEF Body, Places
<1>3. fil' \in [Objects -> [fs : BOOLEAN, id : 0 .. MaxMounts]]
  <2>1. id \in 0 .. MaxMounts
    BY <1>1, LockAssumption DEF LockTypeOK
  <2>2. \/ fil' = [fil EXCEPT ![task[t].obj] = [fs |-> TRUE, id |-> id]]
        \/ fil' = [fil EXCEPT ![task[t].obj].fs = FALSE]
        \/ fil' = fil
    BY DEF Body
  <2>3. fil \in [Objects -> [fs : BOOLEAN, id : 0 .. MaxMounts]]
    BY <1>1 DEF LockTypeOK
  <2>4. CASE fil' = [fil EXCEPT ![task[t].obj] = [fs |-> TRUE, id |-> id]]
    BY <2>1, <2>3, <2>4
  <2>5. CASE fil' = [fil EXCEPT ![task[t].obj].fs = FALSE]
    BY <2>3, <2>5
  <2> QED
    BY <2>2, <2>3, <2>4, <2>5
<1>4. UNCHANGED <<mutex, sobj, delayed, fs_type, id, ready, leaks>>
  BY DEF Body
<1>5. task[t].pc = "body" /\ res \in BodyResults(task[t].fn)
  BY DEF Body
<1>6. LockTypeOK'
  BY <1>1, <1>2, <1>3, <1>4 DEF LockTypeOK, Moved
<1>7. MutualExclusion' /\ LockBalance' /\ CreateInv'
  BY <1>1, <1>2, <1>4, <1>5
     DEF LockTypeOK, MutualExclusion, LockBalance, CreateInv, Inside, Moved
<1>8. LeaveInv'
  BY <1>1, <1>2, <1>5 DEF LeaveInv, Moved, BodyResults, KeepsLock
<1>9. DelayInv'
  BY <1>1, <1>2, <1>4, <1>5 DEF DelayInv, Moved
<1> QED
  BY <1>6, <1>7, <1>8, <1>9 DEF LockInv

(* A task that is outside before and after, with its leaks, changes        *)
(* nothing for the lock.                                                   *)
LEMMA OutsideKeeps ==
    ASSUME LockInv, NEW t \in Tasks, NEW e \in FunctionStates,
           task' = [task EXCEPT ![t] = e],
           task[t].pc \in {"idle", "done"},
           e.pc \in {"idle", "enter", "done", "again", "delete"},
           fil' \in [Objects -> [fs : BOOLEAN, id : 0 .. MaxMounts]],
           UNCHANGED <<mutex, sobj, delayed, fs_type, id, ready, leaks>>
    PROVE  LockInv'
<1>1. LockTypeOK /\ MutualExclusion /\ LockBalance /\ CreateInv /\ LeaveInv /\ DelayInv
  BY DEF LockInv
<1>2. LockTypeOK'
  BY <1>1 DEF LockTypeOK
<1>3. task'[t] = e /\ \A s \in Tasks : s # t => task'[s] = task[s]
  BY <1>1 DEF LockTypeOK
<1>4. MutualExclusion' /\ LockBalance' /\ CreateInv'
  BY <1>1, <1>3
     DEF LockTypeOK, MutualExclusion, LockBalance, CreateInv, Inside
<1>5. LeaveInv' /\ DelayInv'
  BY <1>1, <1>3 DEF LeaveInv, DelayInv
<1> QED
  BY <1>2, <1>4, <1>5 DEF LockInv

LEMMA StartObjectKeeps ==
    ASSUME LockInv, NEW t \in Tasks, NEW o \in Objects \cup {NoObject},
           NEW f \in ObjectFunctions, StartObject(t, f, o)
    PROVE  LockInv'
<1> DEFINE e == [pc |-> Entered(o).pc, fn |-> f, obj |-> o, res |-> Entered(o).res]
<1>1. /\ Entered(o).pc \in {"enter", "done"}
      /\ Entered(o).res \in {"OK", "INVALID_OBJECT"}
  BY DEF Entered
<1>2. e \in FunctionStates
  BY <1>1 DEF FunctionStates, Places, Results
<1>3. e.pc \in {"enter", "done"}
  BY <1>1
<1>4. /\ task' = [task EXCEPT ![t] = e] /\ task[t].pc = "idle"
      /\ fil' \in [Objects -> [fs : BOOLEAN, id : 0 .. MaxMounts]]
      /\ UNCHANGED <<mutex, sobj, delayed, fs_type, id, ready, leaks>>
  BY DEF StartObject, LockInv, LockTypeOK
<1> HIDE DEF e
<1> QED
  BY <1>2, <1>3, <1>4, OutsideKeeps

LEMMA StartPathKeeps ==
    ASSUME LockInv, NEW t \in Tasks, NEW o \in Objects \cup {NoObject},
           NEW f \in PathFunctions, StartPath(t, f, o)
    PROVE  LockInv'
<1> DEFINE e == [pc |-> "enter", fn |-> f, obj |-> o, res |-> "OK"]
<1>1. e \in FunctionStates /\ e.pc = "enter"
  BY DEF FunctionStates, Places, Results
<1>2. /\ task' = [task EXCEPT ![t] = e] /\ task[t].pc = "idle"
      /\ UNCHANGED <<mutex, sobj, delayed, fs_type, id, ready, leaks>>
  BY DEF StartPath
<1>3. fil' \in [Objects -> [fs : BOOLEAN, id : 0 .. MaxMounts]]
  BY DEF StartPath, LockInv, LockTypeOK
<1> HIDE DEF e
<1> QED
  BY <1>1, <1>2, <1>3, OutsideKeeps

LEMMA StartMountKeeps ==
    ASSUME LockInv, NEW t \in Tasks, NEW f \in {"f_mount", "f_unmount"},
           StartMount(t, f)
    PROVE  LockInv'
<1> DEFINE e == [task[t] EXCEPT !.pc = "delete", !.fn = f]
<1>1. e \in FunctionStates /\ e.pc = "delete"
  BY DEF FunctionStates, Places, LockInv, LockTypeOK
<1>2. /\ task' = [task EXCEPT ![t] = e] /\ task[t].pc = "idle"
      /\ fil' \in [Objects -> [fs : BOOLEAN, id : 0 .. MaxMounts]]
      /\ UNCHANGED <<mutex, sobj, delayed, fs_type, id, ready, leaks>>
  BY DEF StartMount, LockInv, LockTypeOK
<1> HIDE DEF e
<1> QED
  BY <1>1, <1>2, OutsideKeeps

LEMMA ReturnedKeeps ==
    ASSUME LockInv, NEW t \in Tasks, Returned(t) \/ CloseAfterSync(t)
    PROVE  LockInv'
<1> DEFINE e == IF task'[t].pc = "idle" THEN Idle
                ELSE [task[t] EXCEPT !.pc = "again", !.fn = "f_close"]
<1>1. Idle \in FunctionStates /\ Idle.pc = "idle"
  BY DEF Idle, FunctionStates, Places, Results, PathFunctions
<1>2. /\ [task[t] EXCEPT !.pc = "again", !.fn = "f_close"] \in FunctionStates
      /\ [task[t] EXCEPT !.pc = "again", !.fn = "f_close"].pc = "again"
  BY DEF FunctionStates, Places, ObjectFunctions, LockInv, LockTypeOK
<1>3. e \in FunctionStates /\ e.pc \in {"idle", "again"}
  BY <1>1, <1>2
<1>4. task' = [task EXCEPT ![t] = e]
  BY <1>1, <1>2 DEF Returned, CloseAfterSync, LockInv, LockTypeOK
<1>5. /\ task[t].pc = "done"
      /\ fil' \in [Objects -> [fs : BOOLEAN, id : 0 .. MaxMounts]]
      /\ UNCHANGED <<mutex, sobj, delayed, fs_type, id, ready, leaks>>
  BY DEF Returned, CloseAfterSync, LockInv, LockTypeOK
<1> HIDE DEF e
<1> QED
  BY <1>3, <1>4, <1>5, OutsideKeeps

(* ff_force_unlock: what a dying task holds becomes free.                  *)
LEMMA DiesKeeps ==
    ASSUME LockInv, NEW t \in Tasks, NEW objects \in SUBSET Objects,
           Dies(t, objects)
    PROVE  LockInv'
<1>1. LockTypeOK /\ MutualExclusion /\ LockBalance /\ CreateInv /\ LeaveInv /\ DelayInv
  BY DEF LockInv
<1>2. Idle \in FunctionStates /\ Idle.pc = "idle"
  BY DEF Idle, FunctionStates, Places, Results, PathFunctions
<1>3. /\ task' = [task EXCEPT ![t] = Idle] /\ leaks' = [leaks EXCEPT ![t] = 0]
      /\ delayed' = delayed \ {t}
      /\ UNCHANGED <<sobj, fs_type, id, ready>>
  BY DEF Dies
<1>4. \/ mutex.owner = t /\ mutex' = Free
      \/ mutex.owner # t /\ mutex' = mutex
  BY DEF Dies
<1>5. fil' \in [Objects -> [fs : BOOLEAN, id : 0 .. MaxMounts]]
  BY <1>1, LockAssumption DEF Dies, LockTypeOK
<1>6. LockTypeOK'
  BY <1>1, <1>2, <1>3, <1>4, <1>5 DEF LockTypeOK, Free
<1>7. task'[t].pc = "idle" /\ \A s \in Tasks : s # t => task'[s] = task[s]
  BY <1>1, <1>2, <1>3 DEF LockTypeOK
<1>8. leaks'[t] = 0 /\ \A s \in Tasks : s # t => leaks'[s] = leaks[s]
  BY <1>1, <1>3 DEF LockTypeOK
<1>9. MutualExclusion' /\ LockBalance' /\ CreateInv'
  BY <1>1, <1>3, <1>4, <1>7, <1>8, LockAssumption
     DEF LockTypeOK, MutualExclusion, LockBalance, CreateInv, Inside, Free
<1>10. LeaveInv' /\ DelayInv'
  BY <1>1, <1>3, <1>7 DEF LeaveInv, DelayInv
<1> QED
  BY <1>6, <1>9, <1>10 DEF LockInv

LEMMA EjectKeeps == LockInv /\ (Eject \/ UNCHANGED lockVars) => LockInv'
  BY DEF Eject, lockVars, LockInv, LockTypeOK, MutualExclusion, LockBalance,
     CreateInv, LeaveInv, DelayInv, Inside

LEMMA LockStepKeeps ==
    ASSUME LockInv, NEW t \in Tasks, LockStep(t)
    PROVE  LockInv'
<1>1. CASE FunctionStep(t)
  BY <1>1, TimedLockKeeps, TimedOutKeeps, SetDelayKeeps, StatusObjectKeeps,
     StatusPathKeeps, MountingKeeps, LeaveKeeps, UnlockKeeps,
     ValidateAgainKeeps, DeleteLockKeeps, CreateLockKeeps, ClearMountedKeeps
     DEF FunctionStep
<1>2. ASSUME NEW res \in Results, Body(t, res)
      PROVE  LockInv'
  BY <1>2, BodyKeeps
<1>3. ASSUME NEW o \in Objects \cup {NoObject}, NEW f \in ObjectFunctions,
             StartObject(t, f, o)
      PROVE  LockInv'
  BY <1>3, StartObjectKeeps
<1>4. ASSUME NEW o \in Objects \cup {NoObject}, NEW f \in PathFunctions,
             StartPath(t, f, o)
      PROVE  LockInv'
  BY <1>4, StartPathKeeps
<1>5. ASSUME NEW f \in {"f_mount", "f_unmount"}, StartMount(t, f)
      PROVE  LockInv'
  BY <1>5, StartMountKeeps
<1>6. CASE Returned(t) \/ CloseAfterSync(t)
  BY <1>6, ReturnedKeeps
<1>7. ASSUME NEW objects \in SUBSET Objects, Dies(t, objects)
      PROVE  LockInv'
  BY <1>7, DiesKeeps
<1> QED
  BY <1>1, <1>2, <1>3, <1>4, <1>5, <1>6, <1>7 DEF LockStep

-----------------------------------------------------------------------------
(* What a body makes of an object.                                         *)
LEMMA OutcomesTyped ==
    ASSUME NEW f \in Files, NEW fn, NEW call, NEW loc \in 0 .. MaxLoc, NEW res,
           NEW g \in Outcomes(f, fn, call, loc, res)
    PROVE  g \in Files
<1>1. /\ MaxLoc \in Nat /\ f.fptr \in 0 .. MaxLoc /\ f.fsize \in 0 .. MaxLoc
      /\ f.write \in BOOLEAN /\ f.err \in BOOLEAN
      /\ f = [fptr |-> f.fptr, fsize |-> f.fsize, write |-> f.write, err |-> f.err]
  BY PosixAssumption DEF Files
<1>2. CASE res # "OK"
  <2>1. g \in Failed(f, fn, call)
    BY <1>2 DEF Outcomes
  <2>2. g = f \/ g = Marked
    BY <2>1 DEF Failed
  <2>3. Marked \in Files
    BY <1>1 DEF Marked, Files
  <2> QED
    BY <2>2, <2>3
<1>3. CASE g \in Seeked(f, loc)
  <2>1. CASE loc <= f.fsize
    BY <1>1, <1>3, <2>1 DEF Seeked, Files
  <2>2. CASE ~(loc <= f.fsize) /\ f.write
    <3>1. PICK p \in f.fsize .. loc : g = [f EXCEPT !.fptr = p, !.fsize = p]
      BY <1>3, <2>2 DEF Seeked
    <3>2. p \in 0 .. MaxLoc
      BY <1>1
    <3>3. g = [fptr |-> p, fsize |-> p, write |-> f.write, err |-> f.err]
      BY <1>1, <3>1
    <3> QED
      BY <1>1, <3>2, <3>3 DEF Files
  <2>3. CASE ~(loc <= f.fsize) /\ ~f.write
    BY <1>1, <1>3, <2>3 DEF Seeked, Files
  <2> QED
    BY <2>1, <2>2, <2>3
<1>4. CASE g \in Transferred(f, call)
  <2>1. PICK p \in Ends(f, call) :
            g = [f EXCEPT !.fptr = p, !.fsize = IF p > @ THEN p ELSE @]
    BY <1>4 DEF Transferred
  <2>2. p \in 0 .. MaxLoc
    BY <1>1 DEF Ends
  <2> QED
    BY <1>1, <2>1, <2>2 DEF Files
<1> QED
  BY <1>2, <1>3, <1>4 DEF Outcomes

(* f_lseek of ff.c answers OK only at the place it was asked for, or       *)
(* before it at the end of the file.                                       *)
LEMMA SeekReaches ==
    ASSUME NEW f \in Files, NEW call, NEW loc \in 0 .. MaxLoc,
           NEW g \in Outcomes(f, "f_lseek", call, loc, "OK")
    PROVE  Reached(g, loc)
<1>1. /\ MaxLoc \in Nat /\ f.fptr \in 0 .. MaxLoc /\ f.fsize \in 0 .. MaxLoc
      /\ f = [fptr |-> f.fptr, fsize |-> f.fsize, write |-> f.write, err |-> f.err]
  BY PosixAssumption DEF Files
<1>2. g \in Seeked(f, loc)
  BY DEF Outcomes
<1>3. CASE loc <= f.fsize
  BY <1>1, <1>2, <1>3 DEF Seeked, Reached
<1>4. CASE ~(loc <= f.fsize) /\ f.write
  <2>1. PICK p \in f.fsize .. loc : g = [f EXCEPT !.fptr = p, !.fsize = p]
    BY <1>2, <1>4 DEF Seeked
  <2>2. g.fptr = p /\ g.fsize = p
    BY <1>1, <2>1
  <2> QED
    BY <1>1, <2>2 DEF Reached
<1>5. CASE ~(loc <= f.fsize) /\ ~f.write
  <2>1. g.fptr = f.fsize /\ g.fsize = f.fsize
    BY <1>1, <1>2, <1>5 DEF Seeked
  <2> QED
    BY <1>1, <1>5, <2>1 DEF Reached
<1> QED
  BY <1>3, <1>4, <1>5

(* A body changes no object but its own, and that as Outcomes says.        *)
LEMMA ServedIs ==
    ASSUME TypeOK, NEW t \in Tasks, Served(t)
    PROVE  \E res \in Results :
              /\ Body(t, res) /\ job' = job /\ user' = user
              /\ \/ /\ file' = file
                    /\ \/ task[t].fn \notin {"f_lseek", "f_transfer"}
                       \/ task[t].obj \notin Objects
                 \/ \E g \in Files :
                       /\ task[t].fn \in {"f_open", "f_lseek", "f_transfer"}
                       /\ file' = [file EXCEPT ![task[t].obj] = g]
                       /\ task[t].fn \in {"f_lseek", "f_transfer"} =>
                            g \in Outcomes(file[task[t].obj], task[t].fn,
                                          job[t].call, job[t].loc, res)
<1> DEFINE o == task[t].obj
           fn == task[t].fn
<1>1. PICK res \in Results :
        /\ Body(t, res) /\ job' = job /\ user' = user
        /\ CASE fn = "f_open" /\ res = "OK" ->
                  \E size \in 0 .. MaxLoc, write \in BOOLEAN :
                      file' = [file EXCEPT ![o] = Opened(size, write)]
             [] fn \in {"f_lseek", "f_transfer"} ->
                  \E g \in Outcomes(file[o], fn, job[t].call, job[t].loc, res) :
                      file' = [file EXCEPT ![o] = g]
             [] OTHER -> file' = file
  BY DEF Served
<1>2. CASE fn = "f_open" /\ res = "OK"
  <2>1. PICK size \in 0 .. MaxLoc, write \in BOOLEAN :
            file' = [file EXCEPT ![o] = Opened(size, write)]
    BY <1>1, <1>2
  <2>2. Opened(size, write) \in Files
    BY PosixAssumption DEF Opened, Files
  <2> QED
    BY <1>1, <1>2, <2>1, <2>2
<1>3. CASE fn \in {"f_lseek", "f_transfer"}
  <2>1. PICK g \in Outcomes(file[o], fn, job[t].call, job[t].loc, res) :
            file' = [file EXCEPT ![o] = g]
    BY <1>1, <1>3
  <2>2. CASE o \in Objects
    <3>1. g \in Files
      BY <2>1, <2>2, OutcomesTyped DEF TypeOK
    <3> QED
      BY <1>1, <1>3, <2>1, <3>1
  <2>3. CASE o \notin Objects
    <3>1. file' = file
      BY <2>1, <2>3 DEF TypeOK
    <3> QED
      BY <1>1, <2>3, <3>1
  <2> QED
    BY <2>2, <2>3
<1>4. CASE fn # "f_open" /\ fn \notin {"f_lseek", "f_transfer"}
  BY <1>1, <1>4
<1>5. CASE fn = "f_open" /\ res # "OK"
  BY <1>1, <1>5
<1> QED
  BY <1>2, <1>3, <1>4, <1>5

(* The calls' own types.                                                   *)
LEMMA CallsTyped ==
    ASSUME TypeOK, [Next]_vars
    PROVE  /\ job' \in [Tasks -> [call : Calls \cup {"none"}, loc : 0 .. MaxLoc,
                                  obj : Objects \cup {NoObject}]]
           /\ user' \in [Objects -> Tasks \cup {Nobody}]
           /\ file' \in [Objects -> Files]
<1> DEFINE Typed == /\ job' \in [Tasks -> [call : Calls \cup {"none"},
                                      loc : 0 .. MaxLoc,
                                      obj : Objects \cup {NoObject}]]
                    /\ user' \in [Objects -> Tasks \cup {Nobody}]
                    /\ file' \in [Objects -> Files]
<1>1. CASE UNCHANGED <<job, user, file>>
  BY <1>1 DEF TypeOK
<1>2. ASSUME NEW t \in Tasks, NEW call \in Calls, NEW loc \in 0 .. MaxLoc,
             NEW o \in Objects \cup {NoObject}, Calling(t, call, loc, o)
      PROVE  job' \in [Tasks -> [call : Calls \cup {"none"}, loc : 0 .. MaxLoc,
                                 obj : Objects \cup {NoObject}]]
  BY <1>2 DEF Calling, TypeOK
<1>3. ASSUME NEW t \in Tasks, Call(t) PROVE Typed
  <2>1. 0 \in 0 .. MaxLoc
    BY PosixAssumption
  <2>2. ASSUME NEW o \in Objects, Open(t, o) PROVE Typed
    BY <1>2, <2>1, <2>2 DEF Open, Calls, TypeOK
  <2>3. ASSUME NEW o \in Objects, NEW call \in Transfers, NEW loc \in 0 .. MaxLoc,
               Read(t, o, call, loc)
        PROVE  Typed
    BY <1>2, <2>3 DEF Read, Calls, TypeOK
  <2>4. ASSUME NEW o \in Objects, NEW call \in {"fsync", "close", "closedir"},
               OnObject(t, o, call)
        PROVE  Typed
    BY <1>2, <2>1, <2>4 DEF OnObject, Calls, TypeOK
  <2>5. ASSUME NEW call \in {"path", "direct"}, OnPath(t, call) PROVE Typed
    BY <1>2, <2>1, <2>5 DEF OnPath, Calls, TypeOK
  <2>6. ASSUME Mount(t) \/ Unmount(t) PROVE Typed
    BY <1>2, <2>1, <2>6 DEF Mount, Unmount, Calls, TypeOK
  <2> QED
    BY <1>3, <2>2, <2>3, <2>4, <2>5, <2>6 DEF Call
<1>4. ASSUME NEW t \in Tasks, Served(t) PROVE Typed
  <2>1. job' = job /\ user' = user
    BY <1>4 DEF Served
  <2>3. file' \in [Objects -> Files]
    BY <1>4, ServedIs DEF TypeOK
  <2> QED
    BY <2>1, <2>3 DEF TypeOK
<1>5. ASSUME NEW t \in Tasks, Return(t) PROVE Typed
  <2>1. NoJob \in [call : Calls \cup {"none"}, loc : 0 .. MaxLoc,
                   obj : Objects \cup {NoObject}]
    BY PosixAssumption DEF NoJob
  <2>2. Marked \in Files
    BY PosixAssumption DEF Marked, Files
  <2> QED
    BY <1>5, <2>1, <2>2 DEF Return, TypeOK
<1>6. ASSUME NEW t \in Tasks, Killed(t) PROVE Typed
  <2>1. NoJob \in [call : Calls \cup {"none"}, loc : 0 .. MaxLoc,
                   obj : Objects \cup {NoObject}]
    BY PosixAssumption DEF NoJob
  <2>2. Marked \in Files
    BY PosixAssumption DEF Marked, Files
  <2> QED
    BY <1>6, <2>1, <2>2 DEF Killed, TypeOK
<1>7. ASSUME NEW t \in Tasks, Step(t) PROVE Typed
  BY <1>1, <1>4, <1>5, <1>7
     DEF Step, EndCall, CloseGoesOn, SeekDone, Transfer
<1> QED
  BY <1>1, <1>3, <1>6, <1>7 DEF Next, vars

-----------------------------------------------------------------------------
(* The inductive invariant of the calls.                                   *)
LEMMA LockInvariant == Spec => [](LockInv /\ TypeOK)
<1>1. Init => LockInv /\ TypeOK
  <2> SUFFICES ASSUME Init PROVE LockInv /\ TypeOK
    OBVIOUS
  <2>1. LockInv
    BY LockInitInv DEF Init
  <2>2. NoJob \in [call : Calls \cup {"none"}, loc : 0 .. MaxLoc,
                   obj : Objects \cup {NoObject}]
    BY PosixAssumption DEF NoJob
  <2>3. Marked \in Files
    BY PosixAssumption DEF Marked, Files
  <2> QED
    BY <2>1, <2>2, <2>3 DEF Init, LockInv, TypeOK
<1>2. LockInv /\ TypeOK /\ [Next]_vars => LockInv' /\ TypeOK'
  <2> SUFFICES ASSUME LockInv, TypeOK, [Next]_vars PROVE LockInv' /\ TypeOK'
    OBVIOUS
  <2>1. LockInv'
    BY CallsStepLock, LockStepKeeps, EjectKeeps
  <2> QED
    BY <2>1, CallsTyped DEF LockInv, TypeOK
<1> QED
  BY <1>1, <1>2, PTL DEF Spec

(* Type correctness.                                                       *)
THEOREM PosixTyped == Spec => []TypeOK
<1> QED
  BY LockInvariant, PTL

(* Whoever is between ENTER_FF and LEAVE_FF (ff.c) holds a lock that       *)
(* exists, and as one holds it at a time, is there alone.                  *)
THEOREM LockExcludes == Spec => []MutualExclusion
<1>1. LockInv => MutualExclusion
  BY DEF LockInv
<1> QED
  BY <1>1, LockInvariant, PTL

(* The count of the mutex is one for the function under way and one for    *)
(* each known way out that forgets the lock.                               *)
THEOREM LockBalanced == Spec => []LockBalance
<1>1. LockInv => LockBalance
  BY DEF LockInv
<1> QED
  BY <1>1, LockInvariant, PTL

(* Only find_volume, under the lock, mounts and gives out a mount ID.      *)
THEOREM MountsUnderLock == Spec => MountedUnderLock
<1> DEFINE Mounts == id' # id \/ (fs_type' /\ ~fs_type)
           Holder == \E t \in Tasks : mutex.owner = t /\ Inside(t)
<1>1. LockInv /\ TypeOK /\ [Next]_vars => [Mounts => Holder]_lockVars
  <2> SUFFICES ASSUME LockInv, TypeOK, [Next]_vars, Mounts PROVE Holder
    OBVIOUS
  <2>1. \E t \in Tasks : Mounting(t)
    <3>1. ASSUME NEW t \in Tasks, LockStep(t) PROVE Mounting(t)
      BY <3>1
         DEF LockStep, FunctionStep, TimedLock, TimedOut, SetDelay,
             StatusObject, StatusPath, Leave, Unlock, ValidateAgain,
             DeleteLock, CreateLock, ClearMounted, Body, StartObject,
             StartPath, StartMount, Returned, CloseAfterSync, Dies
    <3> QED
      BY <3>1, CallsStepLock DEF Eject, lockVars
  <2> QED
    BY <2>1 DEF Mounting, LockInv, MutualExclusion, Inside
<1> QED
  BY <1>1, LockInvariant, PTL DEF Spec, MountedUnderLock

(* No signal ends a function in its body: ff_req_grant has set the delay   *)
(* mutex by then.                                                          *)
THEOREM BodiesSurvive == Spec => BodyNotKilled
<1> DEFINE Survive == \A t \in Tasks :
              task[t].pc \in {"mounting", "body"} => task'[t].pc # "idle"
<1>1. LockInv /\ TypeOK /\ [Next]_vars => [Survive]_lockVars
  <2> SUFFICES ASSUME LockInv, TypeOK, [Next]_vars, NEW t \in Tasks,
                      task[t].pc \in {"mounting", "body"}
               PROVE  task'[t].pc # "idle"
    OBVIOUS
  <2>1. t \in delayed /\ LockTypeOK
    BY DEF LockInv, DelayInv
  <2>2. ASSUME NEW s \in Tasks, s # t, LockStep(s) PROVE task'[t] = task[t]
    BY <2>1, <2>2
       DEF LockTypeOK, LockStep, FunctionStep, TimedLock, TimedOut, SetDelay,
           StatusObject, StatusPath, Mounting, Leave, Unlock, ValidateAgain,
           DeleteLock, CreateLock, ClearMounted, Body, StartObject,
           StartPath, StartMount, Returned, CloseAfterSync, Dies,
           Goto, GotoWith
  <2>3. CASE LockStep(t)
    <3>1. CASE Mounting(t)
      <4>1. \/ Goto(t, "body")
            \/ GotoWith(t, "leave", "NOT_READY") \/ GotoWith(t, "leave", "ERROR")
        BY <3>1 DEF Mounting
      <4> QED
        BY <2>1, <4>1, GotoMoves, GotoWithMoves DEF Places, Results, Moved
    <3>2. ASSUME NEW res \in Results, Body(t, res) PROVE task'[t].pc # "idle"
      BY <2>1, <3>2, GotoWithMoves DEF Body, Places, Moved
    <3> QED
      BY <2>1, <2>3, <3>1, <3>2
         DEF LockStep, FunctionStep, TimedLock, TimedOut, SetDelay,
             StatusObject, StatusPath, Leave, Unlock, ValidateAgain,
             DeleteLock, CreateLock, ClearMounted, StartObject,
             StartPath, StartMount, Returned, CloseAfterSync, Dies
  <2>4. CASE Eject \/ UNCHANGED lockVars
    BY <2>4 DEF Eject, lockVars
  <2> QED
    BY <2>2, <2>3, <2>4, CallsStepLock
<1> QED
  BY <1>1, LockInvariant, PTL DEF Spec, BodyNotKilled

-----------------------------------------------------------------------------
(* Handles.  Each call runs its own functions on its own object; of the    *)
(* object it knows that a failed f_open leaves it closed, a good f_close   *)
(* too, and where it is between the seek and the transfer.                 *)

After == {"leave", "unlock", "done"}
Before == {"enter", "granted", "status", "body"}
ObjectCalls == Transfers \cup {"open", "fsync", "close", "closedir"}

FunctionsOf(call) ==
    CASE call = "open" -> {"f_open"}
      [] call \in Transfers -> {"f_lseek", "f_transfer"}
      [] call = "fsync" -> {"f_sync"}
      [] call = "close" -> {"f_sync", "f_close"}
      [] call = "closedir" -> {"f_closedir"}
      [] call = "path" -> {"f_path"}
      [] call = "direct" -> {"f_rename"}
      [] OTHER -> {"f_mount", "f_unmount"}

PlaceInv(t) ==
    /\ task[t].pc \in {"delete", "create", "clear"}
          => task[t].fn \in {"f_mount", "f_unmount"}
    /\ task[t].pc = "mounting" => task[t].fn \notin ObjectFunctions
    /\ task[t].pc = "again" => task[t].fn = "f_close"

CallInv(t) ==
    /\ job[t].call = "none" => task[t].pc = "idle"
    /\ task[t].pc = "idle" => job[t].call \in Transfers \cup {"none"}
    /\ task[t].pc # "idle" => task[t].fn \in FunctionsOf(job[t].call)
    /\ job[t].call \in ObjectCalls <=> job[t].obj # NoObject
    /\ task[t].pc # "idle" /\ job[t].obj # NoObject => task[t].obj = job[t].obj
    /\ job[t].obj # NoObject => user[job[t].obj] = t

OpenInv(t) == job[t].call = "open" /\ fil[job[t].obj].fs =>
    task[t].pc \in After /\ task[t].res = "OK"

CloseInv(t) ==
    /\ job[t].call \in {"close", "closedir"}
    /\ task[t].fn \in {"f_close", "f_closedir"}
    /\ task[t].pc \in After /\ task[t].res = "OK"
    => ~fil[job[t].obj].fs

LocInv(t) ==
    /\ job[t].call \in Transfers
    /\ \/ task[t].pc = "idle"
       \/ task[t].fn = "f_transfer" /\ task[t].pc \in Before
       \/ task[t].fn = "f_lseek" /\ task[t].pc \in After /\ task[t].res = "OK"
    => Reached(file[job[t].obj], job[t].loc)

Handle(t) == PlaceInv(t) /\ CallInv(t) /\ OpenInv(t) /\ CloseInv(t) /\ LocInv(t)

HandleInv ==
    /\ \A t \in Tasks : Handle(t)
    /\ \A o \in Objects : fil[o].fs => user[o] # Nobody

(* A step of t leaves alone what others have.                              *)
OthersKeep(t) ==
    /\ \A s \in Tasks : s # t => task'[s] = task[s] /\ job'[s] = job[s]
    /\ \A o \in Objects : \A s \in Tasks : s # t /\ user[o] = s =>
          user'[o] = s /\ fil'[o] = fil[o] /\ file'[o] = file[o]

LEMMA OthersHandles ==
    ASSUME TypeOK, HandleInv, NEW t \in Tasks, OthersKeep(t),
           NEW s \in Tasks, s # t
    PROVE  Handle(s)'
<1>1. task'[s] = task[s] /\ job'[s] = job[s] /\ Handle(s)
  BY DEF OthersKeep, HandleInv
<1>2. CASE job[s].obj = NoObject
  BY <1>1, <1>2 DEF Handle, PlaceInv, CallInv, OpenInv, CloseInv, LocInv, ObjectCalls
<1>3. CASE job[s].obj # NoObject
  <2>1. job[s].obj \in Objects /\ user[job[s].obj] = s
    BY <1>1, <1>3 DEF Handle, CallInv, TypeOK
  <2>2. /\ user'[job[s].obj] = s /\ fil'[job[s].obj] = fil[job[s].obj]
        /\ file'[job[s].obj] = file[job[s].obj]
    BY <2>1 DEF OthersKeep
  <2> QED
    BY <1>1, <2>2 DEF Handle, PlaceInv, CallInv, OpenInv, CloseInv, LocInv
<1> QED
  BY <1>2, <1>3

(* A step inside a function: it ends well just where its body did.         *)
Inner(t, pc, res) ==
    /\ Moved(t, pc, res) /\ fil' = fil
    /\ task[t].pc # "idle" /\ pc # "idle"
    /\ pc \in After /\ res = "OK" =>
          \/ task[t].pc \in After /\ task[t].res = "OK"
          \/ task[t].fn \in {"f_mount", "f_unmount"}
    /\ task[t].pc \in After /\ task[t].res = "OK" => pc \in After /\ res = "OK"
    /\ pc \in Before /\ task[t].fn = "f_transfer" => task[t].pc \in Before
    /\ pc \in {"create", "clear"} => task[t].pc \in {"delete", "create"}
    /\ pc = "mounting" => task[t].fn \notin ObjectFunctions
    /\ pc \notin {"delete", "again"}

LEMMA FunctionStepInner ==
    ASSUME LockTypeOK, NEW t \in Tasks, PlaceInv(t), FunctionStep(t)
    PROVE  \E pc \in Places, res \in Results : Inner(t, pc, res)
<1>1. task[t].res \in Results
  BY DEF LockTypeOK, FunctionStates
<1>2. CASE TimedLock(t)
  <2>1. Moved(t, "granted", task[t].res)
    BY <1>2, GotoMoves DEF TimedLock, Places
  <2>2. Inner(t, "granted", task[t].res)
    BY <1>2, <2>1 DEF TimedLock, Inner, After, Before
  <2> QED
    BY <1>1, <2>2 DEF Places
<1>3. CASE TimedOut(t)
  <2>1. Moved(t, "done", "TIMEOUT")
    BY <1>3, GotoWithMoves DEF TimedOut, Places, Results
  <2>2. Inner(t, "done", "TIMEOUT")
    BY <1>3, <2>1 DEF TimedOut, Inner, After, Before
  <2> QED
    BY <2>2 DEF Places, Results
<1>4. CASE SetDelay(t)
  <2>1. Moved(t, "status", task[t].res)
    BY <1>4, GotoMoves DEF SetDelay, Places
  <2>2. Inner(t, "status", task[t].res)
    BY <1>4, <2>1 DEF SetDelay, Inner, After, Before
  <2> QED
    BY <1>1, <2>2 DEF Places
<1>5. CASE StatusObject(t)
  <2>1. CASE Goto(t, "body")
    <3>1. Moved(t, "body", task[t].res)
      BY <2>1, GotoMoves DEF Places
    <3>2. Inner(t, "body", task[t].res)
      BY <1>5, <3>1 DEF StatusObject, Inner, After, Before
    <3> QED
      BY <1>1, <3>2 DEF Places
  <2>2. ASSUME NEW pc \in {"leave", "done"}, GotoWith(t, pc, "NOT_READY")
        PROVE  \E p \in Places, r \in Results : Inner(t, p, r)
    <3>1. Moved(t, pc, "NOT_READY")
      BY <2>2, GotoWithMoves DEF Places, Results
    <3>2. Inner(t, pc, "NOT_READY")
      BY <1>5, <3>1 DEF StatusObject, Inner, After, Before
    <3> QED
      BY <3>2 DEF Places, Results
  <2> QED
    BY <1>5, <2>1, <2>2 DEF StatusObject
<1>6. CASE StatusPath(t)
  <2>1. PICK pc \in {"body", "mounting"} : Goto(t, pc)
    BY <1>6 DEF StatusPath
  <2>2. Moved(t, pc, task[t].res)
    BY <2>1, GotoMoves DEF Places
  <2>3. Inner(t, pc, task[t].res)
    BY <1>6, <2>2 DEF StatusPath, Inner, After, Before
  <2> QED
    BY <1>1, <2>3 DEF Places
<1>7. CASE Mounting(t)
  <2>1. CASE Goto(t, "body")
    <3>1. Moved(t, "body", task[t].res)
      BY <2>1, GotoMoves DEF Places
    <3>2. Inner(t, "body", task[t].res)
      BY <1>7, <3>1 DEF Mounting, Inner, After, Before, PlaceInv, ObjectFunctions
    <3> QED
      BY <1>1, <3>2 DEF Places
  <2>2. ASSUME NEW res \in {"NOT_READY", "ERROR"}, GotoWith(t, "leave", res)
        PROVE  \E p \in Places, r \in Results : Inner(t, p, r)
    <3>1. Moved(t, "leave", res)
      BY <2>2, GotoWithMoves DEF Places, Results
    <3>2. Inner(t, "leave", res)
      BY <1>7, <3>1 DEF Mounting, Inner, After, Before
    <3> QED
      BY <3>2 DEF Places, Results
  <2> QED
    BY <1>7, <2>1, <2>2 DEF Mounting
<1>8. CASE Leave(t)
  <2>1. PICK pc \in {"done", "unlock"} : Goto(t, pc)
    BY <1>8 DEF Leave
  <2>2. Moved(t, pc, task[t].res)
    BY <2>1, GotoMoves DEF Places
  <2>3. Inner(t, pc, task[t].res)
    BY <1>8, <2>2 DEF Leave, Inner, After, Before
  <2> QED
    BY <1>1, <2>3 DEF Places
<1>9. CASE Unlock(t) \/ ClearMounted(t)
  <2>1. Moved(t, "done", task[t].res)
    BY <1>9, GotoMoves DEF Unlock, ClearMounted, Places
  <2>2. Inner(t, "done", task[t].res)
    BY <1>9, <2>1 DEF Unlock, ClearMounted, PlaceInv, Inner, After, Before
  <2> QED
    BY <1>1, <2>2 DEF Places
<1>10. CASE ValidateAgain(t)
  <2>1. PICK pc \in {"enter", "done"}, res \in {"OK", "INVALID_OBJECT"} :
            GotoWith(t, pc, res) /\ (res = "OK" => pc = "enter")
    BY <1>10 DEF ValidateAgain, Entered
  <2>2. Moved(t, pc, res)
    BY <2>1, GotoWithMoves DEF Places, Results
  <2>3. Inner(t, pc, res)
    BY <1>10, <2>1, <2>2 DEF ValidateAgain, PlaceInv, Inner, After, Before
  <2> QED
    BY <2>3 DEF Places, Results
<1>11. CASE DeleteLock(t)
  <2>1. CASE Goto(t, "create")
    <3>1. Moved(t, "create", task[t].res)
      BY <2>1, GotoMoves DEF Places
    <3>2. Inner(t, "create", task[t].res)
      BY <1>11, <3>1 DEF DeleteLock, Inner, After, Before
    <3> QED
      BY <1>1, <3>2 DEF Places
  <2>2. CASE GotoWith(t, "done", "INT_ERR")
    <3>1. Moved(t, "done", "INT_ERR")
      BY <2>2, GotoWithMoves DEF Places, Results
    <3>2. Inner(t, "done", "INT_ERR")
      BY <1>11, <3>1 DEF DeleteLock, Inner, After, Before
    <3> QED
      BY <3>2 DEF Places, Results
  <2> QED
    BY <1>11, <2>1, <2>2 DEF DeleteLock
<1>12. CASE CreateLock(t)
  <2>1. PICK pc \in {"done", "enter", "clear"}, res \in {"INT_ERR", "OK"} :
            GotoWith(t, pc, res) /\ (res = "OK" => pc # "done")
    BY <1>12 DEF CreateLock
  <2>2. Moved(t, pc, res)
    BY <2>1, GotoWithMoves DEF Places, Results
  <2>3. Inner(t, pc, res)
    BY <1>12, <2>1, <2>2 DEF CreateLock, PlaceInv, Inner, After, Before
  <2> QED
    BY <2>3 DEF Places, Results
<1> QED
  BY <1>2, <1>3, <1>4, <1>5, <1>6, <1>7, <1>8, <1>9, <1>10, <1>11, <1>12
     DEF FunctionStep

(* A function goes on.                                                     *)
LEMMA FunctionKeepsHandles ==
    ASSUME TypeOK, HandleInv, NEW t \in Tasks, FunctionStep(t),
           UNCHANGED <<job, user, file>>
    PROVE  HandleInv'
<1>1. Handle(t) /\ LockTypeOK
  BY DEF HandleInv, TypeOK
<1>2. PICK pc \in Places, res \in Results : Inner(t, pc, res)
  BY <1>1, FunctionStepInner DEF Handle
<1>3. OthersKeep(t)
  BY <1>2 DEF OthersKeep, Inner, Moved
<1>4. PlaceInv(t)'
  BY <1>1, <1>2 DEF Handle, PlaceInv, Inner, Moved
<1>5. CallInv(t)'
  BY <1>1, <1>2 DEF Handle, CallInv, Inner, Moved
<1>6. OpenInv(t)' /\ CloseInv(t)'
  <2>1. job[t].call = "open" => task[t].fn = "f_open"
    BY <1>1, <1>2 DEF Handle, CallInv, FunctionsOf, Transfers, Inner
  <2>2. fil' = fil /\ job' = job /\ task'[t].fn = task[t].fn
    BY <1>2 DEF Inner, Moved
  <2>3. OpenInv(t)'
    BY <1>1, <1>2, <2>1, <2>2 DEF Handle, OpenInv, Inner, Moved, After
  <2>4. CloseInv(t)'
    BY <1>1, <1>2, <2>2 DEF Handle, CloseInv, Inner, Moved, After
  <2> QED
    BY <2>3, <2>4
<1>7. LocInv(t)'
  BY <1>1, <1>2 DEF Handle, LocInv, Inner, Moved, After, Before
<1>8. \A s \in Tasks : Handle(s)'
  BY <1>3, <1>4, <1>5, <1>6, <1>7, OthersHandles DEF Handle
<1> QED
  BY <1>2, <1>8 DEF HandleInv, Inner

(* The body of a function, on the object of the call.                      *)
LEMMA ServedKeepsHandles ==
    ASSUME TypeOK, HandleInv, NEW t \in Tasks, Served(t)
    PROVE  HandleInv'
<1>1. Handle(t) /\ LockTypeOK
  BY DEF HandleInv, TypeOK
<1>2. PICK res \in Results :
        /\ Body(t, res) /\ job' = job /\ user' = user
        /\ \/ /\ file' = file
              /\ \/ task[t].fn \notin {"f_lseek", "f_transfer"}
                 \/ task[t].obj \notin Objects
           \/ \E g \in Files :
                 /\ task[t].fn \in {"f_open", "f_lseek", "f_transfer"}
                 /\ file' = [file EXCEPT ![task[t].obj] = g]
                 /\ task[t].fn \in {"f_lseek", "f_transfer"} =>
                      g \in Outcomes(file[task[t].obj], task[t].fn,
                                    job[t].call, job[t].loc, res)
  BY ServedIs
<1>3. Moved(t, "leave", res) /\ task[t].pc = "body"
  BY <1>1, <1>2, GotoWithMoves DEF Body, Places
<1>4. job' = job /\ user' = user
  BY <1>2
<1>6. task[t].fn \in {"f_open", "f_lseek", "f_transfer", "f_close", "f_closedir"}
      => task[t].obj = job[t].obj /\ job[t].obj \in Objects /\ user[job[t].obj] = t
  BY <1>1, <1>3 DEF Handle, CallInv, FunctionsOf, ObjectCalls, TypeOK
<1>7. /\ task[t].fn \notin {"f_open", "f_close", "f_closedir"} => fil' = fil
      /\ \A o \in Objects : o # task[t].obj => fil'[o] = fil[o]
  BY <1>1, <1>2 DEF Body, LockTypeOK
<1>8. /\ task[t].fn \notin {"f_open", "f_lseek", "f_transfer"} => file' = file
      /\ \A o \in Objects : o # task[t].obj => file'[o] = file[o]
  BY <1>2 DEF TypeOK
<1>9. OthersKeep(t)
  BY <1>3, <1>4, <1>6, <1>7, <1>8 DEF OthersKeep, Moved
<1>10. PlaceInv(t)' /\ CallInv(t)'
  BY <1>1, <1>3, <1>4 DEF Handle, PlaceInv, CallInv, Moved
<1>11. OpenInv(t)'
  BY <1>1, <1>2, <1>3, <1>4, <1>6
     DEF Handle, OpenInv, CallInv, FunctionsOf, Moved, After, Body, LockTypeOK
<1>12. CloseInv(t)'
  BY <1>1, <1>2, <1>3, <1>4, <1>6
     DEF Handle, CloseInv, Moved, After, Body, LockTypeOK
<1>13. LocInv(t)'
  <2> SUFFICES ASSUME job[t].call \in Transfers, task[t].fn = "f_lseek", res = "OK"
               PROVE  Reached(file'[job[t].obj], job[t].loc)
    BY <1>3, <1>4 DEF LocInv, Moved, After, Before
  <2>1. job[t].loc \in 0 .. MaxLoc /\ job[t].obj \in Objects /\ task[t].obj = job[t].obj
    BY <1>6 DEF TypeOK
  <2>2. PICK g \in Files :
          /\ file' = [file EXCEPT ![job[t].obj] = g]
          /\ g \in Outcomes(file[job[t].obj], "f_lseek", job[t].call, job[t].loc, "OK")
    BY <1>2, <2>1
  <2>3. Reached(g, job[t].loc)
    BY <2>1, <2>2, SeekReaches DEF TypeOK
  <2> QED
    BY <2>1, <2>2, <2>3 DEF TypeOK
<1>14. \A o \in Objects : fil'[o].fs => user'[o] # Nobody
  <2> SUFFICES ASSUME NEW o \in Objects, fil'[o].fs PROVE user[o] # Nobody
    BY <1>4
  <2>1. CASE fil'[o] = fil[o]
    BY <2>1 DEF HandleInv
  <2>2. CASE fil'[o] # fil[o]
    BY <1>6, <1>7, <2>2, LockAssumption
  <2> QED
    BY <2>1, <2>2
<1> QED
  BY <1>9, <1>10, <1>11, <1>12, <1>13, <1>14, OthersHandles DEF HandleInv, Handle

(* A call begins.                                                          *)
LEMMA CallKeepsHandles ==
    ASSUME TypeOK, HandleInv, NEW t \in Tasks, Call(t)
    PROVE  HandleInv'
<1>1. Handle(t) /\ LockTypeOK
  BY DEF HandleInv, TypeOK
<1>2. ASSUME NEW o \in Objects, Open(t, o)
      PROVE  HandleInv'
  <2>1. /\ job' = [job EXCEPT ![t] = [call |-> "open", loc |-> 0, obj |-> o]]
        /\ task' = [task EXCEPT ![t] = [pc |-> "enter", fn |-> "f_open",
                                        obj |-> o, res |-> "OK"]]
        /\ user[o] = Nobody /\ user' = [user EXCEPT ![o] = t]
        /\ fil' = [fil EXCEPT ![o].fs = FALSE] /\ file' = file
    BY <1>2 DEF Open, Calling, StartPath
  <2>2. OthersKeep(t)
    BY <2>1, LockAssumption DEF OthersKeep, TypeOK, LockTypeOK
  <2>3. Handle(t)'
    BY <2>1, LockAssumption
       DEF Handle, PlaceInv, CallInv, OpenInv, CloseInv, LocInv, FunctionsOf,
           ObjectCalls, Transfers, ObjectFunctions, After, Before, TypeOK, LockTypeOK
  <2>4. \A p \in Objects : fil'[p].fs => user'[p] # Nobody
    BY <2>1, LockAssumption DEF HandleInv, TypeOK, LockTypeOK
  <2> QED
    BY <2>2, <2>3, <2>4, OthersHandles DEF HandleInv
<1>3. ASSUME NEW o \in Objects, NEW call \in Transfers, NEW loc \in 0 .. MaxLoc,
             Read(t, o, call, loc)
      PROVE  HandleInv'
  <2>1. PICK f \in {"f_lseek", "f_transfer"} :
            /\ job' = [job EXCEPT ![t] = [call |-> call, loc |-> loc, obj |-> o]]
            /\ task' = [task EXCEPT ![t] = [pc |-> Entered(o).pc, fn |-> f,
                                            obj |-> o, res |-> Entered(o).res]]
            /\ f = "f_transfer" => Reached(file[o], loc)
            /\ user[o] = t /\ user' = user /\ fil' = fil /\ file' = file
    BY <1>3 DEF Read, Seeks, Reached, Calling, StartObject
  <2>2. OthersKeep(t)
    BY <2>1 DEF OthersKeep, TypeOK, LockTypeOK
  <2>3. /\ Entered(o).pc \in {"enter", "done"}
        /\ Entered(o).pc = "done" => Entered(o).res # "OK"
    BY DEF Entered
  <2>4. Handle(t)'
    <3>1. /\ job'[t] = [call |-> call, loc |-> loc, obj |-> o]
          /\ task'[t].pc \in {"enter", "done"} /\ task'[t].fn = f
          /\ task'[t].obj = o /\ (task'[t].pc = "done" => task'[t].res # "OK")
      BY <2>1, <2>3 DEF TypeOK, LockTypeOK
    <3>2. o # NoObject
      BY LockAssumption
    <3> QED
      BY <2>1, <3>1, <3>2
         DEF Handle, PlaceInv, CallInv, OpenInv, CloseInv, LocInv, FunctionsOf,
             ObjectCalls, Transfers, After, Before
  <2> QED
    BY <2>1, <2>2, <2>4, OthersHandles DEF HandleInv
<1>4. ASSUME NEW o \in Objects, NEW call \in {"fsync", "close", "closedir"},
             OnObject(t, o, call)
      PROVE  HandleInv'
  <2>1. PICK f \in {"f_sync", "f_closedir"} :
            /\ job' = [job EXCEPT ![t] = [call |-> call, loc |-> 0, obj |-> o]]
            /\ task' = [task EXCEPT ![t] = [pc |-> Entered(o).pc, fn |-> f,
                                            obj |-> o, res |-> Entered(o).res]]
            /\ f = "f_closedir" <=> call = "closedir"
            /\ user[o] = t /\ user' = user /\ fil' = fil /\ file' = file
    BY <1>4 DEF OnObject, Calling, StartObject
  <2>2. OthersKeep(t)
    BY <2>1 DEF OthersKeep, TypeOK, LockTypeOK
  <2>3. /\ Entered(o).pc \in {"enter", "done"}
        /\ Entered(o).pc = "done" => Entered(o).res # "OK"
    BY DEF Entered
  <2>4. Handle(t)'
    <3>1. /\ job'[t] = [call |-> call, loc |-> 0, obj |-> o]
          /\ task'[t].pc \in {"enter", "done"} /\ task'[t].fn = f
          /\ task'[t].obj = o /\ (task'[t].pc = "done" => task'[t].res # "OK")
      BY <2>1, <2>3 DEF TypeOK, LockTypeOK
    <3>2. o # NoObject
      BY LockAssumption
    <3> QED
      BY <2>1, <3>1, <3>2
         DEF Handle, PlaceInv, CallInv, OpenInv, CloseInv, LocInv, FunctionsOf,
             ObjectCalls, Transfers, After, Before
  <2> QED
    BY <2>1, <2>2, <2>4, OthersHandles DEF HandleInv
<1>5. ASSUME NEW call \in {"path", "direct", "mount", "unmount"},
             Calling(t, call, 0, NoObject), UNCHANGED <<user, file, fil>>,
             \A s \in Tasks : s # t => task'[s] = task[s],
             task'[t].pc \in {"enter", "delete"},
             task'[t].fn \in FunctionsOf(call),
             task'[t].pc = "delete" => call \in {"mount", "unmount"}
      PROVE  HandleInv'
  <2>1. /\ job'[t] = [call |-> call, loc |-> 0, obj |-> NoObject]
        /\ \A s \in Tasks : s # t => job'[s] = job[s]
    BY <1>5 DEF Calling, TypeOK
  <2>2. OthersKeep(t)
    BY <1>5, <2>1 DEF OthersKeep
  <2>3. Handle(t)'
    BY <1>5, <2>1
       DEF Handle, PlaceInv, CallInv, OpenInv, CloseInv, LocInv, FunctionsOf,
           ObjectCalls, Transfers, After, Before
  <2> QED
    BY <1>5, <2>2, <2>3, OthersHandles DEF HandleInv
<1>6. ASSUME NEW call \in {"path", "direct"}, OnPath(t, call)
      PROVE  HandleInv'
  <2>1. PICK f \in FunctionsOf(call) : StartPath(t, f, NoObject) /\ f # "f_open"
    BY <1>6 DEF OnPath, FunctionsOf
  <2>2. /\ \A s \in Tasks : s # t => task'[s] = task[s]
        /\ task'[t].pc = "enter" /\ task'[t].fn = f /\ fil' = fil
    BY <1>1, <2>1 DEF StartPath, LockTypeOK
  <2>3. Calling(t, call, 0, NoObject) /\ user' = user /\ file' = file
    BY <1>6 DEF OnPath
  <2> QED
    BY <1>5, <2>1, <2>2, <2>3
<1>7. ASSUME NEW call \in {"mount", "unmount"}, Mount(t) \/ Unmount(t),
             Calling(t, call, 0, NoObject)
      PROVE  HandleInv'
  <2>1. PICK f \in {"f_mount", "f_unmount"} : StartMount(t, f)
    BY <1>7 DEF Mount, Unmount
  <2>2. /\ \A s \in Tasks : s # t => task'[s] = task[s]
        /\ task'[t].pc = "delete" /\ task'[t].fn = f /\ fil' = fil
    BY <1>1, <2>1 DEF StartMount, LockTypeOK, FunctionStates
  <2>3. user' = user /\ file' = file /\ f \in FunctionsOf(call)
    BY <1>7, <2>1 DEF Mount, Unmount, FunctionsOf, Transfers
  <2> QED
    BY <1>5, <1>7, <2>2, <2>3
<1>8. CASE Mount(t) \/ Unmount(t)
  BY <1>7, <1>8 DEF Mount, Unmount
<1> QED
  BY <1>2, <1>3, <1>4, <1>6, <1>8 DEF Call

(* A call ends, or goes on with its next function.                         *)
LEMMA EndKeepsHandles ==
    ASSUME TypeOK, HandleInv, NEW t \in Tasks, EndCall(t)
    PROVE  HandleInv'
<1>1. Handle(t) /\ LockTypeOK
  BY DEF HandleInv, TypeOK
<1>2. /\ task[t].pc = "done" /\ LastFunction(t)
      /\ task' = [task EXCEPT ![t] = Idle] /\ job' = [job EXCEPT ![t] = NoJob]
      /\ fil' = fil
  BY DEF EndCall, Return, Returned
<1>3. \/ user' = user /\ file' = file
      \/ /\ user' = [user EXCEPT ![job[t].obj] = Nobody]
         /\ file' = [file EXCEPT ![job[t].obj] = Marked]
         /\ (task[t].res = "OK") # (job[t].call = "open")
         /\ job[t].call \in {"open", "close", "closedir"}
  BY DEF EndCall, Return
<1>4. /\ task'[t].pc = "idle" /\ job'[t].call = "none" /\ job'[t].obj = NoObject
      /\ \A s \in Tasks : s # t => task'[s] = task[s] /\ job'[s] = job[s]
  BY <1>1, <1>2 DEF TypeOK, LockTypeOK, Idle, NoJob
<1>5. Handle(t)'
  BY <1>4
     DEF Handle, PlaceInv, CallInv, OpenInv, CloseInv, LocInv, ObjectCalls,
         Transfers, After
<1>6. OthersKeep(t)
  BY <1>1, <1>2, <1>3, <1>4
     DEF OthersKeep, Handle, CallInv, ObjectCalls, TypeOK
<1>7. \A o \in Objects : fil'[o].fs => user'[o] # Nobody
  <2>1. CASE user' = user
    BY <1>2, <2>1 DEF HandleInv
  <2>2. CASE /\ user' = [user EXCEPT ![job[t].obj] = Nobody]
             /\ (task[t].res = "OK") # (job[t].call = "open")
             /\ job[t].call \in {"open", "close", "closedir"}
    <3>1. CASE job[t].call = "open"
      <4>1. ~fil[job[t].obj].fs
        BY <1>1, <2>2, <3>1 DEF Handle, OpenInv
      <4> QED
        BY <1>2, <2>2, <4>1 DEF HandleInv, TypeOK
    <3>2. CASE job[t].call \in {"close", "closedir"}
      <4>1. task[t].res = "OK" /\ task[t].fn \in {"f_close", "f_closedir"}
        BY <1>1, <1>2, <2>2, <3>2
           DEF LastFunction, Handle, CallInv, FunctionsOf
      <4>2. ~fil[job[t].obj].fs
        BY <1>1, <1>2, <3>2, <4>1 DEF Handle, CloseInv, After
      <4> QED
        BY <1>2, <2>2, <4>2 DEF HandleInv, TypeOK
    <3> QED
      BY <2>2, <3>1, <3>2
  <2> QED
    BY <1>3, <2>1, <2>2
<1> QED
  BY <1>5, <1>6, <1>7, OthersHandles DEF HandleInv

LEMMA GoesOnKeepsHandles ==
    ASSUME TypeOK, HandleInv, NEW t \in Tasks,
           CloseGoesOn(t) \/ SeekDone(t) \/ Transfer(t)
    PROVE  HandleInv'
<1>1. Handle(t) /\ LockTypeOK
  BY DEF HandleInv, TypeOK
<1>2. /\ UNCHANGED <<job, user, file, fil>>
      /\ \A s \in Tasks : s # t => task'[s] = task[s]
  BY <1>1 DEF CloseGoesOn, SeekDone, Transfer, CloseAfterSync, Returned,
              StartObject, LockTypeOK
<1>3. OthersKeep(t)
  BY <1>2 DEF OthersKeep
<1>4. ASSUME CloseGoesOn(t) PROVE Handle(t)'
  <2>1. /\ task'[t].pc = "again" /\ task'[t].fn = "f_close"
        /\ task'[t].obj = task[t].obj /\ task[t].pc = "done"
        /\ job[t].call = "close"
    BY <1>1, <1>4 DEF CloseGoesOn, CloseAfterSync, LockTypeOK, FunctionStates
  <2> QED
    BY <1>1, <1>2, <2>1
       DEF Handle, PlaceInv, CallInv, OpenInv, CloseInv, LocInv, FunctionsOf,
           ObjectCalls, Transfers, After
<1>5. ASSUME SeekDone(t) PROVE Handle(t)'
  <2>1. /\ task'[t].pc = "idle" /\ task[t].pc = "done" /\ job[t].call \in Transfers
        /\ task[t].res = "OK" /\ task[t].fn = "f_lseek"
    BY <1>1, <1>5
       DEF SeekDone, Returned, LockTypeOK, Idle, LastFunction, Handle,
           CallInv, FunctionsOf, Transfers
  <2>2. Reached(file[job[t].obj], job[t].loc)
    BY <1>1, <2>1 DEF Handle, LocInv, After
  <2> QED
    BY <1>1, <1>2, <2>1, <2>2
       DEF Handle, PlaceInv, CallInv, OpenInv, CloseInv, LocInv, FunctionsOf,
           ObjectCalls, Transfers, After
<1>6. ASSUME Transfer(t) PROVE Handle(t)'
  <2>1. /\ task[t].pc = "idle" /\ job[t].call \in Transfers
        /\ task'[t].fn = "f_transfer" /\ task'[t].obj = job[t].obj
        /\ task'[t].pc \in {"enter", "done"}
    BY <1>1, <1>6 DEF Transfer, StartObject, Entered, LockTypeOK
  <2>2. Reached(file[job[t].obj], job[t].loc)
    BY <1>1, <2>1 DEF Handle, LocInv
  <2> QED
    BY <1>1, <1>2, <2>1, <2>2
       DEF Handle, PlaceInv, CallInv, OpenInv, CloseInv, LocInv, FunctionsOf,
           ObjectCalls, Transfers, After
<1>7. Handle(t)'
  BY <1>4, <1>5, <1>6
<1> QED
  BY <1>2, <1>3, <1>7, OthersHandles DEF HandleInv

(* A process dies with its calls; its objects are closed and free.         *)
LEMMA KilledKeepsHandles ==
    ASSUME TypeOK, HandleInv, NEW t \in Tasks, Killed(t)
    PROVE  HandleInv'
<1>1. Handle(t) /\ LockTypeOK
  BY DEF HandleInv, TypeOK
<1>2. /\ task' = [task EXCEPT ![t] = Idle] /\ job' = [job EXCEPT ![t] = NoJob]
      /\ user' = [o \in Objects |-> IF user[o] = t THEN Nobody ELSE user[o]]
      /\ fil' = [o \in Objects |-> IF o \in {p \in Objects : user[p] = t}
                                   THEN [fs |-> FALSE, id |-> 0] ELSE fil[o]]
      /\ file' = [o \in Objects |-> IF user[o] = t THEN Marked ELSE file[o]]
  BY DEF Killed, Dies
<1>3. /\ task'[t].pc = "idle" /\ job'[t].call = "none" /\ job'[t].obj = NoObject
      /\ \A s \in Tasks : s # t => task'[s] = task[s] /\ job'[s] = job[s]
  BY <1>1, <1>2 DEF TypeOK, LockTypeOK, Idle, NoJob
<1>4. Handle(t)'
  BY <1>3
     DEF Handle, PlaceInv, CallInv, OpenInv, CloseInv, LocInv, ObjectCalls,
         Transfers, After
<1>5. OthersKeep(t)
  BY <1>2, <1>3 DEF OthersKeep
<1>6. \A o \in Objects : fil'[o].fs => user'[o] # Nobody
  BY <1>2 DEF HandleInv
<1> QED
  BY <1>4, <1>5, <1>6, OthersHandles DEF HandleInv

LEMMA HandleInvariant == Spec => [](TypeOK /\ HandleInv)
<1>1. Init => HandleInv
  <2> SUFFICES ASSUME Init PROVE HandleInv
    OBVIOUS
  <2>1. \A t \in Tasks : /\ task[t].pc = "idle" /\ job[t].call = "none"
                         /\ job[t].obj = NoObject
    BY DEF Init, LockInit, Idle, NoJob
  <2>2. \A o \in Objects : ~fil[o].fs
    BY DEF Init, LockInit
  <2> QED
    BY <2>1, <2>2
       DEF HandleInv, Handle, PlaceInv, CallInv, OpenInv, CloseInv, LocInv,
           ObjectCalls, Transfers, After
<1>2. TypeOK /\ HandleInv /\ [Next]_vars => HandleInv'
  <2> SUFFICES ASSUME TypeOK, HandleInv, [Next]_vars PROVE HandleInv'
    OBVIOUS
  <2>1. ASSUME NEW t \in Tasks, Step(t) PROVE HandleInv'
    BY <2>1, FunctionKeepsHandles, ServedKeepsHandles, EndKeepsHandles,
       GoesOnKeepsHandles DEF Step
  <2>2. ASSUME NEW t \in Tasks, Call(t) \/ Killed(t) PROVE HandleInv'
    BY <2>2, CallKeepsHandles, KilledKeepsHandles
  <2>3. CASE UNCHANGED <<task, fil, job, user, file>>
    BY <2>3 DEF HandleInv, Handle, PlaceInv, CallInv, OpenInv, CloseInv, LocInv
  <2>4. CASE Eject /\ UNCHANGED <<job, user, file>>
    BY <2>3, <2>4 DEF Eject
  <2>5. CASE UNCHANGED vars
    BY <2>3, <2>5 DEF vars, lockVars
  <2> QED
    BY <2>1, <2>2, <2>4, <2>5 DEF Next
<1> QED
  BY <1>1, <1>2, PosixTyped, PTL DEF Spec

(* fatfs_read and fatfs_write (fatfs.c:422) transfer at the place they     *)
(* were asked for or, where f_lseek has clipped it, before it at the end   *)
(* of the file, and nowhere else, although the lock is free after the      *)
(* seek: the object is nobody else's.                                      *)
THEOREM TransferPlace == Spec => []TransfersAtLoc
<1>1. TypeOK /\ HandleInv => TransfersAtLoc
  <2> SUFFICES ASSUME TypeOK, HandleInv, NEW t \in Tasks,
                      task[t].pc = "body", task[t].fn = "f_transfer"
               PROVE  Reached(file[task[t].obj], job[t].loc)
    BY DEF TransfersAtLoc
  <2>1. Handle(t)
    BY DEF HandleInv
  <2>2. job[t].call \in Transfers /\ job[t].obj # NoObject
    <3>1. "f_transfer" \in FunctionsOf(job[t].call)
      BY <2>1 DEF Handle, CallInv
    <3>2. job[t].call \in Transfers
      BY <3>1 DEF FunctionsOf
    <3> QED
      BY <2>1, <3>2 DEF Handle, CallInv, ObjectCalls
  <2> QED
    BY <2>1, <2>2 DEF Handle, CallInv, LocInv, Before
<1> QED
  BY <1>1, HandleInvariant, PTL

(* fatfs_open and fatfs_close: no handle in use is freed, and no open      *)
(* object is without an owner.                                             *)
THEOREM HandleOwners == Spec => []HandlesOwned
<1>1. HandleInv => HandlesOwned
  BY DEF HandleInv, Handle, CallInv, HandlesOwned
<1> QED
  BY <1>1, HandleInvariant, PTL

=============================================================================
