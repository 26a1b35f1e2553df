------------------------------ MODULE VolumeLock ------------------------------
(***************************************************************************)
(* The lock that makes file functions exclude one another on a volume:     *)
(* ENTER_FF and LEAVE_FF of src/src/ff.c over src/src/option/syscall.c,    *)
(* the two ways in (validate for open objects, find_volume for paths), and *)
(* f_mount, which replaces the lock without holding it.                    *)
(*                                                                         *)
(* A file function is: an unlocked test of its object, the wait for the    *)
(* mutex, the test of the drive, the body, and leaving.  What a body does  *)
(* to files is left out.  The mutex (external: pthread) is recursive.      *)
(* While a task's delay mutex is set (external: the scheduler) no signal   *)
(* can kill it.                                                            *)
(***************************************************************************)
EXTENDS Integers

CONSTANTS
    Tasks,
    Objects,        \* open files and directories
    Nobody,         \* not a task
    NoObject,       \* the object of a function that has none
    MaxMounts,      \* bound: mount IDs given out
    MaxLeaks,       \* bound: functions of a task that left with the lock
    Faults          \* "eject", "kill", "create"

ASSUME LockAssumption ==
    /\ Nobody \notin Tasks /\ NoObject \notin Objects
    /\ MaxMounts \in Nat \ {0} /\ MaxLeaks \in Nat
    /\ Faults \subseteq {"eject", "kill", "create"}

VARIABLES
    mutex,      \* fatfs_lock_mutex[vol]: [owner, count]
    sobj,       \* that mutex is "live" or "dead" (destroyed, not created)
    delayed,    \* the tasks whose delay mutex is set
    fs_type,    \* the volume is mounted
    id,         \* fs->id
    ready,      \* disk_status: the drive is initialized
    fil,        \* objects: do they point to the volume, with which mount ID
    task,       \* each task's function: [pc, fn, obj, res]
    leaks       \* history: known ways out with the lock, taken by each task

lockVars == <<mutex, sobj, delayed, fs_type, id, ready, fil, task, leaks>>

(* f_read and f_write, f_truncate, f_readdir enter and leave alike.        *)
ObjectFunctions == {"f_transfer", "f_lseek", "f_sync", "f_close",
                    "f_closedir"}
(* f_unlink, f_mkdir, f_stat, f_getfree, f_chmod, f_utime do.              *)
PathFunctions == {"f_open", "f_path", "f_rename"}

Results == {"OK", "ERROR", "NOT_READY", "INVALID_OBJECT", "INVALID_DRIVE",
            "TIMEOUT", "INT_ERR"}

Places == {"idle", "enter", "granted", "status", "mounting", "body", "leave",
           "unlock", "again", "delete", "create", "clear", "done"}

FunctionStates ==
    [pc : Places, res : Results, obj : Objects \cup {NoObject},
     fn : ObjectFunctions \cup PathFunctions \cup {"f_mount", "f_unmount"}]

LockTypeOK ==
    /\ mutex \in [owner : Tasks \cup {Nobody}, count : Nat]
    /\ sobj \in {"live", "dead"}
    /\ delayed \subseteq Tasks
    /\ fs_type \in BOOLEAN /\ ready \in BOOLEAN
    /\ id \in 1 .. MaxMounts
    /\ fil \in [Objects -> [fs : BOOLEAN, id : 0 .. MaxMounts]]
    /\ task \in [Tasks -> FunctionStates]
    /\ leaks \in [Tasks -> Nat]

Free == [owner |-> Nobody, count |-> 0]
Idle == [pc |-> "idle", fn |-> "f_path", obj |-> NoObject, res |-> "OK"]

(* After the mount at start-up.                                            *)
LockInit ==
    /\ mutex = Free /\ sobj = "live" /\ delayed = {}
    /\ fs_type = TRUE /\ id = 1 /\ ready = TRUE
    /\ fil = [o \in Objects |-> [fs |-> FALSE, id |-> 0]]
    /\ task = [t \in Tasks |-> Idle]
    /\ leaks = [t \in Tasks |-> 0]

Goto(t, pc) == task' = [task EXCEPT ![t].pc = pc]
GotoWith(t, pc, res) == task' = [task EXCEPT ![t].pc = pc, ![t].res = res]

-----------------------------------------------------------------------------
(* validate, before the lock; f_close calls it again after f_sync.         *)

Valid(o) == fil[o].fs /\ fs_type /\ fil[o].id = id

Entered(o) == IF Valid(o) THEN [pc |-> "enter", res |-> "OK"]
                          ELSE [pc |-> "done", res |-> "INVALID_OBJECT"]

StartObject(t, f, o) ==
    /\ task[t].pc = "idle"
    /\ f \in ObjectFunctions
    /\ leaks[t] < MaxLeaks
    /\ task' = [task EXCEPT ![t] = [pc |-> Entered(o).pc, fn |-> f, obj |-> o,
                                    res |-> Entered(o).res]]
    /\ UNCHANGED <<mutex, sobj, delayed, fs_type, id, ready, fil, leaks>>

(* f_open clears its object before anything else.                          *)
StartPath(t, f, o) ==
    /\ task[t].pc = "idle"
    /\ f \in PathFunctions
    /\ (o = NoObject) = (f # "f_open")
    /\ leaks[t] < MaxLeaks
    /\ task' = [task EXCEPT ![t] = [pc |-> "enter", fn |-> f, obj |-> o,
                                    res |-> "OK"]]
    /\ fil' = IF f = "f_open" THEN [fil EXCEPT ![o].fs = FALSE] ELSE fil
    /\ UNCHANGED <<mutex, sobj, delayed, fs_type, id, ready, leaks>>

ValidateAgain(t) ==
    /\ task[t].pc = "again"
    /\ GotoWith(t, Entered(task[t].obj).pc, Entered(task[t].obj).res)
    /\ UNCHANGED <<mutex, sobj, delayed, fs_type, id, ready, fil, leaks>>

-----------------------------------------------------------------------------
(* ff_req_grant: pthread_mutex_timedlock, then the scheduler call.         *)

MayLock(t) == sobj = "live" /\ mutex.owner \in {Nobody, t}

TimedLock(t) ==
    /\ task[t].pc = "enter"
    /\ MayLock(t)
    /\ mutex' = [owner |-> t, count |-> mutex.count + 1]
    /\ Goto(t, "granted")
    /\ UNCHANGED <<sobj, delayed, fs_type, id, ready, fil, leaks>>

(* Mutant: the error of pthread_mutex_timedlock is not noticed.            *)
TimedOutGoesOn(t) ==
    /\ task[t].pc = "enter"
    /\ ~MayLock(t)
    /\ Goto(t, "status")
    /\ UNCHANGED <<mutex, sobj, delayed, fs_type, id, ready, fil, leaks>>

(* Mutant: pthread_mutex_lock, which has no limit.                         *)
TimedOutNever(t) == FALSE /\ UNCHANGED lockVars

TimedOut(t) ==
    /\ task[t].pc = "enter"
    /\ ~MayLock(t)
    /\ GotoWith(t, "done", "TIMEOUT")
    /\ UNCHANGED <<mutex, sobj, delayed, fs_type, id, ready, fil, leaks>>

(* Mutant: the delay mutex is not set.                                     *)
SetDelayForgotten(t) ==
    /\ task[t].pc = "granted"
    /\ Goto(t, "status")
    /\ UNCHANGED <<mutex, sobj, delayed, fs_type, id, ready, fil, leaks>>

SetDelay(t) ==
    /\ task[t].pc = "granted"
    /\ delayed' = delayed \cup {t}
    /\ Goto(t, "status")
    /\ UNCHANGED <<mutex, sobj, fs_type, id, ready, fil, leaks>>

-----------------------------------------------------------------------------
(* With the lock: disk_status.  f_close and f_closedir return the result   *)
(* of validate without a call of unlock_fs.                                *)

LeavesOnFailure(f) == f \notin {"f_close", "f_closedir"}

StatusObject(t) ==
    /\ task[t].pc = "status" /\ task[t].fn \in ObjectFunctions
    /\ \/ ready /\ Goto(t, "body") /\ UNCHANGED leaks
       \/ ~ready /\ LeavesOnFailure(task[t].fn)
                 /\ GotoWith(t, "leave", "NOT_READY") /\ UNCHANGED leaks
       \/ ~ready /\ ~LeavesOnFailure(task[t].fn)
                 /\ GotoWith(t, "done", "NOT_READY")
                 /\ leaks' = [leaks EXCEPT ![t] = @ + 1]
    /\ UNCHANGED <<mutex, sobj, delayed, fs_type, id, ready, fil>>

(* find_volume: a mounted volume on an initialized drive is taken as it    *)
(* is, anything else is mounted anew.                                      *)
StatusPath(t) ==
    /\ task[t].pc = "status" /\ task[t].fn \notin ObjectFunctions
    /\ \/ fs_type /\ ready /\ Goto(t, "body") /\ UNCHANGED fs_type
       \/ ~(fs_type /\ ready) /\ Goto(t, "mounting") /\ fs_type' = FALSE
    /\ UNCHANGED <<mutex, sobj, delayed, id, ready, fil, leaks>>

(* disk_initialize and the search for a file system.                       *)
Mounting(t) ==
    /\ task[t].pc = "mounting"
    /\ \/ /\ GotoWith(t, "leave", "NOT_READY")
          /\ ~ready
          /\ UNCHANGED <<fs_type, id, ready>>
       \/ GotoWith(t, "leave", "ERROR") /\ ready' = TRUE
                                        /\ UNCHANGED <<fs_type, id>>
       \/ /\ id < MaxMounts
          /\ Goto(t, "body")
          /\ ready' = TRUE /\ fs_type' = TRUE /\ id' = id + 1
    /\ UNCHANGED <<mutex, sobj, delayed, fil, leaks>>

(* The body, and what it does to the object.  f_rename takes the drive     *)
(* number of the new path only here.                                       *)
BodyResults(f) == CASE f \in {"f_close", "f_closedir", "f_mount"} -> {"OK"}
                    [] f = "f_rename" -> {"OK", "ERROR", "INVALID_DRIVE"}
                    [] OTHER -> {"OK", "ERROR"}

(* Mutant: an object gets the ID of the mount to come.                     *)
BodyNextMount(t, res) ==
    /\ task[t].pc = "body"
    /\ res \in BodyResults(task[t].fn)
    /\ GotoWith(t, "leave", res)
    /\ fil' = IF task[t].fn = "f_open"
              THEN [fil EXCEPT ![task[t].obj] = [fs |-> TRUE, id |-> id + 1]]
              ELSE fil
    /\ UNCHANGED <<mutex, sobj, delayed, fs_type, id, ready, leaks>>

Body(t, res) ==
    /\ task[t].pc = "body"
    /\ res \in BodyResults(task[t].fn)
    /\ GotoWith(t, "leave", res)
    /\ fil' = CASE task[t].fn = "f_open" /\ res = "OK" ->
                     [fil EXCEPT ![task[t].obj] = [fs |-> TRUE, id |-> id]]
                [] task[t].fn \in {"f_close", "f_closedir"} ->
                     [fil EXCEPT ![task[t].obj].fs = FALSE]
                [] OTHER -> fil
    /\ UNCHANGED <<mutex, sobj, delayed, fs_type, id, ready, leaks>>

-----------------------------------------------------------------------------
(* Leaving: unlock_fs keeps the lock for the results that are given before *)
(* it was taken; ff_rel_grant ends the delay, then unlocks.                *)

(* Mutant: another result is among them.                                   *)
KeepsLockOnError == {"INVALID_DRIVE", "INVALID_OBJECT", "TIMEOUT", "ERROR"}

KeepsLock == {"INVALID_DRIVE", "INVALID_OBJECT", "TIMEOUT"}

Leave(t) ==
    /\ task[t].pc = "leave"
    /\ IF task[t].res \in KeepsLock
       THEN /\ Goto(t, "done")
            /\ leaks' = [leaks EXCEPT ![t] =
                             IF task[t].fn = "f_rename" THEN @ + 1 ELSE @]
            /\ UNCHANGED delayed
       ELSE /\ Goto(t, "unlock")
            /\ delayed' = delayed \ {t}
            /\ UNCHANGED leaks
    /\ UNCHANGED <<mutex, sobj, fs_type, id, ready, fil>>

Unlocked == IF mutex.count = 1 THEN Free
                               ELSE [mutex EXCEPT !.count = @ - 1]

Unlock(t) ==
    /\ task[t].pc = "unlock"
    /\ mutex' = IF mutex.owner = t THEN Unlocked ELSE mutex
    /\ Goto(t, "done")
    /\ UNCHANGED <<sobj, delayed, fs_type, id, ready, fil, leaks>>

(* The caller takes the result; f_close goes on after its f_sync.          *)
Returned(t) ==
    /\ task[t].pc = "done"
    /\ task' = [task EXCEPT ![t] = Idle]
    /\ UNCHANGED <<mutex, sobj, delayed, fs_type, id, ready, fil, leaks>>

CloseAfterSync(t) ==
    /\ task[t].pc = "done" /\ task[t].fn = "f_sync"
    /\ task' = [task EXCEPT ![t].pc = "again", ![t].fn = "f_close"]
    /\ UNCHANGED <<mutex, sobj, delayed, fs_type, id, ready, fil, leaks>>

-----------------------------------------------------------------------------
(* f_mount: delete the lock, clear the object, create the lock; then mount *)
(* (opt = 1), or leave that to the next function, and fatfs_unmount clears *)
(* the object again.  A mutex that is held, or dead, is not destroyed.     *)

StartMount(t, f) ==
    /\ task[t].pc = "idle"
    /\ f \in {"f_mount", "f_unmount"}
    /\ task' = [task EXCEPT ![t].pc = "delete", ![t].fn = f]
    /\ UNCHANGED <<mutex, sobj, delayed, fs_type, id, ready, fil, leaks>>

(* Mutant: the mutex is destroyed although it is held.                     *)
DeleteLockHeld(t) ==
    /\ task[t].pc = "delete"
    /\ sobj' = "dead" /\ fs_type' = FALSE /\ Goto(t, "create")
    /\ UNCHANGED <<mutex, delayed, id, ready, fil, leaks>>

DeleteLock(t) ==
    /\ task[t].pc = "delete"
    /\ IF sobj = "live" /\ mutex.owner = Nobody
       THEN sobj' = "dead" /\ fs_type' = FALSE /\ Goto(t, "create")
       ELSE GotoWith(t, "done", "INT_ERR") /\ UNCHANGED <<sobj, fs_type>>
    /\ UNCHANGED <<mutex, delayed, id, ready, fil, leaks>>

(* ff_cre_syncobj answers 1, 0 or, when the attributes cannot be           *)
(* initialized, -1, which f_mount takes for success.                       *)
CreateLock(t) ==
    /\ task[t].pc = "create"
    /\ \E answer \in IF "create" \in Faults THEN {1, 0, -1} ELSE {1} :
           /\ IF answer = 1 THEN sobj' = "live" /\ mutex' = Free
                            ELSE UNCHANGED <<sobj, mutex>>
           /\ IF answer = 0 THEN GotoWith(t, "done", "INT_ERR")
              ELSE IF task[t].fn = "f_mount" THEN GotoWith(t, "enter", "OK")
              ELSE GotoWith(t, "clear", "OK")
    /\ UNCHANGED <<delayed, fs_type, id, ready, fil, leaks>>

ClearMounted(t) ==
    /\ task[t].pc = "clear"
    /\ fs_type' = FALSE
    /\ Goto(t, "done")
    /\ UNCHANGED <<mutex, sobj, delayed, id, ready, fil, leaks>>

-----------------------------------------------------------------------------
(* The environment.  The drive is closed under the file system             *)
(* (fatfs_dev_close); a task is killed by a signal, or its process ends    *)
(* between two functions, and fatfs_unlock takes the lock from it.  Its    *)
(* objects are gone, and another process takes its place.                  *)

Eject ==
    /\ "eject" \in Faults
    /\ ready' = FALSE
    /\ UNCHANGED <<mutex, sobj, delayed, fs_type, id, fil, task, leaks>>

Dies(t, objects) ==
    /\ "kill" \in Faults
    /\ t \notin delayed \/ task[t].pc = "idle"
    /\ mutex' = IF mutex.owner = t THEN Free ELSE mutex
    /\ delayed' = delayed \ {t}
    /\ fil' = [o \in Objects |-> IF o \in objects THEN [fs |-> FALSE, id |-> 0]
                                                  ELSE fil[o]]
    /\ task' = [task EXCEPT ![t] = Idle]
    /\ leaks' = [leaks EXCEPT ![t] = 0]
    /\ UNCHANGED <<sobj, fs_type, id, ready>>

-----------------------------------------------------------------------------
FunctionStep(t) ==
    \/ TimedLock(t) \/ TimedOut(t) \/ SetDelay(t)
    \/ StatusObject(t) \/ StatusPath(t) \/ Mounting(t)
    \/ Leave(t) \/ Unlock(t) \/ ValidateAgain(t)
    \/ DeleteLock(t) \/ CreateLock(t) \/ ClearMounted(t)

-----------------------------------------------------------------------------
(* Properties.                                                             *)

Inside(t) == task[t].pc \in {"granted", "status", "mounting", "body", "leave",
                             "unlock"}

(* Whoever is between ENTER_FF and LEAVE_FF holds the lock, alone, even    *)
(* when f_mount deletes and creates it, ff_cre_syncobj failed, or          *)
(* processes were killed anywhere else.                                    *)
MutualExclusion == \A t \in Tasks :
    Inside(t) => sobj = "live" /\ mutex.owner = t

(* The lock is held once for the function under way, and once for every    *)
(* way out that forgets it: f_close and f_closedir that find the drive     *)
(* gone, f_rename to a bad drive number.  Every other path through a file  *)
(* function gives back what it took.                                       *)
LockBalance ==
    /\ \A t \in Tasks : mutex.owner = t =>
           mutex.count = leaks[t] + (IF Inside(t) THEN 1 ELSE 0)
    /\ \A t \in Tasks : mutex.owner # t => leaks[t] = 0 /\ ~Inside(t)

(* A volume is mounted, and its mount ID given out, only by the holder of  *)
(* the lock.                                                               *)
MountedUnderLock == [][(id' # id \/ (fs_type' /\ ~fs_type)) =>
                          \E t \in Tasks : mutex.owner = t /\ Inside(t)]_lockVars

(* A signal never ends a function in its body, where the volume is half    *)
(* changed (ff_req_grant sets the delay mutex).                            *)
BodyNotKilled == [][\A t \in Tasks :
    task[t].pc \in {"mounting", "body"} => task'[t].pc # "idle"]_lockVars
=============================================================================
