------------------------------ MODULE PosixLayer ------------------------------
(***************************************************************************)
(* The calls of src/src/fatfs.c over the file functions of ff.c: a handle  *)
(* is allocated by fatfs_open and freed by fatfs_close, a read or a write  *)
(* at a place is f_lseek, when the object is not there, and then the       *)
(* transfer, in two file functions, and the volume is mounted and          *)
(* unmounted by tests of fs_type outside the lock.                         *)
(*                                                                         *)
(* A handle is used by the task that opened it.  A file is not removed or  *)
(* opened twice while one writes it, so that its chain covers its size     *)
(* (SizeCovered of FatVolume).                                             *)
(***************************************************************************)
EXTENDS VolumeLock

CONSTANT MaxLoc         \* bound: places in a file

ASSUME PosixAssumption == MaxLoc \in Nat

VARIABLES
    job,        \* the call of each task: [call, loc, obj]
    user,       \* who has the object allocated
    file        \* the objects: offset, size, FA_WRITE, marked by ABORT

vars == <<lockVars, job, user, file>>

Transfers == {"read", "write"}
Calls == Transfers \cup {"open", "fsync", "close", "closedir", "path",
                        "direct", "mount", "unmount"}
Files == [fptr : 0 .. MaxLoc, fsize : 0 .. MaxLoc, write : BOOLEAN,
          err : BOOLEAN]

TypeOK ==
    /\ LockTypeOK
    /\ job \in [Tasks -> [call : Calls \cup {"none"}, loc : 0 .. MaxLoc,
                      obj : Objects \cup {NoObject}]]
    /\ user \in [Objects -> Tasks \cup {Nobody}]
    /\ file \in [Objects -> Files]

NoJob == [call |-> "none", loc |-> 0, obj |-> NoObject]

Opened(size, write) ==
    [fptr |-> 0, fsize |-> size, write |-> write, err |-> FALSE]

(* Every function but f_sync and f_close turns a marked object away, so    *)
(* where it stands decides nothing; nor does what is in freed memory.      *)
Marked == [fptr |-> 0, fsize |-> 0, write |-> FALSE, err |-> TRUE]

Init ==
    /\ LockInit
    /\ job = [t \in Tasks |-> NoJob]
    /\ user = [o \in Objects |-> Nobody]
    /\ file = [o \in Objects |-> Marked]

Calling(t, call, loc, o) ==
    /\ job[t] = NoJob
    /\ job' = [job EXCEPT ![t] = [call |-> call, loc |-> loc, obj |-> o]]

-----------------------------------------------------------------------------
(* fatfs_open and fatfs_opendir: malloc, then f_open.                      *)
Open(t, o) ==
    /\ Calling(t, "open", 0, o)
    /\ user[o] = Nobody
    /\ StartPath(t, "f_open", o)
    /\ user' = [user EXCEPT ![o] = t]
    /\ UNCHANGED file

(* fatfs_read and fatfs_write.                                             *)
(* Mutant: only a place before the object's is looked for.                 *)
SeeksBack(loc, fptr) == loc < fptr

Seeks(loc, fptr) == loc # fptr

Read(t, o, call, loc) ==
    /\ Calling(t, call, loc, o)
    /\ user[o] = t
    /\ StartObject(t, IF Seeks(loc, file[o].fptr) THEN "f_lseek"
                                                 ELSE "f_transfer", o)
    /\ UNCHANGED <<user, file>>

(* fatfs_fsync, fatfs_readdir_r; the first half of fatfs_close;            *)
(* fatfs_closedir.                                                         *)
OnObject(t, o, call) ==
    /\ Calling(t, call, 0, o)
    /\ user[o] = t
    /\ StartObject(t, IF call = "closedir" THEN "f_closedir" ELSE "f_sync", o)
    /\ UNCHANGED <<user, file>>

(* fatfs_unlink and others; f_rename called as it is ("direct"), where     *)
(* nobody has put the drive number in front of the new path.               *)
OnPath(t, call) ==
    /\ Calling(t, call, 0, NoObject)
    /\ StartPath(t, IF call = "direct" THEN "f_rename" ELSE "f_path", NoObject)
    /\ UNCHANGED <<user, file>>

(* fatfs_mount of a volume that is not mounted, fatfs_unmount of one that  *)
(* is; the others return at once.                                          *)
Mount(t) ==
    /\ Calling(t, "mount", 0, NoObject)
    /\ ~fs_type
    /\ StartMount(t, "f_mount")
    /\ UNCHANGED <<user, file>>

Unmount(t) ==
    /\ Calling(t, "unmount", 0, NoObject)
    /\ fs_type
    /\ StartMount(t, "f_unmount")
    /\ UNCHANGED <<user, file>>

-----------------------------------------------------------------------------
(* The body of a file function, and what it makes of the object.           *)

(* f_lseek with FR_OK: behind the size, one for reading is clipped to it,  *)
(* one for writing stretched until the disk is full.                       *)
Seeked(f, loc) ==
    IF loc <= f.fsize THEN {[f EXCEPT !.fptr = loc]}
    ELSE IF f.write THEN {[f EXCEPT !.fptr = p, !.fsize = p] : p \in f.fsize .. loc}
    ELSE {[f EXCEPT !.fptr = f.fsize]}

(* f_read and f_write with FR_OK: the next place, or none, at the end of   *)
(* the file, if nothing is there or the disk is full.                      *)
Ends(f, call) ==
    IF call = "write" /\ ~f.write THEN {}
    ELSE IF f.fptr < f.fsize THEN {f.fptr + 1}
    ELSE {f.fptr} \cup
         (IF call = "write" THEN {f.fptr + 1} \cap 0 .. MaxLoc ELSE {})

Transferred(f, call) ==
    {[f EXCEPT !.fptr = p, !.fsize = IF p > @ THEN p ELSE @] :
        p \in Ends(f, call)}

(* With an error: the object was marked before, the access is denied       *)
(* (FA_READ is not in the model), or the function aborts and marks it.     *)
Failed(f, fn, call) ==
    {g \in {f, Marked} :
        \/ g = f /\ (f.err \/ (fn = "f_transfer" /\ ~(call = "write" /\ f.write)))
        \/ /\ g = Marked /\ ~f.err
           /\ fn = "f_lseek" \/ (IF call = "write" THEN f.write
                                                   ELSE f.fptr < f.fsize)}

Outcomes(f, fn, call, loc, res) ==
    IF res # "OK" THEN Failed(f, fn, call)
    ELSE IF f.err THEN {}
    ELSE IF fn = "f_lseek" THEN Seeked(f, loc) ELSE Transferred(f, call)

Served(t) ==
    LET o == task[t].obj
        fn == task[t].fn
        Made(files) == file' \in {[file EXCEPT ![o] = f] : f \in files}
    IN \E res \in Results :
        /\ Body(t, res)
        /\ CASE fn = "f_open" /\ res = "OK" ->
                    Made({Opened(size, write) : size \in 0 .. MaxLoc,
                                                write \in BOOLEAN})
             [] fn \in {"f_lseek", "f_transfer"} ->
                    Made(Outcomes(file[o], fn, job[t].call, job[t].loc, res))
             [] OTHER -> UNCHANGED file
        /\ UNCHANGED <<job, user>>

(* A call returns when its last function has; the handle of a failed open  *)
(* and of a successful close is freed.                                     *)
(* Mutant: the handle is freed whatever f_close says.                      *)
ReturnFrees(t) ==
    /\ Returned(t)
    /\ job' = [job EXCEPT ![t] = NoJob]
    /\ user' = IF job[t].call \in {"close", "closedir"}
               THEN [user EXCEPT ![job[t].obj] = Nobody]
               ELSE user
    /\ UNCHANGED file

Return(t) ==
    LET frees == /\ (task[t].res = "OK") # (job[t].call = "open")
                 /\ job[t].call \in {"open", "close", "closedir"}
    IN /\ Returned(t)
       /\ job' = [job EXCEPT ![t] = NoJob]
       /\ user' = IF frees THEN [user EXCEPT ![job[t].obj] = Nobody] ELSE user
       /\ file' = IF frees THEN [file EXCEPT ![job[t].obj] = Marked] ELSE file

LastFunction(t) ==
    \/ task[t].res # "OK"
    \/ /\ task[t].fn # "f_lseek"
       /\ task[t].fn # "f_sync" \/ job[t].call # "close"

EndCall(t) ==
    /\ LastFunction(t)
    /\ Return(t)

(* f_close goes on after its f_sync.                                       *)
CloseGoesOn(t) ==
    /\ ~LastFunction(t) /\ job[t].call = "close"
    /\ CloseAfterSync(t)
    /\ UNCHANGED <<job, user, file>>

(* f_read or f_write after f_lseek.                                        *)
SeekDone(t) ==
    /\ ~LastFunction(t) /\ job[t].call \in Transfers
    /\ Returned(t)
    /\ UNCHANGED <<job, user, file>>

Transfer(t) ==
    /\ job[t].call \in Transfers /\ task[t].pc = "idle"
    /\ StartObject(t, "f_transfer", job[t].obj)
    /\ UNCHANGED <<job, user, file>>

(* A process dies; the system closes nothing of it in ff.c.                *)
Killed(t) ==
    /\ Dies(t, {o \in Objects : user[o] = t})
    /\ job' = [job EXCEPT ![t] = NoJob]
    /\ user' = [o \in Objects |-> IF user[o] = t THEN Nobody ELSE user[o]]
    /\ file' = [o \in Objects |-> IF user[o] = t THEN Marked ELSE file[o]]

-----------------------------------------------------------------------------
Step(t) ==
    \/ FunctionStep(t) /\ UNCHANGED <<job, user, file>>
    \/ Served(t) \/ EndCall(t) \/ CloseGoesOn(t) \/ SeekDone(t) \/ Transfer(t)

Call(t) ==
    \/ \E o \in Objects :
          \/ Open(t, o)
          \/ \E call \in Transfers, loc \in 0 .. MaxLoc : Read(t, o, call, loc)
          \/ \E call \in {"fsync", "close", "closedir"} : OnObject(t, o, call)
    \/ \E call \in {"path", "direct"} : OnPath(t, call)
    \/ Mount(t) \/ Unmount(t)

Next ==
    \/ \E t \in Tasks : Step(t) \/ Call(t) \/ Killed(t)
    \/ Eject /\ UNCHANGED <<job, user, file>>

Spec == Init /\ [][Next]_vars

(* The scheduler runs every task that can run.                             *)
FairSpec == Spec /\ \A t \in Tasks : WF_vars(Step(t))

-----------------------------------------------------------------------------
(* Properties.                                                             *)

(* A read or a write at a place is done at that place, although the lock   *)
(* is free between f_lseek and the transfer; only where f_lseek has        *)
(* clipped the place is it done before it, at the end of the file, so      *)
(* that a read gets nothing and a write, for which the disk was full and   *)
(* no longer is, puts its bytes behind all others and over none.           *)
Reached(f, loc) == f.fptr = loc \/ (f.fptr = f.fsize /\ f.fsize < loc)
TransfersAtLoc == \A t \in Tasks :
    task[t].pc = "body" /\ task[t].fn = "f_transfer" =>
        Reached(file[task[t].obj], job[t].loc)

(* A handle that a call is working with is not freed or given to another,  *)
(* and every object that points to the volume belongs to somebody, who can *)
(* still close it.                                                         *)
HandlesOwned ==
    /\ \A t \in Tasks : job[t].obj # NoObject => user[job[t].obj] = t
    /\ \A o \in Objects : fil[o].fs => user[o] # Nobody

(* Every call returns, whoever forgot to leave the lock, whatever became   *)
(* of the drive: the wait for the mutex has a limit.                       *)
CallsReturn == \A t \in Tasks : job[t].call # "none" ~> job[t].call = "none"
=============================================================================
