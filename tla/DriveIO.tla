------------------------------- MODULE DriveIO -------------------------------
(***************************************************************************)
(* The disk functions of src/src/diskio.c over the drive functions of      *)
(* src/src/fatfs_dev.c: polling the drive until it is not busy, the        *)
(* transfer, the reset of the drive after a short one, and the retries.    *)
(*                                                                         *)
(* One disk function runs at a time (ff.c calls them with the volume lock  *)
(* held).  The drive is the environment: it is busy or not, a transfer may *)
(* be short, a poll may fail, and another partition's user may make it     *)
(* busy.  Times are left out: a wait is the number of its polls.           *)
(***************************************************************************)
EXTENDS Integers

CONSTANTS
    Blocks,         \* the sectors of a transfer
    Contents,       \* what a sector can hold
    MAX_RETRIES,
    wait_busy_timeout_count,    \* 0: no limit
    Faults          \* "io": short transfers, "ioctl": failed polls,
                    \* "shared": others use the drive

ASSUME DriveAssumption ==
    /\ MAX_RETRIES \in Nat \ {0}
    /\ wait_busy_timeout_count \in Nat
    /\ Faults \subseteq {"io", "ioctl", "shared"}

VARIABLES
    medium, buffer, call, answer,   \* as in DiskService
    pc,             \* where the disk function is
    after,          \* where fatfs_dev_waitbusy was called
    count,          \* polls of this wait that found the drive busy
    retries,        \* transfers tried before this one
    ret,            \* the last transfer was "full" (nbyte) or "short"
    drive           \* the drive is "ready" or "busy"

driver == <<pc, after, count, retries, ret>>
vars == <<medium, buffer, call, answer, driver, drive>>

Images == [Blocks -> Contents]

TypeOK ==
    /\ medium \in Images
    /\ buffer \in Images
    /\ call \in {"none", "read", "write", "sync"}
    /\ answer \in {"none", "ok", "error"}
    /\ pc \in {"idle", "poll", "attempt", "test"}
    /\ after \in {"attempt", "reset", "reread", "synced"}
    /\ count \in Nat
    /\ retries \in Nat
    /\ ret \in {"full", "short"}
    /\ drive \in {"ready", "busy"}

Init ==
    /\ medium \in Images
    /\ buffer \in Images
    /\ call = "none"
    /\ answer = "none"
    /\ pc = "idle"
    /\ after = "attempt"
    /\ count = 0
    /\ retries = 0
    /\ ret = "short"
    /\ drive \in {"ready", "busy"}

-----------------------------------------------------------------------------
(* The steps of control.                                                   *)

(* fatfs_dev_waitbusy is called.                                           *)
WaitBusy(site) == pc' = "poll" /\ after' = site /\ count' = 0

Return(res) == pc' = "idle" /\ call' = "none" /\ answer' = res

(* disk_read, disk_write and disk_ioctl(CTRL_SYNC) are called.             *)
StartTransfer(function, data) ==
    /\ pc = "idle"
    /\ call' = function
    /\ buffer' = data
    /\ retries' = 0
    /\ ret' = "short"
    /\ WaitBusy("attempt")
    /\ UNCHANGED <<medium, answer, drive>>

StartSync ==
    /\ pc = "idle"
    /\ call' = "sync"
    /\ WaitBusy("synced")
    /\ UNCHANGED <<medium, buffer, answer, retries, ret, drive>>

-----------------------------------------------------------------------------
(* fatfs_dev_waitbusy.                                                     *)

Unlimited == wait_busy_timeout_count = 0

MayPollAgain == Unlimited \/ count < wait_busy_timeout_count

PollBusy ==
    /\ pc = "poll" /\ drive = "busy" /\ MayPollAgain
    /\ count' = IF Unlimited THEN count ELSE count + 1
    /\ UNCHANGED <<medium, buffer, call, answer, pc, after, retries, ret,
                   drive>>

(* The loop ends when a poll finds the drive ready, or fails (the          *)
(* comparison is made before the assignment, so the error is a 0), or is   *)
(* one too many.  What counts as a time-out is only the number of polls.   *)
WaitEnds == /\ pc = "poll"
            /\ drive = "ready" \/ "ioctl" \in Faults \/ ~MayPollAgain
Expired == ~Unlimited /\ count >= wait_busy_timeout_count

(* Before a transfer.                                                      *)
WaitedToAttempt ==
    /\ WaitEnds /\ after = "attempt"
    /\ IF Expired THEN Return("error")
                  ELSE pc' = "attempt" /\ UNCHANGED <<call, answer>>
    /\ UNCHANGED <<medium, buffer, after, count, retries, ret, drive>>

(* In reinitalize_drive, whatever the result; a read then waits again.     *)
WaitedInReset ==
    /\ WaitEnds /\ after = "reset"
    /\ IF call = "read" THEN WaitBusy("reread")
                        ELSE pc' = "test" /\ UNCHANGED <<after, count>>
    /\ UNCHANGED <<medium, buffer, call, answer, retries, ret, drive>>

WaitedToReread ==
    /\ WaitEnds /\ after = "reread"
    /\ IF Expired THEN Return("error")
                  ELSE pc' = "test" /\ UNCHANGED <<call, answer>>
    /\ UNCHANGED <<medium, buffer, after, count, retries, ret, drive>>

(* In disk_ioctl(CTRL_SYNC), whatever the result.                          *)
WaitedToSync ==
    /\ WaitEnds /\ after = "synced"
    /\ Return("ok")
    /\ UNCHANGED <<medium, buffer, after, count, retries, ret, drive>>

-----------------------------------------------------------------------------
(* The transfer and its retries.                                           *)

(* The drive takes a whole transfer, and may be busy with it.              *)
Write ==
    /\ pc = "attempt" /\ call = "write"
    /\ medium' = buffer
    /\ ret' = "full"
    /\ pc' = "test"
    /\ drive' \in {"ready", "busy"}
    /\ UNCHANGED <<buffer, call, answer, after, count, retries>>

Read ==
    /\ pc = "attempt" /\ call = "read"
    /\ buffer' = medium
    /\ ret' = "full"
    /\ pc' = "test"
    /\ UNCHANGED <<medium, call, answer, after, count, retries, drive>>

(* A short transfer, in which the drive may have taken some of the         *)
(* sectors, or filled the buffer with anything, and the reset after it.    *)
Short ==
    /\ "io" \in Faults
    /\ pc = "attempt"
    /\ \/ /\ call = "write" /\ UNCHANGED buffer
          /\ medium' \in {m \in Images :
                            \A b \in Blocks : m[b] \in {medium[b], buffer[b]}}
       \/ call = "read" /\ buffer' \in Images /\ UNCHANGED medium
    /\ ret' = "short"
    /\ drive' \in {"ready", "busy"}
    /\ WaitBusy("reset")
    /\ UNCHANGED <<call, answer, retries>>

(* Mutant: the loop gives up with the last transfer taken for a good one.  *)
TestCountOnly ==
    /\ pc = "test"
    /\ IF ret = "full" \/ retries + 1 >= MAX_RETRIES
       THEN Return("ok") /\ UNCHANGED <<after, count>>
       ELSE WaitBusy("attempt") /\ UNCHANGED <<call, answer>>
    /\ retries' = retries + 1
    /\ UNCHANGED <<medium, buffer, ret, drive>>

(* Mutant: one retry too many.                                             *)
TestOneMore ==
    /\ pc = "test"
    /\ IF ret = "full" \/ retries >= MAX_RETRIES
       THEN /\ Return(IF retries = MAX_RETRIES THEN "error" ELSE "ok")
            /\ UNCHANGED <<after, count>>
       ELSE WaitBusy("attempt") /\ UNCHANGED <<call, answer>>
    /\ retries' = retries + 1
    /\ UNCHANGED <<medium, buffer, ret, drive>>

(* Mutant: retries are not counted.                                        *)
TestForever ==
    /\ pc = "test"
    /\ IF ret = "full" THEN Return("ok") /\ UNCHANGED <<after, count>>
               ELSE WaitBusy("attempt") /\ UNCHANGED <<call, answer>>
    /\ UNCHANGED <<medium, buffer, retries, ret, drive>>

(* The end of the loop: after the last retry the answer is an error, also  *)
(* when that transfer was a full one.                                      *)
Test ==
    /\ pc = "test"
    /\ IF ret = "full" \/ retries + 1 >= MAX_RETRIES
       THEN /\ Return(IF retries + 1 = MAX_RETRIES THEN "error" ELSE "ok")
            /\ UNCHANGED <<after, count>>
       ELSE WaitBusy("attempt") /\ UNCHANGED <<call, answer>>
    /\ retries' = retries + 1
    /\ UNCHANGED <<medium, buffer, ret, drive>>

-----------------------------------------------------------------------------
(* The drive.                                                              *)

BecomesReady ==
    /\ drive = "busy"
    /\ drive' = "ready"
    /\ UNCHANGED <<medium, buffer, call, answer, driver>>

OthersUse ==
    /\ "shared" \in Faults
    /\ drive = "ready"
    /\ drive' = "busy"
    /\ UNCHANGED <<medium, buffer, call, answer, driver>>

-----------------------------------------------------------------------------
Wait == PollBusy \/ WaitedToAttempt \/ WaitedInReset \/ WaitedToReread
                 \/ WaitedToSync
Transfer == Write \/ Read \/ Short \/ Test

Next ==
    \/ \E data \in Images : StartTransfer("write", data)
    \/ StartTransfer("read", buffer) \/ StartSync
    \/ Wait \/ Transfer
    \/ BecomesReady \/ OthersUse

Spec == Init /\ [][Next]_vars

(* A disk function that was called goes on.                                *)
FairSpec == Spec /\ WF_vars(Wait \/ Transfer)

-----------------------------------------------------------------------------
(* Properties.                                                             *)

Disk == INSTANCE DiskService

(* diskio.h: RES_OK is "Successful", of the transfer as a whole, however   *)
(* many retries, resets and partial transfers it took: what ff.c relies on *)
(* when it clears a dirty flag.                                            *)
Service == Disk!ServiceSpec

(* The driver's variables are in range, a disk function runs when one was  *)
(* called, and a full transfer has moved what it should.                   *)
DriveInv ==
    /\ TypeOK
    /\ pc = "idle" <=> call = "none"
    /\ pc \in {"attempt", "test"} => call # "sync"
    /\ pc = "poll" => (after = "synced" <=> call = "sync")
    /\ call \in {"read", "write"} => retries < MAX_RETRIES
    /\ ~Unlimited => count <= wait_busy_timeout_count
    /\ after \in {"reset", "reread"} /\ pc = "poll" => ret = "short"
    /\ ret = "full" /\ pc = "test" => buffer = medium

(* A transfer is only tried on a drive that was just found ready.          *)
AttemptWhenReady == [][pc = "poll" /\ pc' = "attempt" => drive = "ready"]_vars

(* sync_fs calls CTRL_SYNC to "Make sure that no pending write process in  *)
(* the physical drive" is left.                                            *)
SyncCompletes == [][call = "sync" /\ pc' = "idle" => drive = "ready"]_vars

(* Every disk function returns.                                            *)
CallsEnd == (call # "none") ~> (call = "none")

=============================================================================
