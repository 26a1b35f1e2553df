----------------------------- MODULE DiskService -----------------------------
(***************************************************************************)
(* What ff.c counts on when it calls disk_read, disk_write and disk_ioctl  *)
(* (CTRL_SYNC): the abstract specification of DriveIO.                     *)
(*                                                                         *)
(* An answer "ok" means that the whole transfer was done; after "error"    *)
(* any of its sectors may have been written, and the buffer of a read may  *)
(* hold anything.  Between two calls the medium stays as it is.            *)
(***************************************************************************)
CONSTANTS
    Blocks,         \* the sectors of a transfer
    Contents        \* what a sector can hold

VARIABLES
    medium,         \* the sectors as a read would find them
    buffer,         \* the caller's buffer
    call,           \* the disk function that runs, or "none"
    answer          \* what the last one returned

serviceVars == <<medium, buffer, call, answer>>

Images == [Blocks -> Contents]

ServiceInit ==
    /\ medium \in Images
    /\ buffer \in Images
    /\ call = "none"
    /\ answer = "none"

Call ==
    /\ call = "none"
    /\ call' \in {"read", "write", "sync"}
    /\ buffer' \in Images
    /\ UNCHANGED <<medium, answer>>

(* Some of the sectors are written, in any order, as often as it takes.    *)
Take ==
    /\ call = "write"
    /\ medium' \in Images
    /\ \A b \in Blocks : medium'[b] \in {medium[b], buffer[b]}
    /\ UNCHANGED <<buffer, call, answer>>

Fill ==
    /\ call = "read"
    /\ buffer' \in Images
    /\ UNCHANGED <<medium, call, answer>>

(* "ok" is the answer to a completed transfer only.                        *)
Answer ==
    /\ call # "none"
    /\ call' = "none"
    /\ answer' \in {"ok", "error"}
    /\ answer' = "ok" /\ call # "sync" => buffer = medium
    /\ UNCHANGED <<medium, buffer>>

ServiceNext == Call \/ Take \/ Fill \/ Answer

ServiceSpec == ServiceInit /\ [][ServiceNext]_serviceVars

=============================================================================
