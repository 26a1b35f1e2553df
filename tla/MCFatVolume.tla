---------------------------- MODULE MCFatVolume ----------------------------
(* TLC instances of FatVolume: the file functions each run calls.          *)
EXTENDS FatVolume, TLC

AllFunctions == {"f_stat", "f_open", "f_write", "f_lseek", "f_sync",
                 "f_unlink", "f_rename", "f_getfree"}
Updates == {"f_open", "f_write", "f_sync", "f_unlink"}
UpdatesAndSeeks == Updates \cup {"f_lseek"}
WritesAndSeeks == {"f_open", "f_write", "f_sync", "f_lseek"}
OpenWriteSync == {"f_open", "f_write", "f_sync"}

Interchangeable == Permutations(Names) \cup Permutations(Handles)

=============================================================================
