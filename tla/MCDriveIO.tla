----------------------------- MODULE MCDriveIO -----------------------------
(* TLC instance of DriveIO: transfers of two sectors with two contents.    *)
EXTENDS DriveIO

MCBlocks == {1, 2}
MCContents == {"old", "new"}

=============================================================================
