---------------------------- MODULE MCFatWindow ----------------------------
(* TLC instance of FatWindow: two FAT sectors, a directory sector and one  *)
(* a new directory will use, three different contents.                     *)
EXTENDS FatWindow

MCFatSectors == {"fat0", "fat1"}
MCOtherSectors == {"dir", "new"}
MCContents == {0, 1, 2}

=============================================================================
