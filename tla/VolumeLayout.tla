----------------------------- MODULE VolumeLayout -----------------------------
(***************************************************************************)
(* Where a volume lies on its drive: f_mkfs lays it out, find_volume reads *)
(* the layout back, get_fat and put_fat reach the entries through it, byte *)
(* by byte (src/src/ff.c, with the real sector and table sizes).           *)
(*                                                                         *)
(* Only what has been written is kept: the boot, partition and FSINFO      *)
(* records by their sector, the bytes of the tables by their address.  A   *)
(* function is one step; the drive refuses the sectors in "bad" during it, *)
(* and every sector past its end.                                          *)
(***************************************************************************)
EXTENDS Integers, FiniteSets, Functions

CONSTANTS
    Drives,         \* sector counts and erase block sizes: records
    Foreign,        \* boot sectors another program may have left
    AllocUnits,     \* the third argument of f_mkfs
    NearStart,      \* clusters whose entries are put, from the low end
    MaxFormats,     \* bound: calls of f_mkfs
    MaxCalls        \* bound: calls of f_mkfs and put_fat together

(* The largest drive: cluster numbers have 28 bits, and no DWORD of the    *)
(* code overflows below it.                                                *)
MaxSectors == 268435455

MaxWord == 65535
MaxByte == 255

BootSectors == [kind : {"boot"}, ssize : 0 .. MaxWord, csize : 0 .. MaxByte,
                nrsv : 0 .. MaxWord, n_fats : 0 .. MaxByte, n_rootdir : 0 .. MaxWord,
                tsect : 0 .. MaxSectors, fatsz : 0 .. MaxSectors,
                root : 0 .. MaxSectors, fsinfo : BOOLEAN]

ASSUME LayoutAssumption ==
    /\ Drives \subseteq [count : 0 .. MaxSectors, block : Nat]
    /\ Foreign \subseteq BootSectors
    /\ AllocUnits \subseteq 0 .. MaxSectors /\ NearStart \subseteq Nat
    /\ MaxFormats \in Nat /\ MaxCalls \in Nat

VARIABLES
    drive,      \* the drive of this behaviour
    boots,      \* sector -> boot, partition or FSINFO record
    medium,     \* address -> byte of the allocation tables, where written
    fs,         \* the file system object, FR_... in res when not mounted
    win,        \* the window: its sector, its unsaved bytes, wflag
    made,       \* what the last f_mkfs that returned FR_OK laid out
    formats, puts, last

vars == <<drive, boots, medium, fs, win, made, formats, puts, last>>

SS == 512
MIN_FAT16 == 4086
MIN_FAT32 == 65526
N_ROOTDIR == 512
N_FATS == 1
SZ_DIRE == 32
EOC == 268435455
NoSector == -1
Unknown == -1
None == [kind |-> "none"]

(* A DWORD that went below zero, divided by a cluster size: above every    *)
(* limit the code compares it with.                                        *)
Wrapped == 33554432

-----------------------------------------------------------------------------
(* f_mkfs: the layout it computes.                                         *)

vst == <<1024, 512, 256, 128, 64, 32, 16, 8, 4, 2, 0>>
cst == <<32768, 16384, 8192, 4096, 2048, 16384, 8192, 4096, 2048, 1024, 512>>

(* The BYTEs with one bit, and the DWORDs up to MaxSectors with one or none. *)
Units == {1, 2, 4, 8, 16, 32, 64, 128}
PowerOf2(n) == n = 0 \/ \E u \in Units, v \in {1, 128, 16384, 2097152} : n = u * v

ClusterSize(n_vol, au) ==
    LET vs == n_vol \div 2000
        i == CHOOSE j \in DOMAIN vst :
                 vs >= vst[j] /\ \A k \in 1 .. j - 1 : vs < vst[k]
        unit == IF PowerOf2(au) /\ au # 0 THEN au ELSE cst[i]
        sectors == IF unit >= SS THEN unit \div SS ELSE unit
    IN IF sectors > 128 THEN 128 ELSE sectors

SubType(n_clst) ==
    IF n_clst >= MIN_FAT32 THEN 32 ELSE IF n_clst >= MIN_FAT16 THEN 16 ELSE 12

(* x & y: of their lowest bytes, and for y below 2^16.                      *)
BitAndBytes(x, y) ==
    LET both(i) == i * (((x \div i) % 2) * ((y \div i) % 2))
    IN  both(1) + both(2) + both(4) + both(8) + both(16) + both(32) + both(64) + both(128)
BitAnd(x, y) == BitAndBytes(x, y) + 256 * BitAndBytes(x \div 256, y \div 256)

(* Next nearest erase block: the distance to it.                           *)
Padding(b_data, block) ==
    LET n == IF block = 0 \/ block > 32768 THEN 1 ELSE block
        end == b_data + n - 1
    IN (end - BitAnd(end, n - 1) - b_data) \div N_FATS

Aborted == [kind |-> "aborted"]

(* A table of n_clst clusters is cut to whole sectors.                       *)
TableSectors(fmt, n_clst) ==
    LET bytes == CASE fmt = 32 -> n_clst * 4 + 8
                   [] fmt = 16 -> n_clst * 2 + 4
                   [] OTHER -> (n_clst * 3 + 1) \div 2 + 3
    IN  (bytes + SS - 1) \div SS

(* The volume with these areas, if it has the clusters its sub-type wants. *)
Areas(b_vol, n_vol, au, fmt, n_rsv, n_fat, n_dir) ==
    LET room == n_vol - n_rsv - n_fat * N_FATS - n_dir
        n_clst == IF room < 0 THEN Wrapped ELSE room \div au
    IN  IF \/ fmt = 16 /\ n_clst < MIN_FAT16
           \/ fmt = 32 /\ n_clst < MIN_FAT32
        THEN Aborted
        ELSE [kind |-> "layout", fmt |-> fmt, au |-> au, b_vol |-> b_vol,
              n_vol |-> n_vol, n_rsv |-> n_rsv, n_fat |-> n_fat,
              n_dir |-> n_dir, n_clst |-> n_clst]

(* The data area is moved up to an erase block.                            *)
Aligned(b_vol, n_vol, au, fmt, fatsz) ==
    LET rsv == IF fmt = 32 THEN 32 ELSE 1
        n_dir == IF fmt = 32 THEN 0 ELSE (N_ROOTDIR * SZ_DIRE) \div SS
        b_data == b_vol + rsv + fatsz * N_FATS + n_dir
        n == Padding(b_data, drive.block)
    IN  IF n_vol < b_data + au - b_vol THEN Aborted
        ELSE IF fmt = 32 THEN Areas(b_vol, n_vol, au, fmt, rsv + n, fatsz, n_dir)
        ELSE Areas(b_vol, n_vol, au, fmt, rsv, fatsz + n, n_dir)

(* The layout of a volume of n_vol sectors from b_vol.                     *)
Layout(b_vol, n_vol, arg) ==
    LET au == ClusterSize(n_vol, arg)
        fmt == SubType(n_vol \div au)
    IN  Aligned(b_vol, n_vol, au, fmt, TableSectors(fmt, n_vol \div au))

BootRecord(p) ==
    [kind |-> "boot", ssize |-> SS, csize |-> p.au, nrsv |-> p.n_rsv % 65536,
     n_fats |-> N_FATS, n_rootdir |-> IF p.fmt = 32 THEN 0 ELSE N_ROOTDIR,
     tsect |-> p.n_vol,
     fatsz |-> IF p.fmt = 32 THEN p.n_fat ELSE p.n_fat % 65536,
     root |-> IF p.fmt = 32 THEN 2 ELSE 0, fsinfo |-> p.fmt = 32]

(* The bytes that reserve the first entries, at the start of the table.    *)
Reserved(p) ==
    LET at == (p.b_vol + p.n_rsv) * SS
        n == CASE p.fmt = 12 -> 3 [] p.fmt = 16 -> 4 [] OTHER -> 12
    IN [a \in at .. at + n - 1 |->
           IF a = at THEN IF p.b_vol = 0 THEN 240 ELSE 248
           ELSE IF a = at + 11 THEN 15 ELSE 255]

(* Mutant: only the root directory of FAT12 and FAT16 is cleared.          *)
RootSectorsFixed(p) == p.n_dir
RootSectors(p) == IF p.fmt = 32 THEN p.au ELSE p.n_dir

(* Mutant: the cluster of the root directory counts as free.               *)
FreeClustersAll(p) == p.n_clst
FreeClusters(p) == p.n_clst - 1

(* What has been written, overwritten by g.                                *)
Over(f, g) == [x \in DOMAIN f \cup DOMAIN g |-> IF x \in DOMAIN g THEN g[x] ELSE f[x]]
NoBytes == [x \in {} |-> 0]

(* n sectors are written up to the first that the drive refuses: what they *)
(* held is gone.                                                           *)
Taken(from, n, bad) ==
    {s \in from .. from + n - 1 :
        s < drive.count /\ \A r \in bad : r < from \/ s < r}

Cleared(d, from, n, bad) ==
    LET taken == Taken(from, n, bad)
    IN  IF ~d.ok THEN d
        ELSE [boots |-> Restrict(d.boots, DOMAIN d.boots \ taken),
              medium |-> Restrict(d.medium, {a \in DOMAIN d.medium :
                                                a \div SS \notin taken}),
              ok |-> taken = from .. from + n - 1]

PutRecord(d, sect, record, bad) ==
    LET e == Cleared(d, sect, 1, bad)
    IN  IF e.ok THEN [e EXCEPT !.boots = Over(@, [s \in {sect} |-> record])] ELSE e

FatStart(p) == p.b_vol + p.n_rsv
DataStart(p) == FatStart(p) + p.n_fat * N_FATS      \* of the root directory

PutTable(d, p, bad) ==
    LET e == Cleared(d, FatStart(p), p.n_fat * N_FATS, bad)
    IN  IF d.ok /\ FatStart(p) \in Taken(FatStart(p), p.n_fat * N_FATS, bad)
        THEN [e EXCEPT !.medium = Over(@, Reserved(p))] ELSE e

Partition(p) == [kind |-> "partition", start |-> <<p.b_vol, 0, 0, 0>>]
FsInfo(p) == [kind |-> "fsinfo", free |-> FreeClusters(p)]

(* The writes of f_mkfs.  It ignores the result of the last one.           *)
Formatted(p, bad) ==
    LET start == [boots |-> boots, medium |-> medium, ok |-> TRUE]
        mbr == IF p.b_vol = 0 THEN start ELSE PutRecord(start, 0, Partition(p), bad)
        vbr == PutRecord(mbr, p.b_vol, BootRecord(p), bad)
        table == PutTable(vbr, p, bad)
        root == Cleared(table, DataStart(p), RootSectors(p), bad)
    IN  IF p.fmt = 32
        THEN [PutRecord(root, p.b_vol + 1, FsInfo(p), bad) EXCEPT !.ok = root.ok]
        ELSE root

(* Where a write starts or ends.                                           *)
Edges(p) == {0, p.b_vol, p.b_vol + 1, FatStart(p), DataStart(p) - 1,
             DataStart(p), DataStart(p) + RootSectors(p) - 1}

(* What is left when f_mkfs returns FR_OK: the layout, the sectors cleared, *)
(* and whether FSINFO was written.                                         *)
Made(p, bad) ==
    [kind |-> "layout", fmt |-> p.fmt, au |-> p.au, b_vol |-> p.b_vol,
     n_clst |-> p.n_clst,
     cleared |-> FatStart(p) .. DataStart(p) + RootSectors(p) - 1,
     hasinfo |-> p.b_vol + 1 \notin bad]

-----------------------------------------------------------------------------
(* find_volume.                                                            *)

(* 0: FAT boot sector, 1: boot sector but not FAT, 2: none, 3: disk error. *)
check_fs(sect, bad) ==
    IF sect \in bad THEN 3
    ELSE IF sect \notin DOMAIN boots THEN 2
    ELSE IF boots[sect].kind = "boot" THEN 0 ELSE 1

(* The boot sector of the volume, and the last verdict of check_fs.        *)
BootSector(bad) ==
    LET first == check_fs(0, bad)
        br == boots[0].start
        fmt(i) == IF br[i] = 0 THEN 2 ELSE check_fs(br[i], bad)
        hits == {i \in 1 .. 4 : fmt(i) = 0}
    IN  IF first # 1 THEN [bsect |-> 0, fmt |-> first]
        ELSE IF hits = {} THEN [bsect |-> br[4], fmt |-> fmt(4)]
        ELSE [bsect |-> br[CHOOSE i \in hits : \A j \in hits : i <= j], fmt |-> 0]

Failed(res) == [res |-> res]

(* Mutant: an entry of FAT16 taken for a byte and a half.                  *)
FatBytesOf12(fmt, n_fatent) ==
    IF fmt = 32 THEN n_fatent * 4 ELSE (n_fatent * 3) \div 2 + (n_fatent % 2)
FatBytes(fmt, n_fatent) ==
    CASE fmt = 32 -> n_fatent * 4
      [] fmt = 16 -> n_fatent * 2
      [] OTHER -> (n_fatent * 3) \div 2 + (n_fatent % 2)

(* The checks on the boot sector b at bsect, and the object they give.     *)
Mounted(b, bsect, bad) ==
    LET fasize == b.fatsz * b.n_fats
        sysect == b.nrsv + fasize + b.n_rootdir \div (SS \div SZ_DIRE)
        nclst == (b.tsect - sysect) \div b.csize
        fmt == SubType(nclst)
        n_fatent == nclst + 2
        szbfat == FatBytes(fmt, n_fatent)
        info == fmt = 32 /\ b.fsinfo /\ bsect + 1 \notin bad
        loaded == info /\ bsect + 1 \in DOMAIN boots
                       /\ boots[bsect + 1].kind = "fsinfo"
    IN  IF \/ b.ssize # SS
           \/ b.n_fats \notin {1, 2}
           \/ b.csize \notin Units
           \/ b.n_rootdir % (SS \div SZ_DIRE) # 0
           \/ b.nrsv = 0
           \/ b.tsect < sysect
           \/ nclst = 0
           \/ (fmt = 32) # (b.n_rootdir = 0)
           \/ b.fatsz < (szbfat + SS - 1) \div SS
        THEN Failed("FR_NO_FILESYSTEM")
        ELSE [res |-> "FR_OK", fs_type |-> fmt, csize |-> b.csize,
              fsize |-> b.fatsz, n_fatent |-> n_fatent, volbase |-> bsect,
              fatbase |-> bsect + b.nrsv, database |-> bsect + sysect,
              dirbase |-> IF fmt = 32 THEN b.root ELSE bsect + b.nrsv + fasize,
              free_clust |-> IF loaded THEN boots[bsect + 1].free ELSE Unknown]

find_volume(bad) ==
    LET at == BootSector(bad)
    IN  CASE at.fmt = 3 -> Failed("FR_DISK_ERR")
          [] at.fmt \in {1, 2} -> Failed("FR_NO_FILESYSTEM")
          [] OTHER -> Mounted(boots[at.bsect], at.bsect, bad)

clust2sect(f, clst) ==
    IF clst - 2 \in 0 .. f.n_fatent - 3 THEN (clst - 2) * f.csize + f.database
    ELSE 0

-----------------------------------------------------------------------------
(* The allocation table, through the window.                               *)

NoWindow == [sect |-> NoSector, edits |-> NoBytes, wflag |-> FALSE]

Byte(m, a) == IF a \in DOMAIN m THEN m[a] ELSE 0
Visible == Over(medium, win.edits)

(* The bytes of entry c, and the sectors they lie in.                      *)
Offset(fs_type, c) ==
    CASE fs_type = 12 -> c + c \div 2
      [] fs_type = 16 -> c * 2
      [] OTHER -> c * 4
EntryAt(f, c) == f.fatbase * SS + Offset(f.fs_type, c)
Place(f, c) == EntryAt(f, c) .. EntryAt(f, c) + (IF f.fs_type = 32 THEN 3 ELSE 1)
SectorsOf(f, c) == {a \div SS : a \in Place(f, c)}

(* get_fat, when move_window succeeds.                                     *)
get_fat(f, m, c) ==
    LET at == EntryAt(f, c)
        b(i) == Byte(m, at + i)
    IN  CASE f.fs_type = 12 /\ c % 2 = 1 -> b(0) \div 16 + 16 * b(1)
          [] f.fs_type = 12 /\ c % 2 = 0 -> b(0) + 256 * (b(1) % 16)
          [] f.fs_type = 16 -> b(0) + 256 * b(1)
          [] OTHER -> b(0) + 256 * b(1) + 65536 * b(2) + 16777216 * (b(3) % 16)

sync_window(d, bad) ==
    IF ~d.win.wflag THEN d
    ELSE IF d.win.sect \in bad THEN [d EXCEPT !.ok = FALSE]
    ELSE [d EXCEPT !.medium = Over(@, d.win.edits),
                   !.win = [NoWindow EXCEPT !.sect = d.win.sect]]

move_window(d, sect, bad) ==
    IF ~d.ok \/ sect = d.win.sect THEN d
    ELSE LET e == sync_window(d, bad)
         IN IF ~e.ok THEN e
            ELSE IF sect \in bad THEN [e EXCEPT !.win = NoWindow, !.ok = FALSE]
            ELSE [e EXCEPT !.win.sect = sect]

(* Some bytes of the window are changed.                                   *)
Store(d, bytes) ==
    IF ~d.ok THEN d ELSE [d EXCEPT !.win.edits = Over(@, bytes), !.win.wflag = TRUE]

(* Mutant: the half byte of the neighbour is overwritten.                  *)
Put12Careless(d, f, c, val, bad) ==
    LET at == EntryAt(f, c)
        lo == IF c % 2 = 1 THEN 16 * (val % 16) ELSE val % 256
        hi == IF c % 2 = 1 THEN (val \div 16) % 256 ELSE (val \div 256) % 16
        first == Store(move_window(d, at \div SS, bad), [a \in {at} |-> lo])
    IN  Store(move_window(first, (at + 1) \div SS, bad), [a \in {at + 1} |-> hi])

Put12(d, f, c, val, bad) ==
    LET at == EntryAt(f, c)
        old(e, a) == Byte(Over(e.medium, e.win.edits), a)
        first == move_window(d, at \div SS, bad)
        lo == IF c % 2 = 1 THEN (old(first, at) % 16) + 16 * (val % 16) ELSE val % 256
        second == move_window(Store(first, [a \in {at} |-> lo]), (at + 1) \div SS, bad)
        hi == IF c % 2 = 1 THEN (val \div 16) % 256
              ELSE old(second, at + 1) - (old(second, at + 1) % 16)
                   + ((val \div 256) % 16)
    IN  Store(second, [a \in {at + 1} |-> hi])

(* Mutant: the first byte goes to the medium before the others.            *)
PutWholeEarly(d, f, c, val, bad) ==
    LET at == EntryAt(f, c)
        loaded == move_window(d, at \div SS, bad)
        early == sync_window(Store(loaded, [a \in {at} |-> val % 256]), bad)
        new(i) == (val \div <<1, 256, 65536, 16777216>>[i + 1]) % 256
    IN  Store(early, [a \in Place(f, c) \ {at} |-> new(a - at)])

(* The four upper bits of a FAT32 entry are kept.                          *)
PutWhole(d, f, c, val, bad) ==
    LET at == EntryAt(f, c)
        loaded == move_window(d, at \div SS, bad)
        old == Byte(Over(loaded.medium, loaded.win.edits), at + 3)
        new(i) == LET byte == (val \div <<1, 256, 65536, 16777216>>[i + 1]) % 256
                  IN IF i = 3 THEN byte + (old - (old % 16)) ELSE byte
    IN  Store(loaded, [a \in Place(f, c) |-> new(a - at)])

put_fat(f, c, val, bad) ==
    LET d == [medium |-> medium, win |-> win, ok |-> TRUE]
    IN  IF c \notin 2 .. f.n_fatent - 1 THEN [d EXCEPT !.ok = FALSE]
        ELSE IF f.fs_type = 12 THEN Put12(d, f, c, val, bad)
        ELSE PutWhole(d, f, c, val, bad)

-----------------------------------------------------------------------------
Nothing == [c |-> 0, val |-> 0, ok |-> TRUE]

Init ==
    /\ drive \in Drives
    /\ boots \in {NoBytes} \cup {[s \in {0} |-> b] : b \in Foreign}
    /\ medium = NoBytes
    /\ fs = Failed("FR_NOT_ENABLED")
    /\ win = NoWindow
    /\ made = None
    /\ formats = 0 /\ puts = 0
    /\ last = Nothing

Ready == fs.res = "FR_OK"

(* The object loses its type whatever happens next; a layout that is       *)
(* refused writes nothing.  With sfd = 1 the volume starts at sector 0.    *)
f_mkfs ==
    /\ formats < MaxFormats /\ formats + puts < MaxCalls
    /\ formats' = formats + 1
    /\ fs' = Failed("FR_NOT_ENABLED")
    /\ win' = NoWindow
    /\ last' = Nothing
    /\ \E b_vol \in {0, 63}, arg \in AllocUnits :
        \E p \in {IF drive.count < 128 THEN Aborted
                  ELSE Layout(b_vol, drive.count - b_vol, arg)} :
            \/ /\ p = Aborted
               /\ UNCHANGED <<boots, medium, made>>
            \/ /\ p # Aborted
               /\ \E bad \in {{}} \cup {{s} : s \in Edges(p)} :
                    \E d \in {Formatted(p, bad)} :
                        /\ boots' = d.boots
                        /\ medium' = d.medium
                        /\ made' = IF d.ok THEN Made(p, bad) ELSE None
    /\ UNCHANGED <<drive, puts>>

(* The next file function mounts the volume.                               *)
Mount ==
    /\ ~Ready
    /\ \E bad \in {{}} \cup {{s} : s \in DOMAIN boots} : fs' = find_volume(bad)
    /\ win' = NoWindow
    /\ UNCHANGED <<drive, boots, medium, made, formats, puts, last>>

Watched == {c \in NearStart \cup {fs.n_fatent - 1, fs.n_fatent} :
                c <= fs.n_fatent}
Values == {0, fs.n_fatent - 1, EOC}

Put ==
    /\ Ready
    /\ formats + puts < MaxCalls
    /\ puts' = puts + 1
    /\ \E c \in Watched, val \in Values :
       \E bad \in {{}, {win.sect}} \cup {{s} : s \in SectorsOf(fs, c)} :
          LET d == put_fat(fs, c, val, bad)
          IN /\ medium' = d.medium
             /\ win' = d.win
             /\ last' = [c |-> c, val |-> val, ok |-> d.ok]
    /\ UNCHANGED <<drive, boots, fs, made, formats>>

(* sync_fs writes the window; the drive loses power.                       *)
Sync ==
    /\ Ready /\ win.wflag
    /\ \E bad \in {{}, {win.sect}} :
          LET d == sync_window([medium |-> medium, win |-> win, ok |-> TRUE], bad)
          IN medium' = d.medium /\ win' = d.win
    /\ UNCHANGED <<drive, boots, fs, made, formats, puts, last>>

PowerLoss ==
    /\ Ready
    /\ fs' = Failed("FR_NOT_ENABLED")
    /\ win' = NoWindow
    /\ last' = Nothing
    /\ UNCHANGED <<drive, boots, medium, made, formats, puts>>

Next == f_mkfs \/ Mount \/ Put \/ Sync \/ PowerLoss
Spec == Init /\ [][Next]_vars

-----------------------------------------------------------------------------
(* Properties.                                                             *)

Results == {"FR_OK", "FR_NOT_ENABLED", "FR_DISK_ERR", "FR_NO_FILESYSTEM"}

(* The types; a mounted object has one of the three sub-types, and the     *)
(* unsaved bytes belong to the sector in the window.                       *)
TypeOK ==
    /\ drive \in Drives
    /\ \A s \in DOMAIN boots : boots[s].kind \in {"boot", "partition", "fsinfo"}
    /\ \A a \in DOMAIN medium : medium[a] \in 0 .. 255
    /\ fs.res \in Results
    /\ Ready => fs.fs_type \in {12, 16, 32}
    /\ \A a \in DOMAIN win.edits :
          win.edits[a] \in 0 .. 255 /\ win.wflag /\ a \div SS = win.sect
    /\ made = None \/ made.kind = "layout"
    /\ formats \in 0 .. MaxFormats /\ puts \in 0 .. MaxCalls

(* A volume whose f_mkfs (ff.c:4047) returned FR_OK mounts as it was laid  *)
(* out: find_volume (ff.c:2158) finds its sub-type and its clusters, and   *)
(* its table and root directory are the sectors that f_mkfs cleared, no    *)
(* more and no fewer.  Not when aligning the data area left no room for a  *)
(* cluster: f_mkfs returns FR_OK (its check for a volume that is too small *)
(* comes before), and nothing mounts.                                      *)
FormatMounts ==
    made # None =>
        LET f == find_volume({})
            root == IF made.fmt = 32
                    THEN clust2sect(f, f.dirbase) .. clust2sect(f, f.dirbase) + f.csize - 1
                    ELSE f.dirbase .. f.database - 1
        IN  IF made.n_clst = 0 THEN f.res = "FR_NO_FILESYSTEM"
            ELSE /\ f.res = "FR_OK"
                 /\ f.fs_type = made.fmt /\ f.n_fatent = made.n_clst + 2
                 /\ f.csize = made.au /\ f.volbase = made.b_vol
                 /\ made.cleared = f.fatbase .. f.fatbase + f.fsize * N_FATS - 1
                                   \cup root

(* A mounted volume that f_mkfs laid out, a cut f_mkfs included, stays on  *)
(* its drive: the table, the root directory and the data follow each other *)
(* without overlap, the last entry ends inside the table, and the last     *)
(* sector of the last cluster is a sector of the drive.                    *)
VolumeInside ==
    /\ TypeOK
    /\ Ready =>
        /\ fs.volbase < fs.fatbase
        /\ \A c \in {2, fs.n_fatent - 1} :
              Place(fs, c) \subseteq
                  fs.fatbase * SS .. (fs.fatbase + fs.fsize) * SS - 1
        /\ fs.fatbase + fs.fsize <= fs.database
        /\ fs.fs_type # 32 => fs.fatbase + fs.fsize <= fs.dirbase
                              /\ fs.dirbase < fs.database
        /\ boots[fs.volbase] \notin Foreign =>
              clust2sect(fs, fs.n_fatent - 1) + fs.csize <= drive.count

(* The number of free clusters that FSINFO gives a fresh FAT32 volume is   *)
(* the number of its entries that are zero, when f_mkfs could write it;    *)
(* it ignores the result of that write (ff.c:4279).                        *)
FreshCount ==
    (Ready /\ fs.free_clust # Unknown /\ made # None /\ puts = 0)
        => LET written == {(a - fs.fatbase * SS) \div 4 : a \in DOMAIN medium}
               used == {c \in written \cap 2 .. fs.n_fatent - 1 :
                            get_fat(fs, medium, c) # 0}
           IN made.hasinfo => fs.free_clust = fs.n_fatent - 2 - Cardinality(used)

Seen(f) == {c \in 2 .. 5 \cup 339 .. 344 \cup f.n_fatent - 3 .. f.n_fatent - 1 :
               c \in 2 .. f.n_fatent - 1}
Kept(f, val) == CASE f.fs_type = 12 -> val % 4096
                  [] f.fs_type = 16 -> val % 65536
                  [] OTHER -> val % (EOC + 1)

(* put_fat (ff.c:830) stores its value in the entry it is given, where     *)
(* get_fat (ff.c:775) finds it, and changes no other entry, also when it   *)
(* fails; nothing else but the loss of the window changes an entry.  A put *)
(* that fails changes nothing, except in FAT12 where the entry lies across *)
(* two sectors (ff.c:853).                                                 *)
EntriesApart ==
    [][(Ready /\ fs' = fs) =>
         \A c \in Seen(fs) :
            LET old == get_fat(fs, Visible, c)
                new == get_fat(fs, Visible', c)
                put == puts' # puts /\ c = last'.c
            IN  IF put /\ last'.ok THEN new = Kept(fs, last'.val)
                ELSE \/ new = old
                     \/ put /\ Cardinality(SectorsOf(fs, c)) = 2]_vars

(* An entry on the medium is changed whole, by a step or by a sequence of  *)
(* them that a failure or a power loss cuts short, unless it is a FAT12    *)
(* entry that lies across two sectors (ff.c:853).                          *)
EntriesWhole ==
    [][\A c \in IF Ready THEN Seen(fs) ELSE {} :
          LET old == get_fat(fs, medium, c)
              new == get_fat(fs, medium', c)
          IN  new # old /\ formats' = formats =>
                 \/ Cardinality(SectorsOf(fs, c)) = 2
                 \/ new = get_fat(fs, Visible, c)]_vars

=============================================================================
