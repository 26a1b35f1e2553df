-------------------------- MODULE VolumeLayoutProofs --------------------------
(***************************************************************************)
(* Theorems about VolumeLayout, for every drive of at most MaxSectors      *)
(* sectors, erase block, allocation unit and foreign boot sector: where    *)
(* the areas and the entries of a volume lie, what f_mkfs writes and what  *)
(* find_volume makes of it, and which bytes a put changes.                 *)
(***************************************************************************)
EXTENDS VolumeLayout, FiniteSetTheorems, TLAPS

-----------------------------------------------------------------------------
(* Arithmetic.                                                             *)

LEMMA Division ==
    ASSUME NEW a \in Nat, NEW d \in Nat \ {0}
    PROVE  /\ a \div d \in Nat /\ (a % d) \in 0 .. d - 1
           /\ a = d * (a \div d) + (a % d)
<1>1. (a % d) = a - d * (a \div d)
  OBVIOUS
<1>2. QED
  BY <1>1

(* Eight bits of a number.                                                 *)
Bit(y, i) == (y \div i) % 2
Bits(y) == Bit(y, 1) + 2 * Bit(y, 2) + 4 * Bit(y, 4) + 8 * Bit(y, 8)
           + 16 * Bit(y, 16) + 32 * Bit(y, 32) + 64 * Bit(y, 64) + 128 * Bit(y, 128)

LEMMA EightBits ==
    ASSUME NEW y \in Nat
    PROVE  y = 256 * (y \div 256) + Bits(y)
<1>1. /\ y = 2 * (y \div 2) + Bit(y, 1)
      /\ y \div 2 \in Nat /\ Bit(y, 1) \in {0, 1}
  BY DEF Bit
<1>2. /\ y \div 2 = 2 * (y \div 4) + Bit(y, 2)
      /\ y \div 4 \in Nat /\ Bit(y, 2) \in {0, 1}
  BY DEF Bit
<1>3. /\ y \div 4 = 2 * (y \div 8) + Bit(y, 4)
      /\ y \div 8 \in Nat /\ Bit(y, 4) \in {0, 1}
  BY DEF Bit
<1>4. /\ y \div 8 = 2 * (y \div 16) + Bit(y, 8)
      /\ y \div 16 \in Nat /\ Bit(y, 8) \in {0, 1}
  BY DEF Bit
<1>5. /\ y \div 16 = 2 * (y \div 32) + Bit(y, 16)
      /\ y \div 32 \in Nat /\ Bit(y, 16) \in {0, 1}
  BY DEF Bit
<1>6. /\ y \div 32 = 2 * (y \div 64) + Bit(y, 32)
      /\ y \div 64 \in Nat /\ Bit(y, 32) \in {0, 1}
  BY DEF Bit
<1>7. /\ y \div 64 = 2 * (y \div 128) + Bit(y, 64)
      /\ y \div 128 \in Nat /\ Bit(y, 64) \in {0, 1}
  BY DEF Bit
<1>8. /\ y \div 128 = 2 * (y \div 256) + Bit(y, 128)
      /\ y \div 256 \in Nat /\ Bit(y, 128) \in {0, 1}
  BY DEF Bit
<1>9. QED
  BY <1>1, <1>2, <1>3, <1>4, <1>5, <1>6, <1>7, <1>8 DEF Bits

(* Bits that another number also has are no more.                          *)
LEMMA SharedBits ==
    ASSUME NEW x \in Nat, NEW y \in Nat
    PROVE  BitAndBytes(x, y) \in 0 .. Bits(y)
<1> DEFINE both(i) == i * (((x \div i) % 2) * ((y \div i) % 2))
<1>1. ASSUME NEW i \in {1, 2, 4, 8, 16, 32, 64, 128}
      PROVE  /\ both(i) \in Nat /\ Bit(y, i) \in {0, 1}
             /\ both(i) <= i * Bit(y, i)
  <2>1. x \div i \in Nat /\ y \div i \in Nat
    BY <1>1, Division
  <2>2. (x \div i) % 2 \in {0, 1} /\ (y \div i) % 2 \in {0, 1}
    BY <2>1
  <2>3. ((x \div i) % 2) * ((y \div i) % 2) \in {0, (y \div i) % 2}
    BY <2>2
  <2>4. QED
    BY <1>1, <2>2, <2>3 DEF Bit
<1>2. BitAndBytes(x, y) = both(1) + both(2) + both(4) + both(8) + both(16) + both(32)
                       + both(64) + both(128)
  BY DEF BitAndBytes
<1> HIDE DEF both
<1>3. QED
  BY <1>1, <1>2 DEF Bits

LEMMA AndBelow ==
    ASSUME NEW x \in Nat, NEW y \in Nat, y < 65536
    PROVE  BitAnd(x, y) \in 0 .. y
<1> DEFINE h == y \div 256
<1>0. y \in Nat /\ h \in 0 .. 255
  OBVIOUS
<1>a. x \div 256 \in Nat
  OBVIOUS
<1> HIDE DEF h
<1>1. h \in Nat /\ h \div 256 = 0
  BY <1>0
<1>b. y = 256 * h + Bits(y)
  BY <1>0, EightBits DEF h
<1>c. h = 256 * (h \div 256) + Bits(h)
  BY <1>1, EightBits
<1>3. BitAndBytes(x, y) \in 0 .. Bits(y)
  BY <1>0, SharedBits
<1>d. BitAndBytes(x \div 256, h) \in 0 .. Bits(h)
  BY <1>1, <1>a, SharedBits
<1>4. Bits(y) \in Int /\ Bits(h) \in Int
  BY <1>0, <1>1 DEF Bits, Bit
<1>e. BitAnd(x, y) = BitAndBytes(x, y) + 256 * BitAndBytes(x \div 256, h)
  BY DEF BitAnd, h
<1>5. QED
  BY <1>0, <1>1, <1>b, <1>c, <1>3, <1>d, <1>4, <1>e

LEMMA BelowBlock ==
    ASSUME NEW x \in Nat, NEW m \in Nat, m < 65536, NEW y \in Nat, x = y + m
    PROVE  x - BitAnd(x, m) - y \in 0 .. m
<1>1. BitAnd(x, m) \in 0 .. m
  BY AndBelow
<1>2. QED
  BY <1>1

MaxPadding == 32767

(* The alignment moves the data less than an erase block.                  *)
LEMMA PaddingIs ==
    ASSUME NEW from \in Nat, NEW size \in Nat
    PROVE  Padding(from, size) \in 0 .. MaxPadding
<1>1. PICK n \in Nat : 0 < n /\ n <= 32768 /\ n = IF size = 0 \/ size > 32768 THEN 1 ELSE size
  OBVIOUS
<1>2. PICK m \in Nat : m < 32768 /\ m = n - 1
  BY <1>1
<1>3. PICK e \in Nat : e = from + m /\ e = from + n - 1
  BY <1>2
<1>4. Padding(from, size) = (e - BitAnd(e, m) - from) \div 1
  BY <1>1, <1>2, <1>3 DEF Padding, N_FATS
<1>5. e - BitAnd(e, m) - from \in 0 .. m
  BY <1>1, <1>2, <1>3, BelowBlock
<1>6. PICK k \in Nat : k < 32768 /\ Padding(from, size) = k
  BY <1>2, <1>4, <1>5
<1>7. k <= MaxPadding
  BY <1>6 DEF MaxPadding
<1>8. k \in 0 .. MaxPadding
  <2>1. MaxPadding \in Nat
    BY DEF MaxPadding
  <2>2. QED
    BY <1>7, <2>1
<1>9. QED
  BY <1>6, <1>8

-----------------------------------------------------------------------------
(* The layout f_mkfs computes.                                             *)

LEMMA UnitChosen ==
    ASSUME NEW vs \in Nat
    PROVE  \E j \in DOMAIN vst : vs >= vst[j] /\ \A k \in 1 .. j - 1 : vs < vst[k]
<1>1. /\ DOMAIN vst = 1 .. 11
      /\ vst[1] = 1024 /\ vst[2] = 512 /\ vst[3] = 256 /\ vst[4] = 128
      /\ vst[5] = 64 /\ vst[6] = 32 /\ vst[7] = 16 /\ vst[8] = 8 /\ vst[9] = 4
      /\ vst[10] = 2 /\ vst[11] = 0
  BY DEF vst
<1>2. CASE vs >= 32
  BY <1>1, <1>2
<1>3. CASE vs < 32
  BY <1>1, <1>3
<1>4. QED
  BY <1>2, <1>3

LEMMA ClusterSizeIs ==
    ASSUME NEW n_vol \in Nat, NEW au \in Nat, au <= MaxSectors
    PROVE  ClusterSize(n_vol, au) \in Units
<1> DEFINE vs == n_vol \div 2000
           i == CHOOSE j \in DOMAIN vst :
                  vs >= vst[j] /\ \A k \in 1 .. j - 1 : vs < vst[k]
           unit == IF PowerOf2(au) /\ au # 0 THEN au ELSE cst[i]
           sectors == IF unit >= SS THEN unit \div SS ELSE unit
<1>1. i \in 1 .. 11
  <2>1. vs \in Nat
    OBVIOUS
  <2>2. DOMAIN vst = 1 .. 11
    BY DEF vst
  <2>3. QED
    BY <2>1, <2>2, UnitChosen
<1>2. \A k \in 1 .. 11 : cst[k] \in {512, 1024, 2048, 4096, 8192, 16384, 32768}
  BY DEF cst
<1>3. PICK u \in Units, v \in {1, 128, 16384, 2097152} : unit = u * v
  <2>1. CASE PowerOf2(au) /\ au # 0
    BY <2>1 DEF PowerOf2
  <2>2. CASE ~(PowerOf2(au) /\ au # 0)
    <3>1. unit \in {512, 1024, 2048, 4096, 8192, 16384, 32768}
      <4>1. unit = cst[i]
        BY <2>2
      <4> HIDE DEF i, unit
      <4>2. QED
        BY <1>1, <1>2, <4>1
    <3>2. QED
      BY <3>1 DEF Units
  <2>3. QED
    BY <2>1, <2>2
<1>4. ClusterSize(n_vol, au) = IF sectors > 128 THEN 128 ELSE sectors
  BY DEF ClusterSize
<1>5. sectors = IF unit >= 512 THEN unit \div 512 ELSE unit
  BY DEF SS
<1> HIDE DEF sectors, unit
<1>6. CASE v = 1
  BY <1>3, <1>4, <1>5, <1>6 DEF Units
<1>7. CASE v = 128
  BY <1>3, <1>4, <1>5, <1>7 DEF Units
<1>8. CASE v = 16384
  BY <1>3, <1>4, <1>5, <1>8 DEF Units
<1>9. CASE v = 2097152
  BY <1>3, <1>4, <1>5, <1>9 DEF Units
<1>10. QED
  BY <1>3, <1>6, <1>7, <1>8, <1>9

LayoutType ==
    [kind : {"layout"}, fmt : {12, 16, 32}, au : Units, b_vol : Nat, n_vol : Nat,
     n_rsv : Nat, n_fat : Nat, n_dir : Nat, n_clst : Nat]

(* What is left for data.                                                  *)
Room(p) == p.n_vol - p.n_rsv - p.n_fat - p.n_dir

(* What find_volume will want of a layout: the fields fit the boot record, *)
(* and if the areas fit the volume, the clusters are as many as find_volume *)
(* will count, of the same sub-type, and all have entries in the table.    *)
Sound(p) ==
    /\ p \in LayoutType
    /\ IF p.fmt = 32 THEN p.n_rsv >= 32 /\ p.n_rsv < 65536 ELSE p.n_rsv = 1
    /\ p.n_dir = IF p.fmt = 32 THEN 0 ELSE 32
    /\ p.n_fat > 0 /\ (p.fmt # 32 => p.n_fat < 65536)
    /\ Room(p) >= 0 => /\ p.n_clst = Room(p) \div p.au
                       /\ SubType(p.n_clst) = p.fmt
                       /\ FatBytes(p.fmt, p.n_clst + 2) <= p.n_fat * 512

LEMMA InUnits ==
    ASSUME NEW a \in Int, NEW b \in Nat, NEW u \in Units, a <= b
    PROVE  /\ b \div u \in Nat /\ b \div u <= b /\ a \div u \in Int
           /\ a \div u <= b \div u
           /\ a >= 0 => a \div u \in Nat /\ a \div u <= a /\ (a \div u) * u <= a
BY DEF Units

(* The table has entries for as many clusters as there could be.           *)
LEMMA TableCovers ==
    ASSUME NEW guess \in Nat, NEW n \in Nat, n <= guess, NEW fmt, fmt = SubType(guess)
    PROVE  /\ fmt \in {12, 16, 32}
           /\ TableSectors(fmt, guess) \in Nat /\ TableSectors(fmt, guess) > 0
           /\ FatBytes(fmt, n + 2) \in Nat
           /\ FatBytes(fmt, n + 2) <= TableSectors(fmt, guess) * 512
           /\ fmt # 32 => TableSectors(fmt, guess) < 1000
<1>0. fmt \in {12, 16, 32}
  BY DEF SubType
<1>1. CASE fmt = 32
  <2>1. TableSectors(fmt, guess) = (guess * 4 + 8 + 511) \div 512
    BY <1>1 DEF TableSectors, SS
  <2>2. FatBytes(fmt, n + 2) = (n + 2) * 4
    BY <1>1 DEF FatBytes
  <2>3. QED
    BY <1>1, <2>1, <2>2
<1>2. CASE fmt = 16
  <2>1. TableSectors(fmt, guess) = (guess * 2 + 4 + 511) \div 512
    BY <1>2 DEF TableSectors, SS
  <2>2. FatBytes(fmt, n + 2) = (n + 2) * 2
    BY <1>2 DEF FatBytes
  <2>3. guess < 65526
    BY <1>2 DEF SubType, MIN_FAT16, MIN_FAT32
  <2>4. QED
    BY <1>2, <2>1, <2>2, <2>3
<1>3. CASE fmt = 12
  <2>1. TableSectors(fmt, guess) = ((guess * 3 + 1) \div 2 + 3 + 511) \div 512
    BY <1>3 DEF TableSectors, SS
  <2>2. FatBytes(fmt, n + 2) = ((n + 2) * 3) \div 2 + ((n + 2) % 2)
    BY <1>3 DEF FatBytes
  <2>3. guess < 4086
    BY <1>3 DEF SubType, MIN_FAT16, MIN_FAT32
  <2>4. ((n + 2) * 3) \div 2 + ((n + 2) % 2) <= (guess * 3 + 1) \div 2 + 3
    OBVIOUS
  <2>5. QED
    BY <1>3, <2>1, <2>2, <2>3, <2>4
<1>4. QED
  BY <1>0, <1>1, <1>2, <1>3

LEMMA AreasAre ==
    ASSUME NEW b_vol \in Nat, NEW n_vol \in Nat, NEW au \in Units, NEW guess \in Nat,
           guess = n_vol \div au, NEW fmt, fmt = SubType(guess),
           NEW fatsz, fatsz = TableSectors(fmt, guess),
           NEW n_rsv \in Nat, NEW n_fat \in Nat, NEW n_dir \in Nat,
           IF fmt = 32 THEN n_rsv >= 32 /\ n_rsv < 65536 ELSE n_rsv = 1,
           fatsz <= n_fat, fmt # 32 => n_fat < 65536,
           n_dir = IF fmt = 32 THEN 0 ELSE 32,
           NEW p, p = Areas(b_vol, n_vol, au, fmt, n_rsv, n_fat, n_dir), p # Aborted
    PROVE  Sound(p) /\ p.b_vol = b_vol /\ p.n_vol = n_vol
<1> DEFINE room == n_vol - n_rsv - n_fat - n_dir
           n_clst == IF room < 0 THEN Wrapped ELSE room \div au
<1>0. n_fat * N_FATS = n_fat
  BY DEF N_FATS
<1>1. p = IF \/ fmt = 16 /\ n_clst < MIN_FAT16
             \/ fmt = 32 /\ n_clst < MIN_FAT32
          THEN Aborted
          ELSE [kind |-> "layout", fmt |-> fmt, au |-> au, b_vol |-> b_vol,
                n_vol |-> n_vol, n_rsv |-> n_rsv, n_fat |-> n_fat,
                n_dir |-> n_dir, n_clst |-> n_clst]
  BY <1>0 DEF Areas
<1>2. n_clst = IF room < 0 THEN Wrapped ELSE room \div au
  OBVIOUS
<1> HIDE DEF n_clst
<1>30. room \in Int /\ room = n_vol - n_rsv - n_fat - n_dir
  OBVIOUS
<1> HIDE DEF room
<1>10. /\ fmt \in {12, 16, 32} /\ fatsz \in Nat /\ fatsz > 0
       /\ fmt # 32 => fatsz < 1000
       /\ \A m \in Nat : m <= guess => /\ FatBytes(fmt, m + 2) <= fatsz * 512
                                       /\ FatBytes(fmt, m + 2) \in Nat
  BY TableCovers
<1>18. n_clst \in Nat /\ (room >= 0 => n_clst = room \div au /\ n_clst <= guess)
  <2>1. CASE room < 0
    BY <1>2, <1>30, <2>1 DEF Wrapped
  <2>2. CASE room >= 0
    <3>1. room <= n_vol
      BY <1>30
    <3>2. QED
      BY <1>2, <1>30, <2>2, <3>1, InUnits
  <2>3. QED
    BY <1>30, <2>1, <2>2
<1>17. /\ p = [kind |-> "layout", fmt |-> fmt, au |-> au, b_vol |-> b_vol,
               n_vol |-> n_vol, n_rsv |-> n_rsv, n_fat |-> n_fat,
               n_dir |-> n_dir, n_clst |-> n_clst]
       /\ fmt = 16 => ~(n_clst < MIN_FAT16)
       /\ fmt = 32 => ~(n_clst < MIN_FAT32)
  BY <1>1, <1>18 DEF MIN_FAT16, MIN_FAT32
<1>19. ASSUME room >= 0 PROVE SubType(n_clst) = fmt
  <2>1. n_clst <= guess /\ n_clst \in Nat
    BY <1>18, <1>19
  <2>2. QED
    BY <1>10, <1>17, <2>1 DEF SubType, MIN_FAT16, MIN_FAT32
<1>20. ASSUME room >= 0 PROVE FatBytes(fmt, n_clst + 2) <= n_fat * 512
  <2>1. FatBytes(fmt, n_clst + 2) <= fatsz * 512 /\ FatBytes(fmt, n_clst + 2) \in Nat
    BY <1>10, <1>18, <1>20
  <2>3. QED
    BY <1>10, <2>1
<1>21. n_fat > 0 /\ (fmt # 32 => n_fat < 65536)
  BY <1>10
<1>22. p \in LayoutType
  BY <1>10, <1>17, <1>18 DEF LayoutType
<1>23. Room(p) = room
  BY <1>30, <1>17 DEF Room
<1>25. Sound(p)
  BY <1>17, <1>18, <1>19, <1>20, <1>21, <1>22, <1>23 DEF Sound
<1>26. QED
  BY <1>17, <1>25

LEMMA LayoutIs ==
    ASSUME NEW b_vol \in Nat, NEW n_vol \in Nat, NEW arg \in Nat, arg <= MaxSectors,
           drive.block \in Nat, NEW p, p = Layout(b_vol, n_vol, arg), p # Aborted
    PROVE  Sound(p) /\ p.b_vol = b_vol /\ p.n_vol = n_vol
<1>0. \A x \in Nat : Padding(x, drive.block) \in 0 .. MaxPadding
  BY PaddingIs
<1> DEFINE au == ClusterSize(n_vol, arg)
           guess == n_vol \div au
           fmt == SubType(guess)
           fatsz == TableSectors(fmt, guess)
           rsv == IF fmt = 32 THEN 32 ELSE 1
           n_dir == IF fmt = 32 THEN 0 ELSE (N_ROOTDIR * SZ_DIRE) \div SS
           b_data == b_vol + rsv + fatsz * N_FATS + n_dir
           n == Padding(b_data, drive.block)
<1>1. au \in Units
  BY ClusterSizeIs
<1>2. p = Aligned(b_vol, n_vol, au, fmt, fatsz)
  BY DEF Layout
<1> HIDE DEF au
<1>3. guess \in Nat /\ guess = n_vol \div au
  BY <1>1, InUnits
<1> HIDE DEF guess
<1>4. fmt \in {12, 16, 32} /\ fmt = SubType(guess)
  BY DEF SubType
<1> HIDE DEF fmt
<1>5. /\ fatsz = TableSectors(fmt, guess)
      /\ fatsz \in Nat /\ (fmt # 32 => fatsz < 1000)
  BY <1>3, <1>4, TableCovers
<1> HIDE DEF fatsz
<1>6. p = IF n_vol < b_data + au - b_vol THEN Aborted
          ELSE IF fmt = 32 THEN Areas(b_vol, n_vol, au, fmt, rsv + n, fatsz, n_dir)
          ELSE Areas(b_vol, n_vol, au, fmt, rsv, fatsz + n, n_dir)
  BY <1>2 DEF Aligned
<1>7. n_dir = (IF fmt = 32 THEN 0 ELSE 32) /\ rsv = (IF fmt = 32 THEN 32 ELSE 1)
  BY DEF N_ROOTDIR, SZ_DIRE, SS
<1>8. b_data = b_vol + rsv + fatsz * N_FATS + n_dir /\ n = Padding(b_data, drive.block)
  OBVIOUS
<1> HIDE DEF n
<1> HIDE DEF b_data
<1> HIDE DEF rsv, n_dir
<1>9. b_data \in Nat
  BY <1>5, <1>7, <1>8 DEF N_FATS
<1>10. Padding(b_data, drive.block) \in 0 .. MaxPadding
  BY <1>0, <1>9
<1>11. n \in Nat /\ n < 32768
  <2>1. n \in 0 .. MaxPadding
    BY <1>8, <1>10
  <2>2. \A y \in 0 .. MaxPadding : y \in Nat /\ y < 32768
    BY DEF MaxPadding
  <2>3. QED
    BY <2>1, <2>2
<1>12. CASE fmt = 32
  <2>1. p = Areas(b_vol, n_vol, au, fmt, rsv + n, fatsz, n_dir)
    BY <1>6, <1>12
  <2>2. rsv + n \in Nat /\ rsv + n >= 32 /\ rsv + n < 65536 /\ n_dir \in Nat
    BY <1>7, <1>11, <1>12
  <2>3. QED
    BY <1>1, <1>3, <1>4, <1>5, <1>7, <1>12, <2>1, <2>2, AreasAre
<1>13. CASE fmt # 32
  <2>1. p = Areas(b_vol, n_vol, au, fmt, rsv, fatsz + n, n_dir)
    BY <1>6, <1>13
  <2>2. /\ fatsz + n \in Nat /\ fatsz <= fatsz + n /\ fatsz + n < 65536
        /\ rsv \in Nat /\ rsv = 1 /\ n_dir \in Nat
    BY <1>5, <1>7, <1>11, <1>13
  <2>3. QED
    BY <1>1, <1>3, <1>4, <1>5, <1>7, <1>13, <2>1, <2>2, AreasAre
<1>14. QED
  BY <1>12, <1>13

-----------------------------------------------------------------------------
(* The invariant.                                                          *)

IsBytes(m) == m \in [DOMAIN m -> 0 .. 255] /\ DOMAIN m \subseteq Nat

(* Unsaved bytes belong to the sector in the window.                       *)
IsWin(w) ==
    /\ w = [sect |-> w.sect, edits |-> w.edits, wflag |-> w.wflag]
    /\ w.sect \in Int /\ w.wflag \in BOOLEAN /\ IsBytes(w.edits)
    /\ \A a \in DOMAIN w.edits : w.wflag /\ a \div SS = w.sect

Counted ==
    /\ drive \in Drives
    /\ formats \in 0 .. MaxFormats /\ puts \in 0 .. MaxCalls
    /\ IsBytes(medium) /\ IsWin(win)
    /\ puts = 0 => ~win.wflag

BootType ==
    [kind : {"boot"}, ssize : Nat, csize : Nat, nrsv : Nat, n_fats : Nat,
     n_rootdir : Nat, tsect : Nat, fatsz : Nat, root : Nat, fsinfo : BOOLEAN]

(* The records are where f_mkfs puts them, and a boot sector is another    *)
(* program's or that of a volume that ends with the drive.                 *)
RecordAt(s, r) ==
    \/ /\ s \in {0, 63} /\ r \in BootType /\ r.tsect <= MaxSectors
       /\ r \in Foreign \/ s + r.tsect = drive.count
    \/ s = 0 /\ r = [kind |-> "partition", start |-> <<63, 0, 0, 0>>]
    \/ s \in {1, 64} /\ r.kind = "fsinfo"

Recorded == \A s \in DOMAIN boots : RecordAt(s, boots[s])

(* What find_volume accepts in a boot sector, and the object it makes of   *)
(* the boot sector b at v.                                                 *)
Sys(b) == b.nrsv + b.fatsz * b.n_fats + b.n_rootdir \div (SS \div SZ_DIRE)
Count(b) == (b.tsect - Sys(b)) \div b.csize

Accepted(b) ==
    ~ \/ b.ssize # SS
      \/ b.n_fats \notin {1, 2}
      \/ b.csize \notin Units
      \/ b.n_rootdir % (SS \div SZ_DIRE) # 0
      \/ b.nrsv = 0
      \/ b.tsect < Sys(b)
      \/ Count(b) = 0
      \/ (SubType(Count(b)) = 32) # (b.n_rootdir = 0)
      \/ b.fatsz < (FatBytes(SubType(Count(b)), Count(b) + 2) + SS - 1) \div SS

Object(b, v, free) ==
    [res |-> "FR_OK", fs_type |-> SubType(Count(b)), csize |-> b.csize,
     fsize |-> b.fatsz, n_fatent |-> Count(b) + 2, volbase |-> v,
     fatbase |-> v + b.nrsv, database |-> v + Sys(b),
     dirbase |-> IF SubType(Count(b)) = 32 THEN b.root ELSE v + b.nrsv + b.fatsz * b.n_fats,
     free_clust |-> free]

FreeKnown(b, v, bad) ==
    LET info == SubType(Count(b)) = 32 /\ b.fsinfo /\ v + 1 \notin bad
        loaded == info /\ v + 1 \in DOMAIN boots /\ boots[v + 1].kind = "fsinfo"
    IN  IF loaded THEN boots[v + 1].free ELSE Unknown

(* The volume is that of a boot sector, on the drive or in its partition.  *)
IsFound(v) ==
    /\ v \in DOMAIN boots /\ boots[v].kind = "boot"
    /\ v # 0 => 0 \in DOMAIN boots /\ boots[0].kind = "partition"

(* A mounted object is what a boot sector gives, and if the number of free *)
(* clusters is known, it is that of the FSINFO record.                     *)
IsMounted(f) ==
    \E v \in DOMAIN boots :
        /\ IsFound(v) /\ Accepted(boots[v])
        /\ f = Object(boots[v], v, f.free_clust)
        /\ f.free_clust \in {Unknown, FreeKnown(boots[v], v, {})}

Standing == fs.res \in Results /\ (Ready => IsMounted(fs))

Layouts ==
    IF drive.count < 128 THEN {}
    ELSE {Layout(b_vol, drive.count - b_vol, arg) :
             b_vol \in {0, 63}, arg \in AllocUnits} \ {Aborted}

(* What f_mkfs left of the layout p.                                       *)
LaidOut(p) ==
    /\ made.hasinfo \in BOOLEAN
    /\ made = [Made(p, {}) EXCEPT !.hasinfo = made.hasinfo]
    /\ DataStart(p) + RootSectors(p) <= drive.count
    /\ p.b_vol \in DOMAIN boots /\ boots[p.b_vol] = BootRecord(p)
    /\ p.b_vol # 0 => 0 \in DOMAIN boots /\ boots[0] = Partition(p)
    /\ p.fmt = 32 /\ made.hasinfo => /\ p.b_vol + 1 \in DOMAIN boots
                                     /\ boots[p.b_vol + 1] = FsInfo(p)
    /\ puts = 0 =>
          /\ \A a \in DOMAIN Reserved(p) :
                a \in DOMAIN medium /\ medium[a] = Reserved(p)[a]
          /\ \A a \in DOMAIN medium :
                a \div SS \in FatStart(p) .. DataStart(p) - 1 => a \in DOMAIN Reserved(p)

LayoutInv ==
    /\ Counted /\ Recorded /\ Standing
    /\ made # None => \E p \in Layouts : LaidOut(p)

-----------------------------------------------------------------------------
(* What find_volume makes of a boot sector.                                *)

LEMMA MountedIs ==
    ASSUME NEW b, NEW v, NEW bad
    PROVE  Mounted(b, v, bad) = IF Accepted(b) THEN Object(b, v, FreeKnown(b, v, bad))
                                ELSE Failed("FR_NO_FILESYSTEM")
<1>1. CASE Accepted(b)
  BY <1>1, Zenon DEF Mounted, Accepted, Object, FreeKnown, Sys, Count
<1>2. CASE ~Accepted(b)
  BY <1>2, Zenon DEF Mounted, Accepted, Sys, Count
<1>3. QED
  BY <1>1, <1>2

LEMMA ObjectIs ==
    ASSUME NEW b \in BootType, b.tsect <= MaxSectors, NEW v \in Nat, NEW free,
           Accepted(b), NEW f, f = Object(b, v, free)
    PROVE  /\ f.fs_type \in {12, 16, 32} /\ f.csize \in Units
           /\ f.n_fatent \in Nat /\ f.n_fatent >= 3 /\ f.n_fatent - 1 <= MaxSectors
           /\ f.fatbase \in Nat /\ f.fatbase > v /\ f.fsize \in Nat
           /\ f.database \in Nat /\ f.volbase = v
           /\ FatBytes(f.fs_type, f.n_fatent) <= f.fsize * 512
           /\ f.fatbase + f.fsize <= f.database
           /\ f.database + (f.n_fatent - 2) * f.csize <= v + b.tsect
           /\ f.fs_type # 32 => f.fatbase + f.fsize <= f.dirbase /\ f.dirbase < f.database
<1>1. /\ b.nrsv \in Nat /\ b.fatsz \in Nat /\ b.n_fats \in {1, 2} /\ b.n_rootdir \in Nat
      /\ b.csize \in Units /\ b.nrsv # 0 /\ b.tsect \in Nat
  BY DEF Accepted, BootType
<1>2. PICK size \in Nat : b.fatsz * b.n_fats = size /\ b.fatsz <= size
  BY <1>1
<1>3. Sys(b) = b.nrsv + size + b.n_rootdir \div 16
  BY <1>2 DEF Sys, SS, SZ_DIRE
<1>4. /\ Sys(b) \in Nat /\ b.tsect - Sys(b) \in Nat
      /\ b.n_rootdir \div 16 \in Nat
  <2>1. Sys(b) \in Nat /\ b.n_rootdir \div 16 \in Nat
    BY <1>1, <1>3
  <2>2. ~(b.tsect < Sys(b))
    BY DEF Accepted
  <2>3. QED
    BY <1>1, <2>1, <2>2
<1>5. /\ Count(b) \in Nat /\ Count(b) <= b.tsect - Sys(b)
      /\ Count(b) * b.csize <= b.tsect - Sys(b)
  BY <1>1, <1>4, InUnits DEF Count
<1>6. Count(b) > 0
  BY <1>5 DEF Accepted
<1>7. SubType(Count(b)) \in {12, 16, 32}
  BY DEF SubType
<1>8. FatBytes(SubType(Count(b)), Count(b) + 2) <= b.fatsz * 512
  <2>1. FatBytes(SubType(Count(b)), Count(b) + 2) \in Nat
    BY <1>5, <1>7 DEF FatBytes
  <2>2. ~(b.fatsz < (FatBytes(SubType(Count(b)), Count(b) + 2) + 512 - 1) \div 512)
    BY DEF Accepted, SS
  <2>3. QED
    BY <1>1, <2>1, <2>2
<1>9. SubType(Count(b)) # 32 => b.n_rootdir \div 16 > 0
  <2>1. (SubType(Count(b)) = 32) = (b.n_rootdir = 0) /\ b.n_rootdir % 16 = 0
    BY DEF Accepted, SS, SZ_DIRE
  <2>2. QED
    BY <1>1, <2>1
<1>10. MaxSectors \in Nat
  BY DEF MaxSectors
<1>11. /\ f.fs_type = SubType(Count(b)) /\ f.csize = b.csize /\ f.fsize = b.fatsz
       /\ f.n_fatent = Count(b) + 2 /\ f.volbase = v /\ f.fatbase = v + b.nrsv
       /\ f.database = v + Sys(b)
       /\ f.fs_type # 32 => f.dirbase = v + b.nrsv + size
  BY <1>2 DEF Object
<1>12. f.database + (f.n_fatent - 2) * f.csize <= v + b.tsect
  <2>1. (f.n_fatent - 2) * f.csize = Count(b) * b.csize
    BY <1>5, <1>11
  <2>2. PICK data \in Nat : data = Count(b) * b.csize /\ data <= b.tsect - Sys(b)
    BY <1>1, <1>5 DEF Units
  <2>3. QED
    BY <1>1, <1>4, <1>11, <2>1, <2>2
<1>13. /\ f.fs_type \in {12, 16, 32} /\ f.csize \in Units
       /\ FatBytes(f.fs_type, f.n_fatent) <= f.fsize * 512
  BY <1>1, <1>7, <1>8, <1>11
<1>14. f.n_fatent \in Nat /\ f.n_fatent >= 3 /\ f.n_fatent - 1 <= MaxSectors
  <2>1. b.n_rootdir \div 16 \in Nat /\ b.nrsv > 0
    BY <1>1, <1>4
  <2>2. Sys(b) > 0
    BY <1>1, <1>2, <1>3, <2>1
  <2>3. QED
    BY <1>1, <1>4, <1>5, <1>6, <1>10, <1>11, <2>2
<1>15. /\ f.fatbase \in Nat /\ f.fatbase > v /\ f.fsize \in Nat
       /\ f.database \in Nat /\ f.volbase = v
       /\ f.fatbase + f.fsize <= f.database
  BY <1>1, <1>2, <1>3, <1>4, <1>11
<1>16. f.fs_type # 32 => f.fatbase + f.fsize <= f.dirbase /\ f.dirbase < f.database
  BY <1>1, <1>2, <1>3, <1>4, <1>9, <1>11
<1>17. QED
  BY <1>12, <1>13, <1>14, <1>15, <1>16

-----------------------------------------------------------------------------
(* The entries of the table.                                               *)

LEMMA PlaceIs ==
    ASSUME NEW f, f.fs_type \in {12, 16, 32}, f.fatbase \in Nat, NEW c \in Nat
    PROVE  /\ EntryAt(f, c) \in Nat /\ EntryAt(f, c) >= f.fatbase * 512
           /\ f.fs_type = 12 => /\ EntryAt(f, c) = f.fatbase * 512 + (c + c \div 2)
                                /\ Place(f, c) = {EntryAt(f, c), EntryAt(f, c) + 1}
           /\ f.fs_type = 16 => /\ EntryAt(f, c) = f.fatbase * 512 + 2 * c
                                /\ Place(f, c) = {EntryAt(f, c), EntryAt(f, c) + 1}
           /\ f.fs_type = 32 => /\ EntryAt(f, c) = f.fatbase * 512 + 4 * c
                                /\ Place(f, c) = {EntryAt(f, c), EntryAt(f, c) + 1,
                                                  EntryAt(f, c) + 2, EntryAt(f, c) + 3}
<1>1. EntryAt(f, c) = f.fatbase * 512 + Offset(f.fs_type, c)
  BY DEF EntryAt, SS
<1>2. /\ f.fs_type = 12 => Offset(f.fs_type, c) = c + c \div 2
      /\ f.fs_type = 16 => Offset(f.fs_type, c) = 2 * c
      /\ f.fs_type = 32 => Offset(f.fs_type, c) = 4 * c
  BY DEF Offset
<1>3. Offset(f.fs_type, c) \in Nat
  BY <1>2
<1>4. PICK base \in Nat : base = f.fatbase * 512
  OBVIOUS
<1>5. EntryAt(f, c) \in Nat /\ EntryAt(f, c) >= base
  BY <1>1, <1>3, <1>4
<1>6. PICK at \in Nat : at = EntryAt(f, c)
  BY <1>5
<1>7. /\ f.fs_type # 32 => Place(f, c) = {at, at + 1}
      /\ f.fs_type = 32 => Place(f, c) = {at, at + 1, at + 2, at + 3}
  <2>1. Place(f, c) = at .. at + (IF f.fs_type = 32 THEN 3 ELSE 1)
    BY <1>6 DEF Place
  <2>2. at .. at + 1 = {at, at + 1} /\ at .. at + 3 = {at, at + 1, at + 2, at + 3}
    OBVIOUS
  <2>3. QED
    BY <2>1, <2>2
<1>8. QED
  BY <1>1, <1>2, <1>4, <1>5, <1>6, <1>7

(* An entry lies inside the bytes of the table.                            *)
LEMMA PlaceInside ==
    ASSUME NEW f, f.fs_type \in {12, 16, 32}, f.fatbase \in Nat, NEW n \in Nat,
           NEW c \in Nat, c < n, NEW a \in Place(f, c)
    PROVE  a \in Nat /\ a >= f.fatbase * 512 /\ a < f.fatbase * 512 + FatBytes(f.fs_type, n)
<1>1. PICK base \in Nat : base = f.fatbase * 512
  OBVIOUS
<1>2. CASE f.fs_type = 12
  <2>1. /\ EntryAt(f, c) = base + (c + c \div 2)
        /\ a \in {EntryAt(f, c), EntryAt(f, c) + 1}
    BY <1>1, <1>2, PlaceIs
  <2>2. FatBytes(f.fs_type, n) = (n * 3) \div 2 + (n % 2)
    BY <1>2 DEF FatBytes
  <2>3. c + c \div 2 + 1 < (n * 3) \div 2 + (n % 2)
    OBVIOUS
  <2>4. QED
    BY <1>1, <2>1, <2>2, <2>3
<1>3. CASE f.fs_type = 16
  <2>1. /\ EntryAt(f, c) = base + 2 * c
        /\ a \in {EntryAt(f, c), EntryAt(f, c) + 1}
    BY <1>1, <1>3, PlaceIs
  <2>2. FatBytes(f.fs_type, n) = n * 2
    BY <1>3 DEF FatBytes
  <2>3. QED
    BY <1>1, <2>1, <2>2
<1>4. CASE f.fs_type = 32
  <2>1. /\ EntryAt(f, c) = base + 4 * c
        /\ a \in {EntryAt(f, c), EntryAt(f, c) + 1, EntryAt(f, c) + 2, EntryAt(f, c) + 3}
    BY <1>1, <1>4, PlaceIs
  <2>2. FatBytes(f.fs_type, n) = n * 4
    BY <1>4 DEF FatBytes
  <2>3. QED
    BY <1>1, <2>1, <2>2
<1>5. QED
  BY <1>2, <1>3, <1>4

-----------------------------------------------------------------------------
(* Bytes and the window.                                                   *)

LEMMA OverNothing ==
    ASSUME NEW m, NEW a
    PROVE  Byte(Over(m, NoBytes), a) = Byte(m, a)
BY DEF Over, Byte, NoBytes

LEMMA ByteOver ==
    ASSUME NEW m, NEW g, NEW a
    PROVE  Byte(Over(m, g), a) = IF a \in DOMAIN g THEN g[a] ELSE Byte(m, a)
BY DEF Over, Byte

LEMMA OverBytes ==
    ASSUME NEW m, NEW g, IsBytes(m), IsBytes(g)
    PROVE  IsBytes(Over(m, g))
<1>0. /\ \A a \in DOMAIN m : m[a] \in 0 .. 255
      /\ \A a \in DOMAIN g : g[a] \in 0 .. 255
      /\ DOMAIN m \subseteq Nat /\ DOMAIN g \subseteq Nat
  BY DEF IsBytes
<1>1. /\ DOMAIN Over(m, g) = DOMAIN m \cup DOMAIN g /\ DOMAIN Over(m, g) \subseteq Nat
  BY <1>0 DEF Over
<1>2. \A a \in DOMAIN Over(m, g) : Over(m, g)[a] \in 0 .. 255
  BY <1>0 DEF Over
<1>3. Over(m, g) = [a \in DOMAIN Over(m, g) |-> Over(m, g)[a]]
  BY <1>1 DEF Over
<1>4. QED
  BY <1>1, <1>2, <1>3 DEF IsBytes

LEMMA ByteIs ==
    ASSUME NEW m, IsBytes(m), NEW a
    PROVE  Byte(m, a) \in Nat /\ Byte(m, a) < 256
BY DEF IsBytes, Byte

LEMMA NoBytesIs == IsBytes(NoBytes) /\ DOMAIN NoBytes = {}
BY DEF IsBytes, NoBytes

LEMMA NoWindowIs ==
    ASSUME NEW s \in Int, NEW w, w = [NoWindow EXCEPT !.sect = s]
    PROVE  IsWin(w) /\ w.sect = s /\ w.edits = NoBytes /\ ~w.wflag
BY NoBytesIs DEF IsWin, NoWindow, NoSector

(* The state put_fat works on.                                             *)
IsDrive(d) ==
    /\ d = [medium |-> d.medium, win |-> d.win, ok |-> d.ok]
    /\ IsBytes(d.medium) /\ IsWin(d.win) /\ d.ok \in BOOLEAN

View(d) == Over(d.medium, d.win.edits)
SeenAt(d, a) == Byte(View(d), a)

LEMMA SyncIs ==
    ASSUME NEW d, IsDrive(d), NEW bad, NEW e, e = sync_window(d, bad)
    PROVE  /\ IsDrive(e) /\ e.win.sect = d.win.sect
           /\ \A a : SeenAt(e, a) = SeenAt(d, a)
           /\ e.medium \in {d.medium, Over(d.medium, d.win.edits)}
           /\ e.ok => d.ok /\ ~e.win.wflag /\ e.win.edits = NoBytes
           /\ ~d.win.wflag => e = d
<1>1. CASE ~d.win.wflag
  <2>1. e = d
    BY <1>1 DEF sync_window
  <2>2. DOMAIN d.win.edits = {}
    BY <1>1 DEF IsDrive, IsWin
  <2>3. d.win.edits = NoBytes
    BY <2>2 DEF IsDrive, IsWin, IsBytes, NoBytes
  <2>4. QED
    BY <1>1, <2>1, <2>3
<1>2. CASE d.win.wflag /\ d.win.sect \in bad
  <2>1. e = [d EXCEPT !.ok = FALSE]
    BY <1>2 DEF sync_window
  <2>2. QED
    BY <1>2, <2>1 DEF IsDrive, SeenAt, View
<1>3. CASE d.win.wflag /\ d.win.sect \notin bad
  <2>1. e = [d EXCEPT !.medium = Over(@, d.win.edits),
                      !.win = [NoWindow EXCEPT !.sect = d.win.sect]]
    BY <1>3 DEF sync_window
  <2>2. /\ e.medium = Over(d.medium, d.win.edits) /\ e.ok = d.ok
        /\ e.win = [NoWindow EXCEPT !.sect = d.win.sect]
        /\ e = [medium |-> e.medium, win |-> e.win, ok |-> e.ok]
    BY <2>1 DEF IsDrive
  <2>3. /\ IsWin(e.win) /\ e.win.sect = d.win.sect
        /\ e.win.edits = NoBytes /\ ~e.win.wflag
    BY <2>2, NoWindowIs DEF IsDrive, IsWin
  <2>4. IsDrive(e)
    BY <2>2, <2>3, OverBytes DEF IsDrive, IsWin
  <2>5. \A a : SeenAt(e, a) = SeenAt(d, a)
    <3>1. Over(e.medium, e.win.edits) = Over(Over(d.medium, d.win.edits), NoBytes)
      BY <2>2, <2>3
    <3>2. TAKE a
    <3>3. SeenAt(e, a) = Byte(Over(d.medium, d.win.edits), a)
      BY <3>1, OverNothing DEF SeenAt, View
    <3>4. QED
      BY <3>3 DEF SeenAt, View
  <2>6. QED
    BY <1>3, <2>2, <2>3, <2>4, <2>5
<1>4. QED
  BY <1>1, <1>2, <1>3 DEF IsDrive, IsWin

(* Moving the window changes no byte that is seen.                         *)
LEMMA MoveIs ==
    ASSUME NEW d, IsDrive(d), NEW s \in Int, NEW bad, NEW e, e = move_window(d, s, bad)
    PROVE  /\ IsDrive(e)
           /\ \A a : SeenAt(e, a) = SeenAt(d, a)
           /\ e.medium \in {d.medium, Over(d.medium, d.win.edits)}
           /\ e.ok => d.ok /\ e.win.sect = s
           /\ s = d.win.sect => e = d
<1>1. CASE ~d.ok \/ s = d.win.sect
  <2>1. e = d
    BY <1>1 DEF move_window
  <2>2. QED
    BY <1>1, <2>1
<1>2. CASE d.ok /\ s # d.win.sect
  <2> DEFINE x == sync_window(d, bad)
  <2>1. /\ IsDrive(x)
        /\ \A a : SeenAt(x, a) = SeenAt(d, a)
        /\ x.medium \in {d.medium, Over(d.medium, d.win.edits)}
        /\ x.ok => ~x.win.wflag /\ x.win.edits = NoBytes
    BY SyncIs
  <2>2. e = IF ~x.ok THEN x
            ELSE IF s \in bad THEN [x EXCEPT !.win = NoWindow, !.ok = FALSE]
            ELSE [x EXCEPT !.win.sect = s]
    BY <1>2 DEF move_window
  <2> HIDE DEF x
  <2>3. CASE ~x.ok
    BY <1>2, <2>1, <2>2, <2>3
  <2>4. CASE x.ok /\ s \in bad
    <3>1. /\ e.medium = x.medium /\ e.win = NoWindow /\ ~e.ok
          /\ e = [medium |-> e.medium, win |-> e.win, ok |-> e.ok] /\ e.ok \in BOOLEAN
      BY <2>1, <2>2, <2>4 DEF IsDrive
    <3>2. IsWin(NoWindow) /\ NoWindow.edits = NoBytes
      BY NoBytesIs DEF IsWin, NoWindow, NoSector
    <3>3. IsDrive(e)
      BY <2>1, <3>1, <3>2 DEF IsDrive
    <3>4. e.medium = x.medium /\ e.win.edits = x.win.edits
      BY <2>1, <2>4, <3>1, <3>2
    <3>5. \A a : SeenAt(e, a) = SeenAt(x, a)
      BY <3>4 DEF SeenAt, View
    <3>6. QED
      BY <1>2, <2>1, <3>1, <3>3, <3>5
  <2>5. CASE x.ok /\ s \notin bad
    <3>1. /\ e.medium = x.medium /\ e.win.edits = x.win.edits /\ e.ok
          /\ e.win.sect = s /\ e.win.wflag = x.win.wflag
          /\ e.win = [sect |-> e.win.sect, edits |-> e.win.edits, wflag |-> e.win.wflag]
          /\ e = [medium |-> e.medium, win |-> e.win, ok |-> e.ok] /\ e.ok \in BOOLEAN
      BY <2>1, <2>2, <2>5 DEF IsDrive, IsWin
    <3>2. IsWin(e.win)
      <4>1. e.win.edits = NoBytes /\ x.win.wflag \in BOOLEAN
        BY <2>1, <2>5, <3>1 DEF IsDrive, IsWin
      <4>2. IsBytes(e.win.edits) /\ DOMAIN e.win.edits = {}
        BY <4>1, NoBytesIs
      <4>3. QED
        BY <3>1, <4>1, <4>2 DEF IsWin
    <3>3. IsDrive(e)
      BY <2>1, <3>1, <3>2 DEF IsDrive
    <3>5. \A a : SeenAt(e, a) = SeenAt(x, a)
      BY <3>1 DEF SeenAt, View
    <3>6. QED
      BY <1>2, <2>1, <3>1, <3>3, <3>5
  <2>6. QED
    BY <2>1, <2>3, <2>4, <2>5
<1>3. QED
  BY <1>1, <1>2 DEF IsDrive

(* A change of bytes of the sector in the window.                          *)
LEMMA StoreIs ==
    ASSUME NEW d, IsDrive(d), d.ok, NEW bytes, IsBytes(bytes),
           \A a \in DOMAIN bytes : a \div SS = d.win.sect,
           NEW e, e = Store(d, bytes)
    PROVE  /\ IsDrive(e) /\ e.ok /\ e.win.sect = d.win.sect /\ e.medium = d.medium
           /\ \A a : SeenAt(e, a) = IF a \in DOMAIN bytes THEN bytes[a] ELSE SeenAt(d, a)
<1>1. e = [d EXCEPT !.win.edits = Over(@, bytes), !.win.wflag = TRUE]
  BY DEF Store
<1>2. /\ e.medium = d.medium /\ e.ok = d.ok /\ e.win.sect = d.win.sect
      /\ e.win.edits = Over(d.win.edits, bytes) /\ e.win.wflag
      /\ e.win = [sect |-> e.win.sect, edits |-> e.win.edits, wflag |-> e.win.wflag]
      /\ e.win.wflag \in BOOLEAN
      /\ e = [medium |-> e.medium, win |-> e.win, ok |-> e.ok]
  BY <1>1 DEF IsDrive, IsWin
<1>3. IsBytes(Over(d.win.edits, bytes))
  BY OverBytes DEF IsDrive, IsWin
<1>4. \A a \in DOMAIN Over(d.win.edits, bytes) : a \div SS = d.win.sect
  BY DEF Over, IsDrive, IsWin
<1>5. IsDrive(e)
  BY <1>2, <1>3, <1>4 DEF IsDrive, IsWin
<1>6. ASSUME NEW a PROVE SeenAt(e, a) = IF a \in DOMAIN bytes THEN bytes[a] ELSE SeenAt(d, a)
  BY <1>2 DEF SeenAt, View, Over, Byte
<1>7. QED
  BY <1>2, <1>5, <1>6

LEMMA StoreFailed ==
    ASSUME NEW d, ~d.ok, NEW bytes
    PROVE  Store(d, bytes) = d
BY DEF Store

-----------------------------------------------------------------------------
(* Entries.                                                                *)

IsVolume(f) == f.fs_type \in {12, 16, 32} /\ f.fatbase \in Nat

LEMMA GetIs ==
    ASSUME NEW f, IsVolume(f), NEW m, NEW c \in Nat, NEW at, at = EntryAt(f, c), at \in Nat
    PROVE  /\ f.fs_type = 12 /\ c % 2 = 1 =>
                get_fat(f, m, c) = Byte(m, at) \div 16 + 16 * Byte(m, at + 1)
           /\ f.fs_type = 12 /\ c % 2 # 1 =>
                get_fat(f, m, c) = Byte(m, at) + 256 * (Byte(m, at + 1) % 16)
           /\ f.fs_type = 16 => get_fat(f, m, c) = Byte(m, at) + 256 * Byte(m, at + 1)
           /\ f.fs_type = 32 =>
                get_fat(f, m, c) = Byte(m, at) + 256 * Byte(m, at + 1)
                                   + 65536 * Byte(m, at + 2)
                                   + 16777216 * (Byte(m, at + 3) % 16)
<1>1. at + 0 = at
  OBVIOUS
<1>2. CASE f.fs_type = 12 /\ c % 2 = 1
  <2>1. get_fat(f, m, c) = Byte(m, at + 0) \div 16 + 16 * Byte(m, at + 1)
    BY <1>2 DEF get_fat
  <2>2. QED
    BY <1>1, <1>2, <2>1
<1>3. CASE f.fs_type = 12 /\ c % 2 # 1
  <2>1. get_fat(f, m, c) = Byte(m, at + 0) + 256 * (Byte(m, at + 1) % 16)
    BY <1>3 DEF get_fat
  <2>2. QED
    BY <1>1, <1>3, <2>1
<1>4. CASE f.fs_type = 16
  BY <1>1, <1>4 DEF get_fat
<1>5. CASE f.fs_type = 32
  BY <1>1, <1>5 DEF get_fat
<1>6. QED
  BY <1>2, <1>3, <1>4, <1>5 DEF IsVolume

(* An entry whose bytes stay is the same.                                  *)
LEMMA SameEntry ==
    ASSUME NEW f, IsVolume(f), NEW c \in Nat, NEW m, NEW n,
           \A a \in Place(f, c) : Byte(n, a) = Byte(m, a)
    PROVE  get_fat(f, n, c) = get_fat(f, m, c)
<1> DEFINE at == EntryAt(f, c)
<1>1. /\ at \in Nat
      /\ f.fs_type # 32 => Place(f, c) = {at, at + 1}
      /\ f.fs_type = 32 => Place(f, c) = {at, at + 1, at + 2, at + 3}
  BY PlaceIs DEF IsVolume
<1> HIDE DEF at
<1>2. Byte(n, at) = Byte(m, at) /\ Byte(n, at + 1) = Byte(m, at + 1)
  BY <1>1
<1>3. f.fs_type = 32 => Byte(n, at + 2) = Byte(m, at + 2) /\ Byte(n, at + 3) = Byte(m, at + 3)
  BY <1>1
<1>4. at = EntryAt(f, c)
  BY DEF at
<1>5. CASE f.fs_type = 12 /\ c % 2 = 1
  BY <1>1, <1>2, <1>4, <1>5, GetIs
<1>6. CASE f.fs_type = 12 /\ c % 2 # 1
  BY <1>1, <1>2, <1>4, <1>6, GetIs
<1>7. CASE f.fs_type = 16
  BY <1>1, <1>2, <1>4, <1>7, GetIs
<1>8. CASE f.fs_type = 32
  BY <1>1, <1>2, <1>3, <1>4, <1>8, GetIs
<1>9. QED
  BY <1>5, <1>6, <1>7, <1>8 DEF IsVolume

(* Whole entries share no byte.                                            *)
LEMMA PlacesApart ==
    ASSUME NEW f, IsVolume(f), f.fs_type # 12, NEW c \in Nat, NEW x \in Nat, x # c
    PROVE  Place(f, x) \cap Place(f, c) = {}
<1>1. PICK base \in Nat : base = f.fatbase * 512
  BY DEF IsVolume
<1>2. CASE f.fs_type = 16
  <2>0. \A y \in Nat : /\ EntryAt(f, y) = f.fatbase * 512 + 2 * y
                       /\ Place(f, y) = {EntryAt(f, y), EntryAt(f, y) + 1}
    BY <1>2, PlaceIs DEF IsVolume
  <2>1. EntryAt(f, c) = base + 2 * c /\ Place(f, c) = {EntryAt(f, c), EntryAt(f, c) + 1}
    BY <1>1, <2>0
  <2>2. EntryAt(f, x) = base + 2 * x /\ Place(f, x) = {EntryAt(f, x), EntryAt(f, x) + 1}
    BY <1>1, <2>0
  <2>3. Place(f, c) = {base + 2 * c, base + 2 * c + 1}
    BY <2>1
  <2>4. Place(f, x) = {base + 2 * x, base + 2 * x + 1}
    BY <2>2
  <2>5. QED
    BY <2>3, <2>4
<1>3. CASE f.fs_type = 32
  <2>1. /\ EntryAt(f, c) = base + 4 * c
        /\ Place(f, c) = {EntryAt(f, c), EntryAt(f, c) + 1, EntryAt(f, c) + 2, EntryAt(f, c) + 3}
    BY <1>1, <1>3, PlaceIs DEF IsVolume
  <2>2. /\ EntryAt(f, x) = base + 4 * x
        /\ Place(f, x) = {EntryAt(f, x), EntryAt(f, x) + 1, EntryAt(f, x) + 2, EntryAt(f, x) + 3}
    BY <1>1, <1>3, PlaceIs DEF IsVolume
  <2>3. \A a \in Place(f, c) : a >= base + 4 * c /\ a <= base + 4 * c + 3
    BY <2>1
  <2>4. \A a \in Place(f, x) : a \in Nat /\ a >= base + 4 * x /\ a <= base + 4 * x + 3
    BY <2>2
  <2>5. QED
    BY <2>3, <2>4
<1>4. QED
  BY <1>2, <1>3 DEF IsVolume

(* Neighbours of FAT12 share a byte, half of which belongs to each.        *)
LEMMA NeighbourKept ==
    ASSUME NEW f, IsVolume(f), f.fs_type = 12, NEW c \in Nat, NEW x \in Nat, x # c,
           NEW m, NEW n, NEW at, at = EntryAt(f, c),
           \A a \in Nat : a # at /\ a # at + 1 => Byte(n, a) = Byte(m, a),
           c % 2 = 1 => Byte(n, at) % 16 = Byte(m, at) % 16,
           c % 2 # 1 => Byte(n, at + 1) \div 16 = Byte(m, at + 1) \div 16
    PROVE  get_fat(f, n, x) = get_fat(f, m, x)
<1>1. PICK base \in Nat : base = f.fatbase * 512
  BY DEF IsVolume
<1>2. at = base + (c + c \div 2) /\ at \in Nat
  BY <1>1, PlaceIs DEF IsVolume
<1>3. PICK here \in Nat : here = EntryAt(f, x) /\ here = base + (x + x \div 2)
  <2>1. EntryAt(f, x) \in Nat /\ EntryAt(f, x) = f.fatbase * 512 + (x + x \div 2)
    BY PlaceIs DEF IsVolume
  <2>2. QED
    BY <1>1, <2>1
<1>4. CASE x % 2 = 1
  <2>1. here # at /\ here + 1 # at /\ here + 1 # at + 1 /\ (here = at + 1 => c % 2 # 1)
    BY <1>2, <1>3, <1>4
  <2>2. Byte(n, here + 1) = Byte(m, here + 1)
    BY <2>1
  <2>3. Byte(n, here) \div 16 = Byte(m, here) \div 16
    BY <2>1
  <2>4. \A y : get_fat(f, y, x) = Byte(y, here) \div 16 + 16 * Byte(y, here + 1)
    <3>1. TAKE y
    <3>2. here \in Nat /\ here = EntryAt(f, x)
      BY <1>3
    <3>3. QED
      BY <1>4, <3>2, GetIs
  <2>5. QED
    BY <2>2, <2>3, <2>4
<1>5. CASE x % 2 # 1
  <2>1. here # at /\ here # at + 1 /\ here + 1 # at + 1 /\ (here + 1 = at => c % 2 = 1)
    BY <1>2, <1>3, <1>5
  <2>2. Byte(n, here) = Byte(m, here)
    BY <2>1
  <2>3. Byte(n, here + 1) % 16 = Byte(m, here + 1) % 16
    BY <2>1
  <2>4. \A y : get_fat(f, y, x) = Byte(y, here) + 256 * (Byte(y, here + 1) % 16)
    <3>1. TAKE y
    <3>2. here \in Nat /\ here = EntryAt(f, x)
      BY <1>3
    <3>3. QED
      BY <1>5, <3>2, GetIs
  <2>5. QED
    BY <2>2, <2>3, <2>4
<1>6. QED
  BY <1>4, <1>5

-----------------------------------------------------------------------------
(* put_fat.                                                                *)

Split(f, c) == Cardinality(SectorsOf(f, c)) = 2

(* What a put of val into entry c of the volume f may do to the state d.   *)
Puts(f, c, val, d, e) ==
    /\ IsDrive(e)
    /\ \A x \in Nat : x # c => get_fat(f, View(e), x) = get_fat(f, View(d), x)
    /\ e.ok => get_fat(f, View(e), c) = Kept(f, val)
    /\ ~e.ok => get_fat(f, View(e), c) = get_fat(f, View(d), c) \/ Split(f, c)
    /\ \A x \in Nat : \/ get_fat(f, e.medium, x) = get_fat(f, d.medium, x)
                      \/ get_fat(f, e.medium, x) = get_fat(f, View(d), x)
                      \/ x = c /\ Split(f, c)

Piece(val, i) == (val \div <<1, 256, 65536, 16777216>>[i + 1]) % 256

LEMMA PieceIs ==
    ASSUME NEW val \in Nat, val <= EOC
    PROVE  /\ Piece(val, 0) = val % 256 /\ Piece(val, 0) \in Nat /\ Piece(val, 0) < 256
           /\ Piece(val, 1) = (val \div 256) % 256 /\ Piece(val, 1) \in Nat /\ Piece(val, 1) < 256
           /\ Piece(val, 2) = (val \div 65536) % 256 /\ Piece(val, 2) \in Nat /\ Piece(val, 2) < 256
           /\ Piece(val, 3) = val \div 16777216 /\ Piece(val, 3) \in Nat /\ Piece(val, 3) < 16
           /\ Piece(val, 0) + 256 * Piece(val, 1) = val % 65536
           /\ Piece(val, 0) + 256 * Piece(val, 1) + 65536 * Piece(val, 2)
              + 16777216 * Piece(val, 3) = val % (EOC + 1)
<1>1. Piece(val, 0) = val % 256 /\ Piece(val, 0) \in Nat /\ Piece(val, 0) < 256
  BY DEF Piece
<1>2. Piece(val, 1) = (val \div 256) % 256 /\ Piece(val, 1) \in Nat /\ Piece(val, 1) < 256
  BY DEF Piece
<1>3. Piece(val, 2) = (val \div 65536) % 256 /\ Piece(val, 2) \in Nat /\ Piece(val, 2) < 256
  BY DEF Piece
<1>4. Piece(val, 3) = val \div 16777216 /\ Piece(val, 3) \in Nat /\ Piece(val, 3) < 16
  <2>1. val \div 16777216 \in Nat /\ val \div 16777216 < 16
    BY DEF EOC
  <2>2. Piece(val, 3) = (val \div 16777216) % 256
    BY DEF Piece
  <2>3. QED
    BY <2>1, <2>2
<1>5. Piece(val, 0) + 256 * Piece(val, 1) = val % 65536
  <2>1. PICK h \in Nat : h = val \div 256 /\ val = 256 * h + Piece(val, 0)
    BY <1>1
  <2>2. PICK k \in Nat : k = h \div 256 /\ h = 256 * k + (h % 256)
    BY <2>1
  <2>3. Piece(val, 1) = h % 256
    BY <1>2, <2>1
  <2>4. PICK r \in Nat : r = Piece(val, 0) + 256 * Piece(val, 1) /\ r < 65536
    BY <1>1, <1>2
  <2>5. val = 65536 * k + r
    BY <1>1, <1>2, <2>1, <2>2, <2>3, <2>4
  <2>6. val % 65536 = r
    BY <2>4, <2>5
  <2>7. QED
    BY <2>4, <2>6
<1>6. val % (EOC + 1) = val
  BY DEF EOC
<1>7. Piece(val, 0) + 256 * Piece(val, 1) + 65536 * Piece(val, 2)
      + 16777216 * Piece(val, 3) = val
  <2>1. PICK h \in Nat : h = val \div 256 /\ val = 256 * h + Piece(val, 0)
    BY <1>1
  <2>2. PICK k \in Nat : k = h \div 256 /\ h = 256 * k + Piece(val, 1)
    BY <1>2, <2>1
  <2>3. k = val \div 65536
    BY <2>1, <2>2
  <2>4. k = 256 * (k \div 256) + Piece(val, 2)
    <3>1. Piece(val, 2) = k % 256
      BY <1>3, <2>3
    <3>2. QED
      BY <2>2, <3>1
  <2>5. k \div 256 = val \div 16777216
    BY <2>3
  <2>6. QED
    BY <1>1, <1>2, <1>3, <1>4, <2>1, <2>2, <2>4, <2>5
<1>8. QED
  BY <1>1, <1>2, <1>3, <1>4, <1>5, <1>6, <1>7

(* Put of a FAT16 or FAT32 entry: one sector is changed, in the window.    *)
LEMMA PutWholeIs ==
    ASSUME NEW f, IsVolume(f), f.fs_type # 12, NEW c \in Nat, NEW val \in Nat, val <= EOC,
           NEW bad, NEW d, IsDrive(d), d.ok, NEW e, e = PutWhole(d, f, c, val, bad)
    PROVE  Puts(f, c, val, d, e)
<1> DEFINE at == EntryAt(f, c)
           loaded == move_window(d, at \div SS, bad)
           old == Byte(Over(loaded.medium, loaded.win.edits), at + 3)
           new(i) == LET byte == (val \div <<1, 256, 65536, 16777216>>[i + 1]) % 256
                     IN IF i = 3 THEN byte + (old - (old % 16)) ELSE byte
           bytes == [a \in Place(f, c) |-> new(a - at)]
<1>1. e = Store(loaded, bytes)
  BY DEF PutWhole
<1>2. /\ at \in Nat
      /\ f.fs_type = 16 => at = f.fatbase * 512 + 2 * c /\ Place(f, c) = {at, at + 1}
      /\ f.fs_type = 32 => /\ at = f.fatbase * 512 + 4 * c
                           /\ Place(f, c) = {at, at + 1, at + 2, at + 3}
  BY PlaceIs DEF IsVolume
<1>3. at = EntryAt(f, c) /\ (\A i : new(i) = IF i = 3 THEN Piece(val, i) + (old - (old % 16))
                                             ELSE Piece(val, i))
  BY DEF Piece
<1>4. loaded = move_window(d, at \div SS, bad)
  OBVIOUS
<1>5. old = SeenAt(loaded, at + 3)
  BY DEF SeenAt, View
<1>6. bytes = [a \in Place(f, c) |-> new(a - at)]
  OBVIOUS
<1> HIDE DEF bytes, new, old, loaded, at
<1>7. /\ IsDrive(loaded) /\ \A a : SeenAt(loaded, a) = SeenAt(d, a)
      /\ loaded.medium \in {d.medium, View(d)}
      /\ loaded.ok => loaded.win.sect = at \div SS
  <2>1. at \div SS \in Int
    BY <1>2 DEF SS
  <2>2. QED
    BY <1>4, <2>1, MoveIs DEF View
<1>8. old \in Nat /\ old < 256 /\ old = SeenAt(d, at + 3)
  <2>1. IsBytes(View(loaded))
    BY <1>7, OverBytes DEF View, IsDrive, IsWin
  <2>2. QED
    BY <1>5, <1>7, <2>1, ByteIs DEF SeenAt
<1>9. \A a \in Place(f, c) : a \in Nat /\ a \div SS = at \div SS
  <2>1. CASE f.fs_type = 16
    BY <1>2, <2>1 DEF IsVolume, SS
  <2>2. CASE f.fs_type = 32
    BY <1>2, <2>2 DEF IsVolume, SS
  <2>3. QED
    BY <2>1, <2>2 DEF IsVolume
<1>10. /\ new(0) = Piece(val, 0) /\ new(1) = Piece(val, 1) /\ new(2) = Piece(val, 2)
       /\ new(3) = Piece(val, 3) + (old - (old % 16))
  BY <1>3
<1>11. /\ new(0) \in 0 .. 255 /\ new(1) \in 0 .. 255 /\ new(2) \in 0 .. 255
       /\ new(3) \in 0 .. 255 /\ new(3) % 16 = Piece(val, 3)
  <2>1. PICK q \in Nat : q = old \div 16 /\ old = 16 * q + (old % 16) /\ q < 16
    BY <1>8
  <2>2. new(3) = Piece(val, 3) + 16 * q
    BY <1>8, <1>10, <2>1
  <2>3. Piece(val, 3) \in Nat /\ Piece(val, 3) < 16
    BY PieceIs
  <2>4. new(3) \in 0 .. 255 /\ new(3) % 16 = Piece(val, 3)
    BY <2>1, <2>2, <2>3
  <2>5. new(0) \in 0 .. 255 /\ new(1) \in 0 .. 255 /\ new(2) \in 0 .. 255
    <3>1. /\ Piece(val, 0) \in Nat /\ Piece(val, 0) < 256
          /\ Piece(val, 1) \in Nat /\ Piece(val, 1) < 256
          /\ Piece(val, 2) \in Nat /\ Piece(val, 2) < 256
      BY PieceIs
    <3>2. QED
      BY <1>10, <3>1
  <2>6. QED
    BY <2>4, <2>5
<1>12. /\ bytes[at] = new(0) /\ bytes[at + 1] = new(1)
       /\ f.fs_type = 32 => bytes[at + 2] = new(2) /\ bytes[at + 3] = new(3)
  <2>1. at - at = 0 /\ at + 1 - at = 1 /\ at + 2 - at = 2 /\ at + 3 - at = 3
    BY <1>2
  <2>2. QED
    BY <1>2, <1>6, <2>1 DEF IsVolume
<1>13. IsBytes(bytes) /\ DOMAIN bytes = Place(f, c)
  <2>1. \A a \in Place(f, c) : bytes[a] \in 0 .. 255
    BY <1>2, <1>11, <1>12 DEF IsVolume
  <2>2. bytes = [a \in Place(f, c) |-> bytes[a]] /\ DOMAIN bytes = Place(f, c)
    BY <1>6
  <2>3. QED
    BY <1>9, <2>1, <2>2 DEF IsBytes
<1>14. CASE ~loaded.ok
  <2>1. e = loaded
    BY <1>1, <1>14, StoreFailed
  <2>2. \A x \in Nat : get_fat(f, View(e), x) = get_fat(f, View(d), x)
    BY <1>7, <2>1, SameEntry DEF SeenAt
  <2>3. QED
    BY <1>7, <1>14, <2>1, <2>2 DEF Puts
<1>15. CASE loaded.ok
  <2>1. /\ IsDrive(e) /\ e.ok /\ e.medium = loaded.medium
        /\ \A a : SeenAt(e, a) = IF a \in Place(f, c) THEN bytes[a] ELSE SeenAt(loaded, a)
    BY <1>1, <1>7, <1>9, <1>13, <1>15, StoreIs
  <2>2. ASSUME NEW x \in Nat, x # c
        PROVE  get_fat(f, View(e), x) = get_fat(f, View(d), x)
    <3>1. \A a \in Place(f, x) : Byte(View(e), a) = Byte(View(d), a)
      BY <1>7, <2>1, <2>2, PlacesApart DEF SeenAt
    <3>2. QED
      BY <3>1, SameEntry
  <2>3. get_fat(f, View(e), c) = Kept(f, val)
    <3>1. CASE f.fs_type = 16
      <4>1. Byte(View(e), at) = Piece(val, 0) /\ Byte(View(e), at + 1) = Piece(val, 1)
        BY <1>2, <1>10, <1>12, <2>1, <3>1 DEF SeenAt
      <4>2. get_fat(f, View(e), c) = Byte(View(e), at) + 256 * Byte(View(e), at + 1)
        BY <1>2, <1>3, <3>1, GetIs
      <4>3. Kept(f, val) = val % 65536
        BY <3>1 DEF Kept
      <4>4. QED
        BY <4>1, <4>2, <4>3, PieceIs
    <3>2. CASE f.fs_type = 32
      <4>1. /\ Byte(View(e), at) = Piece(val, 0) /\ Byte(View(e), at + 1) = Piece(val, 1)
            /\ Byte(View(e), at + 2) = Piece(val, 2)
            /\ Byte(View(e), at + 3) % 16 = Piece(val, 3)
        BY <1>2, <1>10, <1>11, <1>12, <2>1, <3>2 DEF SeenAt
      <4>2. get_fat(f, View(e), c) = Byte(View(e), at) + 256 * Byte(View(e), at + 1)
                                     + 65536 * Byte(View(e), at + 2)
                                     + 16777216 * (Byte(View(e), at + 3) % 16)
        BY <1>2, <1>3, <3>2, GetIs
      <4>3. Kept(f, val) = val % (EOC + 1)
        BY <3>2 DEF Kept
      <4>4. QED
        BY <4>1, <4>2, <4>3, PieceIs
    <3>3. QED
      BY <3>1, <3>2 DEF IsVolume
  <2>4. QED
    BY <1>7, <2>1, <2>2, <2>3 DEF Puts
<1>16. QED
  BY <1>14, <1>15

LEMMA OnePlusOne ==
    ASSUME NEW a, NEW b, a # b
    PROVE  Cardinality({a, b}) = 2
<1>1. IsFiniteSet({}) /\ Cardinality({}) = 0
  BY FS_EmptySet
<1>2. {} \cup {a} = {a} /\ {a} \cup {b} = {a, b}
  OBVIOUS
<1>3. IsFiniteSet({a}) /\ Cardinality({a}) = 1
  BY <1>1, <1>2, FS_AddElement
<1>4. QED
  BY <1>2, <1>3, FS_AddElement

(* Put of a FAT12 entry: its two bytes are changed one after the other,    *)
(* and when they lie in two sectors the first is written before the second *)
(* is read.                                                                *)
LEMMA Put12Is ==
    ASSUME NEW f, IsVolume(f), f.fs_type = 12, NEW c \in Nat, NEW val \in Nat, val <= EOC,
           NEW bad, NEW d, IsDrive(d), d.ok, NEW e, e = Put12(d, f, c, val, bad)
    PROVE  Puts(f, c, val, d, e)
<1> DEFINE at == EntryAt(f, c)
           old(y, a) == Byte(Over(y.medium, y.win.edits), a)
           first == move_window(d, at \div SS, bad)
           lo == IF c % 2 = 1 THEN (old(first, at) % 16) + 16 * (val % 16) ELSE val % 256
           mid == Store(first, [a \in {at} |-> lo])
           second == move_window(mid, (at + 1) \div SS, bad)
           hi == IF c % 2 = 1 THEN (val \div 16) % 256
                 ELSE old(second, at + 1) - (old(second, at + 1) % 16)
                      + ((val \div 256) % 16)
<1>1. e = Store(second, [a \in {at + 1} |-> hi])
  BY DEF Put12
<1>2. /\ hi = IF c % 2 = 1 THEN (val \div 16) % 256
                ELSE SeenAt(second, at + 1) - (SeenAt(second, at + 1) % 16)
                     + ((val \div 256) % 16)
      /\ second = move_window(mid, (at + 1) \div SS, bad)
  BY DEF SeenAt, View
<1> HIDE DEF hi, second
<1>3. mid = Store(first, [a \in {at} |-> lo])
  OBVIOUS
<1> HIDE DEF mid
<1>4. /\ lo = IF c % 2 = 1 THEN (SeenAt(first, at) % 16) + 16 * (val % 16) ELSE val % 256
      /\ first = move_window(d, at \div SS, bad)
  BY DEF SeenAt, View
<1> HIDE DEF lo, first, old
<1>5. at \in Nat /\ at = EntryAt(f, c) /\ Place(f, c) = {at, at + 1}
  BY PlaceIs DEF IsVolume
<1> HIDE DEF at
<1>6. at \div SS \in Int /\ (at + 1) \div SS \in Int
  BY <1>5 DEF SS
<1>7. at \div SS # (at + 1) \div SS => Split(f, c)
  <2>1. SectorsOf(f, c) = {at \div SS, (at + 1) \div SS}
    BY <1>5 DEF SectorsOf
  <2>2. PICK s, t : s = at \div SS /\ t = (at + 1) \div SS
    OBVIOUS
  <2>3. s # t => Cardinality({s, t}) = 2
    BY OnePlusOne
  <2>4. SectorsOf(f, c) = {s, t}
    BY <2>1, <2>2
  <2>5. QED
    BY <2>2, <2>3, <2>4 DEF Split
<1>8. /\ IsDrive(first) /\ \A a : SeenAt(first, a) = SeenAt(d, a)
      /\ first.medium \in {d.medium, View(d)}
      /\ first.ok => first.win.sect = at \div SS
  BY <1>4, <1>6, MoveIs DEF View
<1>9. /\ SeenAt(d, at) \in Nat /\ SeenAt(d, at) < 256
      /\ SeenAt(d, at + 1) \in Nat /\ SeenAt(d, at + 1) < 256
  <2>1. IsBytes(View(d))
    BY OverBytes DEF View, IsDrive, IsWin
  <2>2. QED
    BY <2>1, ByteIs DEF SeenAt
<1>10. CASE ~first.ok
  <2>1. mid = first
    BY <1>3, <1>10, StoreFailed
  <2>2. second = first
    BY <1>2, <1>10, <2>1 DEF move_window
  <2>3. e = first
    BY <1>1, <1>10, <2>2, StoreFailed
  <2>4. \A x \in Nat : get_fat(f, View(e), x) = get_fat(f, View(d), x)
    BY <1>8, <2>3, SameEntry DEF SeenAt
  <2>5. QED
    BY <1>8, <1>10, <2>3, <2>4 DEF Puts
<1>11. CASE first.ok
  <2>1. lo \in 0 .. 255 /\ (c % 2 = 1 => lo % 16 = SeenAt(d, at) % 16)
        /\ (c % 2 = 1 => lo \div 16 = val % 16) /\ (c % 2 # 1 => lo = val % 256)
    <3>1. SeenAt(first, at) = SeenAt(d, at)
      BY <1>8
    <3>2. CASE c % 2 = 1
      <4>1. PICK r \in Nat : r = SeenAt(d, at) % 16 /\ r < 16
        BY <1>9
      <4>2. PICK v \in Nat : v = val % 16 /\ v < 16
        OBVIOUS
      <4>3. lo = r + 16 * v
        BY <1>4, <3>1, <3>2, <4>1, <4>2
      <4>4. lo \in 0 .. 255 /\ lo % 16 = r /\ lo \div 16 = v
        BY <4>1, <4>2, <4>3
      <4>5. QED
        BY <3>2, <4>1, <4>2, <4>4
    <3>3. CASE c % 2 # 1
      BY <1>4, <3>3
    <3>4. QED
      BY <3>2, <3>3
  <2> DEFINE one == [a \in {at} |-> lo]
  <2>2. IsBytes(one) /\ DOMAIN one = {at} /\ one[at] = lo
    BY <1>5, <2>1 DEF IsBytes
  <2>3. mid = Store(first, one)
    BY <1>3
  <2> HIDE DEF one
  <2>4. /\ IsDrive(mid) /\ mid.ok /\ mid.win.sect = at \div SS /\ mid.medium = first.medium
        /\ \A a : SeenAt(mid, a) = IF a = at THEN lo ELSE SeenAt(first, a)
    BY <1>5, <1>8, <1>11, <2>2, <2>3, StoreIs
  <2>5. \A a : SeenAt(mid, a) = IF a = at THEN lo ELSE SeenAt(d, a)
    BY <1>8, <2>4
  <2>6. /\ IsDrive(second) /\ \A a : SeenAt(second, a) = SeenAt(mid, a)
        /\ second.medium \in {mid.medium, View(mid)}
        /\ second.ok => second.win.sect = (at + 1) \div SS
        /\ (at + 1) \div SS = at \div SS => second = mid
    BY <1>2, <1>6, <2>4, MoveIs DEF View
  <2>7. \A x \in Nat : x # c => get_fat(f, View(mid), x) = get_fat(f, View(d), x)
    <3>1. TAKE x \in Nat
    <3>2. HAVE x # c
    <3>3. /\ \A a \in Nat : a # at /\ a # at + 1 => Byte(View(mid), a) = Byte(View(d), a)
          /\ c % 2 = 1 => Byte(View(mid), at) % 16 = Byte(View(d), at) % 16
          /\ Byte(View(mid), at + 1) = Byte(View(d), at + 1)
      BY <1>5, <2>1, <2>5 DEF SeenAt
    <3>4. QED
      BY <1>5, <3>2, <3>3, NeighbourKept
  <2>8. \A x \in Nat : \/ get_fat(f, second.medium, x) = get_fat(f, d.medium, x)
                       \/ get_fat(f, second.medium, x) = get_fat(f, View(d), x)
                       \/ x = c /\ Split(f, c)
    <3>1. TAKE x \in Nat
    <3>2. CASE second.medium \in {d.medium, View(d)}
      <4>1. CASE second.medium = d.medium
        BY <4>1
      <4>2. CASE second.medium = View(d)
        BY <4>2
      <4>3. QED
        BY <3>2, <4>1, <4>2
    <3>3. CASE second.medium \notin {d.medium, View(d)}
      <4>1. second.medium = View(mid) /\ second # mid
        BY <1>8, <2>4, <2>6, <3>3
      <4>2. Split(f, c)
        BY <1>7, <2>6, <4>1
      <4>3. QED
        BY <2>7, <4>1, <4>2
    <3>4. QED
      BY <3>2, <3>3
  <2>9. CASE ~second.ok
    <3>1. e = second
      BY <1>1, <2>9, StoreFailed
    <3>2. Split(f, c)
      BY <1>7, <2>4, <2>6, <2>9
    <3>3. \A x \in Nat : get_fat(f, View(e), x) = get_fat(f, View(mid), x)
      BY <2>6, <3>1, SameEntry DEF SeenAt
    <3>4. QED
      BY <2>6, <2>7, <2>8, <2>9, <3>1, <3>2, <3>3 DEF Puts
  <2>10. CASE second.ok
    <3>1. SeenAt(second, at + 1) = SeenAt(d, at + 1)
      BY <1>5, <2>5, <2>6
    <3>2. /\ hi \in 0 .. 255
          /\ c % 2 = 1 => hi = (val \div 16) % 256
          /\ c % 2 # 1 => /\ hi \div 16 = SeenAt(d, at + 1) \div 16
                         /\ hi % 16 = (val \div 256) % 16
      <4>1. CASE c % 2 = 1
        BY <1>2, <4>1
      <4>2. CASE c % 2 # 1
        <5>1. PICK q \in Nat : /\ q = SeenAt(d, at + 1) \div 16 /\ q < 16
                               /\ SeenAt(d, at + 1) = 16 * q + (SeenAt(d, at + 1) % 16)
          BY <1>9
        <5>2. PICK v \in Nat : v = (val \div 256) % 16 /\ v < 16
          OBVIOUS
        <5>3. hi = 16 * q + v
          BY <1>2, <1>9, <3>1, <4>2, <5>1, <5>2
        <5>4. hi \in 0 .. 255 /\ hi \div 16 = q /\ hi % 16 = v
          <6>1. q \in Nat /\ q < 16 /\ v \in Nat /\ v < 16
            BY <5>1, <5>2
          <6>2. QED
            BY <5>3, <6>1
        <5>5. QED
          BY <4>2, <5>1, <5>2, <5>4
      <4>3. QED
        BY <4>1, <4>2
    <3> DEFINE two == [a \in {at + 1} |-> hi]
    <3>3. IsBytes(two) /\ DOMAIN two = {at + 1} /\ two[at + 1] = hi
      BY <1>5, <3>2 DEF IsBytes
    <3>4. e = Store(second, two)
      BY <1>1
    <3> HIDE DEF two
    <3>5. /\ IsDrive(e) /\ e.ok /\ e.medium = second.medium
          /\ \A a : SeenAt(e, a) = IF a = at + 1 THEN hi ELSE SeenAt(second, a)
      BY <1>5, <2>6, <2>10, <3>3, <3>4, StoreIs
    <3>6. \A a \in Nat : SeenAt(e, a) = IF a = at + 1 THEN hi ELSE IF a = at THEN lo ELSE SeenAt(d, a)
      BY <2>5, <2>6, <3>5
    <3>7. at # at + 1 /\ at + 1 \in Nat
      BY <1>5
    <3>8. ASSUME NEW x \in Nat, x # c
          PROVE  get_fat(f, View(e), x) = get_fat(f, View(d), x)
      <4>1. /\ \A a \in Nat : a # at /\ a # at + 1 => Byte(View(e), a) = Byte(View(d), a)
            /\ c % 2 = 1 => Byte(View(e), at) % 16 = Byte(View(d), at) % 16
            /\ c % 2 # 1 => Byte(View(e), at + 1) \div 16 = Byte(View(d), at + 1) \div 16
        BY <1>5, <2>1, <3>2, <3>6, <3>7 DEF SeenAt
      <4>2. QED
        BY <1>5, <3>8, <4>1, NeighbourKept
    <3>9. get_fat(f, View(e), c) = Kept(f, val)
      <4>1. Kept(f, val) = val % 4096
        BY DEF Kept
      <4>2. Byte(View(e), at) = lo /\ Byte(View(e), at + 1) = hi
        BY <1>5, <3>6, <3>7 DEF SeenAt
      <4>3. CASE c % 2 = 1
        <5>1. get_fat(f, View(e), c) = lo \div 16 + 16 * hi
          BY <1>5, <4>2, <4>3, GetIs
        <5>2. (val % 16) + 16 * ((val \div 16) % 256) = val % 4096
          OBVIOUS
        <5>3. QED
          BY <2>1, <3>2, <4>1, <4>3, <5>1, <5>2
      <4>4. CASE c % 2 # 1
        <5>1. get_fat(f, View(e), c) = lo + 256 * (hi % 16)
          BY <1>5, <4>2, <4>4, GetIs
        <5>2. (val % 256) + 256 * ((val \div 256) % 16) = val % 4096
          OBVIOUS
        <5>3. QED
          BY <2>1, <3>2, <4>1, <4>4, <5>1, <5>2
      <4>5. QED
        BY <4>3, <4>4
    <3>10. QED
      BY <2>8, <3>5, <3>8, <3>9 DEF Puts
  <2>11. QED
    BY <2>9, <2>10
<1>12. QED
  BY <1>10, <1>11

-----------------------------------------------------------------------------
(* The writes of f_mkfs.                                                   *)

IsDisk(d) ==
    /\ d = [boots |-> d.boots, medium |-> d.medium, ok |-> d.ok]
    /\ d.ok \in BOOLEAN /\ IsBytes(d.medium)
    /\ \A s \in DOMAIN d.boots : RecordAt(s, d.boots[s])

(* e is d without what it held in the sectors from, ..., to.               *)
Without(d, e, from, to) ==
    /\ \A s : s \in DOMAIN e.boots <=> s \in DOMAIN d.boots /\ s \notin from .. to
    /\ \A s \in DOMAIN e.boots : e.boots[s] = d.boots[s]
    /\ \A a : a \in DOMAIN e.medium <=>
                 a \in DOMAIN d.medium /\ a \div SS \notin from .. to
    /\ \A a \in DOMAIN e.medium : e.medium[a] = d.medium[a]

(* Nothing is new in e, and nothing of d is lost outside these sectors.     *)
Keeps(d, e, from, to) ==
    /\ \A s \in DOMAIN d.boots :
          s \notin from .. to => s \in DOMAIN e.boots /\ e.boots[s] = d.boots[s]
    /\ \A a \in DOMAIN e.medium : a \in DOMAIN d.medium /\ e.medium[a] = d.medium[a]
    /\ \A a \in DOMAIN d.medium : a \div SS \notin from .. to => a \in DOMAIN e.medium

LEMMA ClearedIs ==
    ASSUME NEW d, IsDisk(d), NEW from \in Nat, NEW n \in Nat, NEW bad,
           drive.count \in Nat, NEW e, e = Cleared(d, from, n, bad)
    PROVE  /\ IsDisk(e) /\ Keeps(d, e, from, from + n - 1)
           /\ e.ok => d.ok /\ Without(d, e, from, from + n - 1)
           /\ e.ok /\ n > 0 => from + n <= drive.count
<1> DEFINE taken == Taken(from, n, bad)
<1>1. CASE ~d.ok
  <2>1. e = d
    BY <1>1 DEF Cleared
  <2>2. QED
    BY <1>1, <2>1 DEF Keeps
<1>2. CASE d.ok
  <2>1. e = [boots |-> Restrict(d.boots, DOMAIN d.boots \ taken),
             medium |-> Restrict(d.medium, {a \in DOMAIN d.medium : a \div SS \notin taken}),
             ok |-> taken = from .. from + n - 1]
    BY <1>2 DEF Cleared
  <2>2. taken \subseteq from .. from + n - 1 /\ (\A s \in taken : s < drive.count)
    BY DEF Taken
  <2> HIDE DEF taken
  <2>3. /\ e.boots = [s \in DOMAIN d.boots \ taken |-> d.boots[s]]
        /\ e.medium = [a \in {a \in DOMAIN d.medium : a \div SS \notin taken} |-> d.medium[a]]
        /\ e.ok = (taken = from .. from + n - 1)
        /\ e = [boots |-> e.boots, medium |-> e.medium, ok |-> e.ok]
    BY <2>1 DEF Restrict
  <2>4. /\ DOMAIN e.boots = DOMAIN d.boots \ taken
        /\ \A s \in DOMAIN e.boots : e.boots[s] = d.boots[s]
        /\ DOMAIN e.medium = {a \in DOMAIN d.medium : a \div SS \notin taken}
        /\ \A a \in DOMAIN e.medium : e.medium[a] = d.medium[a]
    BY <2>3
  <2>5. IsBytes(e.medium)
    <3>1. \A a \in DOMAIN e.medium : a \in Nat /\ e.medium[a] \in 0 .. 255
      BY <2>4 DEF IsDisk, IsBytes
    <3>2. e.medium = [a \in DOMAIN e.medium |-> e.medium[a]]
      BY <2>3
    <3>3. QED
      BY <3>1, <3>2 DEF IsBytes
  <2>6. IsDisk(e)
    <3>1. e.ok \in BOOLEAN
      BY <2>3
    <3>2. \A s \in DOMAIN e.boots : RecordAt(s, e.boots[s])
      BY <2>4 DEF IsDisk
    <3>3. QED
      BY <2>3, <2>5, <3>1, <3>2 DEF IsDisk
  <2>7. e.ok => Without(d, e, from, from + n - 1)
    BY <2>3, <2>4 DEF Without
  <2>8. ASSUME e.ok, n > 0 PROVE from + n <= drive.count
    <3>1. from + n - 1 \in from .. from + n - 1
      BY <2>8
    <3>2. taken = from .. from + n - 1
      BY <2>3, <2>8
    <3>3. from + n - 1 < drive.count
      BY <2>2, <3>1, <3>2
    <3>4. QED
      BY <3>3
  <2>9. Keeps(d, e, from, from + n - 1)
    BY <2>2, <2>4 DEF Keeps
  <2>10. QED
    BY <1>2, <2>6, <2>7, <2>8, <2>9
<1>3. QED
  BY <1>1, <1>2

(* e is d with a record in the sector sect, and nothing else in it.        *)
With(d, e, sect, record) ==
    /\ sect \in DOMAIN e.boots /\ e.boots[sect] = record
    /\ \A s : s # sect => (s \in DOMAIN e.boots <=> s \in DOMAIN d.boots)
    /\ \A s \in DOMAIN d.boots : s # sect => e.boots[s] = d.boots[s]
    /\ \A a : a \in DOMAIN e.medium <=> a \in DOMAIN d.medium /\ a \div SS # sect
    /\ \A a \in DOMAIN e.medium : e.medium[a] = d.medium[a]

LEMMA PutRecordIs ==
    ASSUME NEW d, IsDisk(d), NEW sect \in Nat, NEW record, RecordAt(sect, record),
           NEW bad, drive.count \in Nat, NEW e, e = PutRecord(d, sect, record, bad)
    PROVE  /\ IsDisk(e) /\ Keeps(d, e, sect, sect)
           /\ e.ok => d.ok /\ With(d, e, sect, record)
           /\ d.ok /\ sect < drive.count /\ bad \subseteq Int \ {sect} => e.ok
<1> DEFINE x == Cleared(d, sect, 1, bad)
           one == [s \in {sect} |-> record]
<1>1. /\ IsDisk(x) /\ x = Cleared(d, sect, 1, bad)
      /\ x.ok => d.ok /\ Without(d, x, sect, sect + 1 - 1)
      /\ Keeps(d, x, sect, sect + 1 - 1)
  BY ClearedIs
<1>2. e = IF x.ok THEN [x EXCEPT !.boots = Over(@, one)] ELSE x
  BY DEF PutRecord
<1>3. sect + 1 - 1 = sect /\ sect .. sect = {sect}
  OBVIOUS
<1>4. ASSUME d.ok, sect < drive.count, bad \subseteq Int \ {sect} PROVE x.ok
  <2>1. Taken(sect, 1, bad) = {sect}
    BY <1>3, <1>4 DEF Taken
  <2>2. x.ok = (Taken(sect, 1, bad) = sect .. sect + 1 - 1)
    BY <1>4 DEF Cleared
  <2>3. QED
    BY <1>3, <2>1, <2>2
<1> HIDE DEF x
<1>5. CASE ~x.ok
  BY <1>1, <1>2, <1>3, <1>4, <1>5
<1>6. CASE x.ok
  <2>1. /\ e.boots = Over(x.boots, one) /\ e.medium = x.medium /\ e.ok = x.ok
        /\ e = [boots |-> e.boots, medium |-> e.medium, ok |-> e.ok]
    BY <1>1, <1>2, <1>6 DEF IsDisk
  <2>2. /\ DOMAIN e.boots = DOMAIN x.boots \cup {sect}
        /\ e.boots[sect] = record
        /\ \A s \in DOMAIN x.boots : s # sect => e.boots[s] = x.boots[s]
    BY <2>1 DEF Over
  <2>3. IsDisk(e)
    <3>1. \A s \in DOMAIN e.boots : RecordAt(s, e.boots[s])
      BY <1>1, <2>2 DEF IsDisk
    <3>2. QED
      BY <1>1, <2>1, <3>1 DEF IsDisk
  <2>4. Without(d, x, sect, sect)
    BY <1>1, <1>3, <1>6
  <2>5. /\ \A s : s # sect => (s \in DOMAIN e.boots <=> s \in DOMAIN d.boots)
        /\ \A s \in DOMAIN d.boots : s # sect => e.boots[s] = d.boots[s]
    BY <1>3, <2>2, <2>4 DEF Without
  <2>6. /\ \A a : a \in DOMAIN e.medium <=> a \in DOMAIN d.medium /\ a \div SS # sect
        /\ \A a \in DOMAIN e.medium : e.medium[a] = d.medium[a]
    BY <1>3, <2>1, <2>4 DEF Without
  <2>7. With(d, e, sect, record)
    BY <2>2, <2>5, <2>6 DEF With
  <2>8. Keeps(d, e, sect, sect)
    <3>1. Keeps(d, x, sect, sect)
      BY <1>1, <1>3
    <3>2. QED
      BY <1>3, <2>1, <2>2, <3>1 DEF Keeps
  <2>9. QED
    BY <1>1, <1>6, <2>1, <2>3, <2>7, <2>8
<1>7. QED
  BY <1>5, <1>6

(* The layouts f_mkfs gives a volume of this drive.                        *)
IsLayout(p) ==
    /\ Sound(p) /\ p.b_vol \in {0, 63} /\ p.b_vol + p.n_vol = drive.count
    /\ drive.count \in Nat /\ drive.count <= MaxSectors /\ drive.count >= 128

LEMMA DriveIs ==
    ASSUME drive \in Drives
    PROVE  drive.count \in Nat /\ drive.count <= MaxSectors /\ drive.block \in Nat
<1>1. MaxSectors \in Nat
  BY DEF MaxSectors
<1>2. drive \in [count : 0 .. MaxSectors, block : Nat]
  BY LayoutAssumption
<1>3. QED
  BY <1>1, <1>2

LEMMA LayoutsAre ==
    ASSUME drive \in Drives, NEW p \in Layouts
    PROVE  IsLayout(p)
<1>1. drive.count \in Nat /\ drive.count <= MaxSectors /\ drive.block \in Nat
  BY DriveIs
<1>2. ~(drive.count < 128)
  BY DEF Layouts
<1>3. PICK b_vol \in {0, 63}, arg \in AllocUnits :
         p = Layout(b_vol, drive.count - b_vol, arg) /\ p # Aborted
  BY <1>2 DEF Layouts
<1>4. arg \in Nat /\ arg <= MaxSectors
  <2>1. MaxSectors \in Nat
    BY DEF MaxSectors
  <2>2. QED
    BY <2>1, LayoutAssumption
<1>5. b_vol \in Nat /\ drive.count - b_vol \in Nat
  BY <1>1, <1>2
<1>6. Sound(p) /\ p.b_vol = b_vol /\ p.n_vol = drive.count - b_vol
  BY <1>1, <1>3, <1>4, <1>5, LayoutIs
<1>7. QED
  BY <1>1, <1>2, <1>3, <1>5, <1>6 DEF IsLayout

LEMMA SoundIs ==
    ASSUME NEW p, IsLayout(p)
    PROVE  /\ p.kind = "layout" /\ p.fmt \in {12, 16, 32} /\ p.au \in Units /\ p.au \in Nat
           /\ p.au > 0
           /\ p.b_vol \in Nat /\ p.n_vol \in Nat /\ p.n_rsv \in Nat /\ p.n_fat \in Nat
           /\ p.n_dir \in Nat /\ p.n_clst \in Nat /\ p.n_rsv > 0 /\ p.n_fat > 0
           /\ p.fmt = 32 => p.n_rsv >= 32
           /\ FatStart(p) = p.b_vol + p.n_rsv /\ FatStart(p) \in Nat
           /\ DataStart(p) = FatStart(p) + p.n_fat /\ DataStart(p) \in Nat
           /\ RootSectors(p) = (IF p.fmt = 32 THEN p.au ELSE 32)
           /\ RootSectors(p) \in Nat /\ RootSectors(p) > 0
<1>1. p \in LayoutType
  BY DEF IsLayout, Sound
<1>2. /\ p.kind = "layout" /\ p.fmt \in {12, 16, 32} /\ p.au \in Units
      /\ p.b_vol \in Nat /\ p.n_vol \in Nat /\ p.n_rsv \in Nat /\ p.n_fat \in Nat
      /\ p.n_dir \in Nat /\ p.n_clst \in Nat
  BY <1>1 DEF LayoutType
<1>3. p.au \in Nat /\ p.au > 0
  BY <1>2 DEF Units
<1>4. /\ IF p.fmt = 32 THEN p.n_rsv >= 32 /\ p.n_rsv < 65536 ELSE p.n_rsv = 1
      /\ p.n_dir = (IF p.fmt = 32 THEN 0 ELSE 32)
      /\ p.n_fat > 0
  BY DEF IsLayout, Sound
<1>5. /\ FatStart(p) = p.b_vol + p.n_rsv /\ FatStart(p) \in Nat
      /\ DataStart(p) = FatStart(p) + p.n_fat /\ DataStart(p) \in Nat
  BY <1>2 DEF FatStart, DataStart, N_FATS
<1>6. RootSectors(p) = IF p.fmt = 32 THEN p.au ELSE 32
  BY <1>4 DEF RootSectors
<1>7. QED
  BY <1>2, <1>3, <1>4, <1>5, <1>6

LEMMA ReservedIs ==
    ASSUME NEW p, IsLayout(p)
    PROVE  /\ IsBytes(Reserved(p))
           /\ \A a \in DOMAIN Reserved(p) : a \div SS = FatStart(p)
<1>1. FatStart(p) = p.b_vol + p.n_rsv /\ FatStart(p) \in Nat
  BY SoundIs
<1> DEFINE at == (p.b_vol + p.n_rsv) * SS
           n == CASE p.fmt = 12 -> 3 [] p.fmt = 16 -> 4 [] OTHER -> 12
<1>2. n \in {3, 4, 12}
  <2>1. p.fmt = 12 => n = 3
    OBVIOUS
  <2>2. p.fmt = 16 => n = 4
    OBVIOUS
  <2>3. p.fmt = 32 => n = 12
    OBVIOUS
  <2>4. p.fmt \in {12, 16, 32}
    BY SoundIs
  <2>5. QED
    BY <2>1, <2>2, <2>3, <2>4
<1>3. Reserved(p) = [a \in at .. at + n - 1 |->
                        IF a = at THEN IF p.b_vol = 0 THEN 240 ELSE 248
                        ELSE IF a = at + 11 THEN 15 ELSE 255]
  BY DEF Reserved
<1>4. at = FatStart(p) * 512
  BY <1>1 DEF SS
<1> HIDE DEF at, n
<1>5. DOMAIN Reserved(p) = at .. at + n - 1 /\ (\A a \in DOMAIN Reserved(p) : Reserved(p)[a] \in 0 .. 255)
  BY <1>3
<1>6. \A a \in at .. at + n - 1 : a \in Nat /\ a \div 512 = FatStart(p)
  BY <1>1, <1>2, <1>4
<1>7. IsBytes(Reserved(p))
  <2>1. Reserved(p) = [a \in DOMAIN Reserved(p) |-> Reserved(p)[a]]
    BY <1>3, <1>5
  <2>2. QED
    BY <1>5, <1>6, <2>1 DEF IsBytes
<1>8. QED
  BY <1>5, <1>6, <1>7 DEF SS

(* The table on the disk e is as f_mkfs writes it.                         *)
FreshTable(p, e) ==
    /\ \A a \in DOMAIN Reserved(p) : a \in DOMAIN e.medium /\ e.medium[a] = Reserved(p)[a]
    /\ \A a \in DOMAIN e.medium :
          a \div SS \in FatStart(p) .. DataStart(p) - 1 => a \in DOMAIN Reserved(p)

LEMMA PutTableIs ==
    ASSUME NEW p, IsLayout(p), NEW d, IsDisk(d), NEW bad, NEW e, e = PutTable(d, p, bad)
    PROVE  /\ IsDisk(e)
           /\ e.ok => /\ d.ok /\ FreshTable(p, e)
                      /\ \A s \in DOMAIN d.boots : s < FatStart(p) =>
                            s \in DOMAIN e.boots /\ e.boots[s] = d.boots[s]
<1> DEFINE n == p.n_fat * N_FATS
           from == FatStart(p)
           x == Cleared(d, from, n, bad)
<1>1. /\ from \in Nat /\ n \in Nat /\ n > 0 /\ DataStart(p) = from + n
      /\ drive.count \in Nat
  BY SoundIs DEF N_FATS, IsLayout
<1>2. /\ IsDisk(x) /\ (x.ok => d.ok /\ Without(d, x, from, from + n - 1))
  BY <1>1, ClearedIs
<1>3. e = IF d.ok /\ from \in Taken(from, n, bad)
          THEN [x EXCEPT !.medium = Over(@, Reserved(p))] ELSE x
  BY DEF PutTable
<1>4. x.ok => d.ok /\ from \in Taken(from, n, bad)
  <2>1. CASE d.ok /\ x.ok
    <3>1. x.ok = (Taken(from, n, bad) = from .. from + n - 1)
      BY <2>1 DEF Cleared
    <3>2. Taken(from, n, bad) = from .. from + n - 1
      BY <2>1, <3>1
    <3>3. from \in from .. from + n - 1
      BY <1>1
    <3>4. QED
      BY <2>1, <3>2, <3>3
  <2>2. QED
    BY <1>2, <2>1
<1>5. IsBytes(Reserved(p)) /\ (\A a \in DOMAIN Reserved(p) : a \div SS = from)
  BY ReservedIs
<1> HIDE DEF x, n, from
<1>6. CASE ~(d.ok /\ from \in Taken(from, n, bad))
  BY <1>2, <1>3, <1>4, <1>6
<1>7. CASE d.ok /\ from \in Taken(from, n, bad)
  <2>1. /\ e.boots = x.boots /\ e.medium = Over(x.medium, Reserved(p)) /\ e.ok = x.ok
        /\ e = [boots |-> e.boots, medium |-> e.medium, ok |-> e.ok]
    BY <1>2, <1>3, <1>7 DEF IsDisk
  <2>2. IsBytes(Over(x.medium, Reserved(p)))
    BY <1>2, <1>5, OverBytes DEF IsDisk
  <2>3. IsDisk(e)
    BY <1>2, <2>1, <2>2 DEF IsDisk
  <2>4. ASSUME x.ok
        PROVE  FreshTable(p, e)
    <3>1. Without(d, x, from, from + n - 1)
      BY <1>2, <2>4
    <3>2. \A a \in DOMAIN x.medium : a \div SS \notin from .. from + n - 1
      BY <3>1 DEF Without
    <3>3. from .. from + n - 1 = FatStart(p) .. DataStart(p) - 1
      BY <1>1 DEF from
    <3>4. /\ DOMAIN e.medium = DOMAIN x.medium \cup DOMAIN Reserved(p)
          /\ \A a \in DOMAIN Reserved(p) : e.medium[a] = Reserved(p)[a]
      BY <2>1 DEF Over
    <3>5. QED
      BY <3>2, <3>3, <3>4 DEF FreshTable
  <2>5. ASSUME x.ok, NEW s \in DOMAIN d.boots, s < FatStart(p)
        PROVE  s \in DOMAIN e.boots /\ e.boots[s] = d.boots[s]
    <3>1. Without(d, x, from, from + n - 1)
      BY <1>2, <2>5
    <3>2. s \notin from .. from + n - 1
      BY <1>1, <2>5 DEF from
    <3>3. QED
      BY <2>1, <3>1, <3>2 DEF Without
  <2>6. QED
    BY <1>7, <2>1, <2>3, <2>4, <2>5
<1>8. QED
  BY <1>6, <1>7

LEMMA RecordsAre ==
    ASSUME NEW p, IsLayout(p)
    PROVE  /\ RecordAt(p.b_vol, BootRecord(p)) /\ BootRecord(p) \in BootType
           /\ p.b_vol # 0 => RecordAt(0, Partition(p)) /\ p.b_vol = 63
           /\ RecordAt(p.b_vol + 1, FsInfo(p))
<1>1. /\ p.b_vol \in {0, 63} /\ p.b_vol + p.n_vol = drive.count /\ drive.count <= MaxSectors
      /\ p.b_vol \in Nat /\ p.n_vol \in Nat /\ p.n_rsv \in Nat /\ p.n_fat \in Nat
      /\ p.au \in Nat /\ drive.count \in Nat
  BY SoundIs DEF IsLayout
<1>2. BootRecord(p) \in BootType /\ BootRecord(p).tsect = p.n_vol
  <2>1. p.n_rsv % 65536 \in Nat /\ p.n_fat % 65536 \in Nat
    BY <1>1
  <2>2. QED
    BY <1>1, <2>1 DEF BootRecord, BootType, SS, N_FATS, N_ROOTDIR
<1>3. p.n_vol <= MaxSectors
  <2>1. MaxSectors \in Nat
    BY DEF MaxSectors
  <2>2. QED
    BY <1>1, <2>1
<1>4. RecordAt(p.b_vol, BootRecord(p))
  BY <1>1, <1>2, <1>3 DEF RecordAt
<1>5. p.b_vol # 0 => RecordAt(0, Partition(p)) /\ p.b_vol = 63
  BY <1>1 DEF RecordAt, Partition
<1>6. RecordAt(p.b_vol + 1, FsInfo(p))
  BY <1>1 DEF RecordAt, FsInfo
<1>7. QED
  BY <1>2, <1>4, <1>5, <1>6

(* What LaidOut says of the disk.                                          *)
OnDisk(p, d, hasinfo) ==
    /\ DataStart(p) + RootSectors(p) <= drive.count
    /\ p.b_vol \in DOMAIN d.boots /\ d.boots[p.b_vol] = BootRecord(p)
    /\ p.b_vol # 0 => 0 \in DOMAIN d.boots /\ d.boots[0] = Partition(p)
    /\ p.fmt = 32 /\ hasinfo => /\ p.b_vol + 1 \in DOMAIN d.boots
                                /\ d.boots[p.b_vol + 1] = FsInfo(p)
    /\ FreshTable(p, d)

LEMMA FormattedIs ==
    ASSUME NEW p, IsLayout(p), Counted, Recorded, NEW bad, bad \subseteq Int,
           NEW d, d = Formatted(p, bad)
    PROVE  /\ IsDisk(d)
           /\ d.ok => OnDisk(p, d, p.b_vol + 1 \notin bad)
<1> DEFINE start == [boots |-> boots, medium |-> medium, ok |-> TRUE]
           mbr == IF p.b_vol = 0 THEN start ELSE PutRecord(start, 0, Partition(p), bad)
           vbr == PutRecord(mbr, p.b_vol, BootRecord(p), bad)
           table == PutTable(vbr, p, bad)
           root == Cleared(table, DataStart(p), RootSectors(p), bad)
           info == PutRecord(root, p.b_vol + 1, FsInfo(p), bad)
<1>1. d = IF p.fmt = 32 THEN [info EXCEPT !.ok = root.ok] ELSE root
  BY DEF Formatted
<1>2. /\ p.b_vol \in Nat /\ p.b_vol \in {0, 63} /\ p.n_rsv \in Nat /\ p.n_rsv > 0
      /\ p.fmt = 32 => p.n_rsv >= 32
      /\ FatStart(p) = p.b_vol + p.n_rsv /\ FatStart(p) \in Nat
      /\ DataStart(p) = FatStart(p) + p.n_fat /\ DataStart(p) \in Nat /\ p.n_fat \in Nat
      /\ RootSectors(p) \in Nat /\ RootSectors(p) > 0 /\ drive.count \in Nat
      /\ p.fmt \in {12, 16, 32}
  BY SoundIs DEF IsLayout
<1>3. IsDisk(start)
  BY DEF IsDisk, Counted, Recorded
<1>4. /\ IsDisk(mbr)
      /\ mbr.ok /\ p.b_vol # 0 => 0 \in DOMAIN mbr.boots /\ mbr.boots[0] = Partition(p)
  <2>1. CASE p.b_vol = 0
    BY <1>3, <2>1
  <2>2. CASE p.b_vol # 0
    <3>1. mbr = PutRecord(start, 0, Partition(p), bad) /\ RecordAt(0, Partition(p))
      BY <2>2, RecordsAre
    <3> HIDE DEF mbr, start
    <3>2. IsDisk(mbr) /\ (mbr.ok => With(start, mbr, 0, Partition(p)))
      BY <1>2, <1>3, <3>1, PutRecordIs
    <3>3. QED
      BY <3>2 DEF With
  <2>3. QED
    BY <2>1, <2>2
<1> HIDE DEF mbr
<1>5. /\ IsDisk(vbr)
      /\ vbr.ok => /\ p.b_vol \in DOMAIN vbr.boots /\ vbr.boots[p.b_vol] = BootRecord(p)
                   /\ p.b_vol # 0 => 0 \in DOMAIN vbr.boots /\ vbr.boots[0] = Partition(p)
  <2>1. RecordAt(p.b_vol, BootRecord(p))
    BY RecordsAre
  <2>2. IsDisk(vbr) /\ (vbr.ok => mbr.ok /\ With(mbr, vbr, p.b_vol, BootRecord(p)))
    BY <1>2, <1>4, <2>1, PutRecordIs
  <2>3. QED
    BY <1>4, <2>2 DEF With
<1> HIDE DEF vbr
<1>6. /\ IsDisk(table)
      /\ table.ok => /\ FreshTable(p, table)
                     /\ p.b_vol \in DOMAIN table.boots /\ table.boots[p.b_vol] = BootRecord(p)
                     /\ p.b_vol # 0 => 0 \in DOMAIN table.boots /\ table.boots[0] = Partition(p)
  <2>1. /\ IsDisk(table)
        /\ table.ok => /\ vbr.ok /\ FreshTable(p, table)
                       /\ \A s \in DOMAIN vbr.boots : s < FatStart(p) =>
                             s \in DOMAIN table.boots /\ table.boots[s] = vbr.boots[s]
    BY <1>5, PutTableIs
  <2>2. p.b_vol < FatStart(p) /\ 0 < FatStart(p)
    BY <1>2
  <2>3. QED
    BY <1>5, <2>1, <2>2
<1> HIDE DEF table
<1>7. /\ IsDisk(root)
      /\ root.ok => /\ DataStart(p) + RootSectors(p) <= drive.count
                    /\ FreshTable(p, root)
                    /\ p.b_vol \in DOMAIN root.boots /\ root.boots[p.b_vol] = BootRecord(p)
                    /\ p.b_vol # 0 => 0 \in DOMAIN root.boots /\ root.boots[0] = Partition(p)
  <2> DEFINE end == DataStart(p) + RootSectors(p) - 1
  <2>1. /\ IsDisk(root)
        /\ root.ok => /\ table.ok /\ Without(table, root, DataStart(p), end)
                      /\ DataStart(p) + RootSectors(p) <= drive.count
    BY <1>2, <1>6, ClearedIs
  <2>2. /\ p.b_vol \notin DataStart(p) .. end /\ 0 \notin DataStart(p) .. end
        /\ FatStart(p) \notin DataStart(p) .. end
    <3>1. p.n_fat > 0
      BY SoundIs
    <3>2. QED
      BY <1>2, <3>1
  <2> HIDE DEF root, end
  <2>3. ASSUME root.ok PROVE FreshTable(p, root)
    <3>1. \A a \in DOMAIN Reserved(p) : a \in DOMAIN root.medium /\ root.medium[a] = table.medium[a]
      BY <1>6, <2>1, <2>2, <2>3, ReservedIs DEF Without, FreshTable
    <3>2. QED
      BY <1>6, <2>1, <2>3, <3>1 DEF Without, FreshTable
  <2>4. QED
    BY <1>6, <2>1, <2>2, <2>3 DEF Without
<1> HIDE DEF root
<1>8. CASE p.fmt # 32
  BY <1>1, <1>7, <1>8 DEF OnDisk
<1>9. CASE p.fmt = 32
  <2> DEFINE sect == p.b_vol + 1
  <2>1. RecordAt(sect, FsInfo(p)) /\ sect \in Nat
    BY <1>2, RecordsAre
  <2>2. info = PutRecord(root, sect, FsInfo(p), bad)
    OBVIOUS
  <2>3. sect # p.b_vol /\ sect # 0 /\ sect # FatStart(p) /\ sect < drive.count
        /\ sect \notin FatStart(p) .. DataStart(p) - 1
    BY <1>2, <1>9 DEF IsLayout
  <2>4. d = [info EXCEPT !.ok = root.ok]
    BY <1>1, <1>9
  <2>5. sect = p.b_vol + 1
    OBVIOUS
  <2> HIDE DEF info, sect
  <2>6. /\ IsDisk(info) /\ Keeps(root, info, sect, sect)
        /\ info.ok => With(root, info, sect, FsInfo(p))
        /\ root.ok /\ sect < drive.count /\ bad \subseteq Int \ {sect} => info.ok
    BY <1>2, <1>7, <2>1, <2>2, PutRecordIs
  <2>7. /\ d.boots = info.boots /\ d.medium = info.medium /\ d.ok = root.ok
        /\ d = [boots |-> d.boots, medium |-> d.medium, ok |-> d.ok]
    BY <2>4, <2>6 DEF IsDisk
  <2>8. IsDisk(d)
    BY <1>7, <2>6, <2>7 DEF IsDisk
  <2>9. Keeps(root, d, sect, sect) /\ sect .. sect = {sect}
    BY <2>1, <2>6, <2>7 DEF Keeps
  <2>10. ASSUME root.ok PROVE OnDisk(p, d, sect \notin bad)
    <3>1. /\ p.b_vol \in DOMAIN d.boots /\ d.boots[p.b_vol] = BootRecord(p)
          /\ p.b_vol # 0 => 0 \in DOMAIN d.boots /\ d.boots[0] = Partition(p)
      BY <1>7, <2>3, <2>9, <2>10 DEF Keeps
    <3>2. FreshTable(p, root)
      BY <1>7, <2>10
    <3>3. FreshTable(p, d)
      <4>1. ASSUME NEW a \in DOMAIN Reserved(p)
            PROVE  a \in DOMAIN d.medium /\ d.medium[a] = Reserved(p)[a]
        <5>1. a \div SS = FatStart(p) /\ a \in DOMAIN root.medium /\ root.medium[a] = Reserved(p)[a]
          BY <3>2, ReservedIs DEF FreshTable
        <5>2. QED
          BY <2>3, <2>9, <5>1 DEF Keeps
      <4>2. QED
        BY <2>9, <3>2, <4>1 DEF Keeps, FreshTable
    <3>4. sect \notin bad => sect \in DOMAIN d.boots /\ d.boots[sect] = FsInfo(p)
      <4>1. ASSUME sect \notin bad PROVE info.ok
        BY <2>3, <2>6, <2>10, <4>1
      <4>2. QED
        BY <2>6, <2>7, <4>1 DEF With
    <3>5. QED
      BY <1>7, <2>5, <2>10, <3>1, <3>3, <3>4 DEF OnDisk
  <2>11. QED
    BY <2>5, <2>7, <2>8, <2>10
<1>10. QED
  BY <1>8, <1>9

-----------------------------------------------------------------------------
(* find_volume.                                                            *)

LEMMA CheckIs ==
    ASSUME NEW s, NEW bad
    PROVE  /\ check_fs(s, bad) \in {0, 1, 2, 3}
           /\ check_fs(s, bad) = 0 <=> /\ s \notin bad /\ s \in DOMAIN boots
                                       /\ boots[s].kind = "boot"
           /\ check_fs(s, bad) = 1 <=> /\ s \notin bad /\ s \in DOMAIN boots
                                       /\ boots[s].kind # "boot"
BY DEF check_fs

LEMMA BootSectorIs ==
    ASSUME Recorded, NEW bad, NEW at, at = BootSector(bad)
    PROVE  /\ check_fs(0, bad) # 1 => at = [bsect |-> 0, fmt |-> check_fs(0, bad)]
           /\ check_fs(0, bad) = 1 =>
                 /\ 0 \in DOMAIN boots /\ boots[0].kind = "partition"
                 /\ at = IF check_fs(63, bad) = 0 THEN [bsect |-> 63, fmt |-> 0]
                         ELSE [bsect |-> 0, fmt |-> 2]
<1>1. CASE check_fs(0, bad) # 1
  BY <1>1 DEF BootSector
<1>2. CASE check_fs(0, bad) = 1
  <2> DEFINE br == boots[0].start
             fmt(i) == IF br[i] = 0 THEN 2 ELSE check_fs(br[i], bad)
             hits == {i \in 1 .. 4 : fmt(i) = 0}
  <2>1. 0 \in DOMAIN boots /\ boots[0].kind # "boot"
    BY <1>2, CheckIs
  <2>2. RecordAt(0, boots[0])
    BY <2>1 DEF Recorded
  <2>3. boots[0] = [kind |-> "partition", start |-> <<63, 0, 0, 0>>]
    BY <2>1, <2>2 DEF RecordAt, BootType
  <2>4. br = <<63, 0, 0, 0>>
    BY <2>3
  <2>5. at = IF hits = {} THEN [bsect |-> br[4], fmt |-> fmt(4)]
             ELSE [bsect |-> br[CHOOSE i \in hits : \A j \in hits : i <= j], fmt |-> 0]
    BY <1>2 DEF BootSector
  <2>6. br[1] = 63 /\ br[2] = 0 /\ br[3] = 0 /\ br[4] = 0
    BY <2>4
  <2>7. fmt(1) = check_fs(63, bad) /\ fmt(2) = 2 /\ fmt(3) = 2 /\ fmt(4) = 2
    BY <2>6
  <2>8. hits = IF check_fs(63, bad) = 0 THEN {1} ELSE {}
    <3>1. \A i \in 1 .. 4 : i \in {1, 2, 3, 4}
      OBVIOUS
    <3>2. \A i \in hits : i = 1 /\ check_fs(63, bad) = 0
      BY <2>7, <3>1
    <3>3. check_fs(63, bad) = 0 => 1 \in hits
      BY <2>7
    <3>4. QED
      BY <3>2, <3>3
  <2>9. (CHOOSE i \in {1} : \A j \in {1} : i <= j) = 1
    OBVIOUS
  <2> HIDE DEF br, fmt, hits
  <2>10. CASE check_fs(63, bad) = 0
    <3>1. hits = {1}
      BY <2>8, <2>10
    <3>2. at = IF {1} = {} THEN [bsect |-> br[4], fmt |-> fmt(4)]
               ELSE [bsect |-> br[CHOOSE i \in {1} : \A j \in {1} : i <= j], fmt |-> 0]
      BY <2>5, <3>1, Zenon
    <3>3. at = [bsect |-> br[1], fmt |-> 0]
      BY <2>9, <3>2
    <3>4. QED
      BY <1>2, <2>1, <2>3, <2>6, <2>10, <3>3
  <2>11. CASE check_fs(63, bad) # 0
    <3>1. hits = {}
      BY <2>8, <2>11
    <3>2. at = [bsect |-> br[4], fmt |-> fmt(4)]
      BY <2>5, <3>1
    <3>3. QED
      BY <1>2, <2>1, <2>3, <2>6, <2>7, <2>11, <3>2
  <2>12. QED
    BY <2>10, <2>11
<1>3. QED
  BY <1>1, <1>2

LEMMA FoundIs ==
    ASSUME Recorded, NEW bad, NEW f, f = find_volume(bad)
    PROVE  \/ f = Failed("FR_DISK_ERR") \/ f = Failed("FR_NO_FILESYSTEM")
           \/ \E v : IsFound(v) /\ f = Mounted(boots[v], v, bad)
<1> DEFINE at == BootSector(bad)
<1>0. f = CASE at.fmt = 3 -> Failed("FR_DISK_ERR")
            [] at.fmt \in {1, 2} -> Failed("FR_NO_FILESYSTEM")
            [] OTHER -> Mounted(boots[at.bsect], at.bsect, bad)
  BY DEF find_volume
<1>1. at.fmt \in {0, 1, 2, 3} /\ (at.fmt = 0 => IsFound(at.bsect))
  <2>1. CASE check_fs(0, bad) # 1
    <3>1. at = [bsect |-> 0, fmt |-> check_fs(0, bad)]
      BY <2>1, BootSectorIs
    <3>2. QED
      BY <3>1, CheckIs DEF IsFound
  <2>2. CASE check_fs(0, bad) = 1
    <3>1. /\ 0 \in DOMAIN boots /\ boots[0].kind = "partition"
          /\ at = IF check_fs(63, bad) = 0 THEN [bsect |-> 63, fmt |-> 0]
                  ELSE [bsect |-> 0, fmt |-> 2]
      BY <2>2, BootSectorIs
    <3>2. QED
      BY <3>1, CheckIs DEF IsFound
  <2>3. QED
    BY <2>1, <2>2
<1> HIDE DEF at
<1>2. QED
  BY <1>0, <1>1

LEMMA FoundAt ==
    ASSUME Recorded, NEW v \in {0, 63}, IsFound(v)
    PROVE  find_volume({}) = Mounted(boots[v], v, {})
<1> DEFINE at == BootSector({})
<1>1. at.fmt = 0 /\ at.bsect = v
  <2>1. CASE v = 0
    <3>1. check_fs(0, {}) = 0
      BY <2>1, CheckIs DEF IsFound
    <3>2. QED
      BY <2>1, <3>1, BootSectorIs
  <2>2. CASE v = 63
    <3>1. check_fs(0, {}) = 1 /\ check_fs(63, {}) = 0
      BY <2>2, CheckIs DEF IsFound
    <3>2. QED
      BY <2>2, <3>1, BootSectorIs
  <2>3. QED
    BY <2>1, <2>2
<1> HIDE DEF at
<1>2. find_volume({}) = CASE at.fmt = 3 -> Failed("FR_DISK_ERR")
                          [] at.fmt \in {1, 2} -> Failed("FR_NO_FILESYSTEM")
                          [] OTHER -> Mounted(boots[at.bsect], at.bsect, {})
  BY DEF find_volume, at
<1>3. QED
  BY <1>1, <1>2

LEMMA FoundBoot ==
    ASSUME Recorded, NEW v, IsFound(v)
    PROVE  /\ v \in {0, 63} /\ boots[v] \in BootType /\ boots[v].tsect <= MaxSectors
           /\ boots[v] \in Foreign \/ v + boots[v].tsect = drive.count
<1>1. RecordAt(v, boots[v]) /\ boots[v].kind = "boot"
  BY DEF Recorded, IsFound
<1>2. QED
  BY <1>1 DEF RecordAt

LEMMA FoundMounted ==
    ASSUME Recorded, NEW bad, NEW f, f = find_volume(bad)
    PROVE  f.res \in Results /\ (f.res = "FR_OK" => IsMounted(f))
<1>1. CASE f = Failed("FR_DISK_ERR") \/ f = Failed("FR_NO_FILESYSTEM")
  BY <1>1 DEF Failed, Results
<1>2. CASE \E v : IsFound(v) /\ f = Mounted(boots[v], v, bad)
  <2>1. PICK v : IsFound(v) /\ f = Mounted(boots[v], v, bad)
    BY <1>2
  <2>2. f = IF Accepted(boots[v]) THEN Object(boots[v], v, FreeKnown(boots[v], v, bad))
            ELSE Failed("FR_NO_FILESYSTEM")
    BY <2>1, MountedIs
  <2>3. CASE ~Accepted(boots[v])
    BY <2>2, <2>3 DEF Failed, Results
  <2>4. CASE Accepted(boots[v])
    <3>1. f = Object(boots[v], v, FreeKnown(boots[v], v, bad))
      BY <2>2, <2>4
    <3>2. f.res = "FR_OK" /\ f.free_clust = FreeKnown(boots[v], v, bad)
      BY <3>1 DEF Object
    <3>3. FreeKnown(boots[v], v, bad) \in {Unknown, FreeKnown(boots[v], v, {})}
      BY DEF FreeKnown
    <3>4. IsMounted(f)
      BY <2>1, <2>4, <3>1, <3>2, <3>3 DEF IsMounted, IsFound
    <3>5. QED
      BY <3>2, <3>4 DEF Results
  <2>5. QED
    BY <2>3, <2>4
<1>3. QED
  BY <1>1, <1>2, FoundIs

(* What is known of the mounted volume.                                    *)
LEMMA ReadyIs ==
    ASSUME Recorded, Standing, Ready
    PROVE  \E v \in {0, 63} :
              /\ IsFound(v) /\ boots[v] \in BootType /\ boots[v].tsect <= MaxSectors
              /\ boots[v] \in Foreign \/ v + boots[v].tsect = drive.count
              /\ Accepted(boots[v]) /\ fs = Object(boots[v], v, fs.free_clust)
              /\ fs.free_clust \in {Unknown, FreeKnown(boots[v], v, {})}
<1>1. IsMounted(fs)
  BY DEF Standing
<1>2. PICK v : /\ IsFound(v) /\ Accepted(boots[v]) /\ fs = Object(boots[v], v, fs.free_clust)
               /\ fs.free_clust \in {Unknown, FreeKnown(boots[v], v, {})}
  BY <1>1 DEF IsMounted
<1>3. QED
  BY <1>2, FoundBoot

LEMMA VolumeIs ==
    ASSUME Recorded, Standing, Ready
    PROVE  /\ IsVolume(fs) /\ fs.n_fatent \in Nat /\ fs.n_fatent >= 3
           /\ fs.n_fatent - 1 <= EOC
<1>1. PICK v \in {0, 63} :
              /\ IsFound(v) /\ boots[v] \in BootType /\ boots[v].tsect <= MaxSectors
              /\ Accepted(boots[v]) /\ fs = Object(boots[v], v, fs.free_clust)
  BY ReadyIs
<1>2. /\ fs.fs_type \in {12, 16, 32} /\ fs.fatbase \in Nat
      /\ fs.n_fatent \in Nat /\ fs.n_fatent >= 3 /\ fs.n_fatent - 1 <= MaxSectors
  BY <1>1, ObjectIs
<1>3. QED
  BY <1>2 DEF IsVolume, EOC, MaxSectors

-----------------------------------------------------------------------------
(* put_fat.                                                                *)

LEMMA NotPut ==
    ASSUME NEW f, NEW c \in Nat, NEW val, NEW d, IsDrive(d), NEW e, e = [d EXCEPT !.ok = FALSE]
    PROVE  Puts(f, c, val, d, e)
<1>1. /\ e.medium = d.medium /\ e.win = d.win /\ ~e.ok /\ e.ok \in BOOLEAN
      /\ e = [medium |-> e.medium, win |-> e.win, ok |-> e.ok]
  BY DEF IsDrive
<1>2. IsDrive(e) /\ View(e) = View(d)
  BY <1>1 DEF IsDrive, View
<1>3. QED
  BY <1>1, <1>2 DEF Puts

LEMMA PutFatIs ==
    ASSUME NEW f, IsVolume(f), NEW c \in Nat, NEW val \in Nat, val <= EOC, NEW bad,
           IsBytes(medium), IsWin(win), NEW e, e = put_fat(f, c, val, bad)
    PROVE  Puts(f, c, val, [medium |-> medium, win |-> win, ok |-> TRUE], e)
<1> DEFINE d == [medium |-> medium, win |-> win, ok |-> TRUE]
<1>1. IsDrive(d) /\ d.ok
  BY DEF IsDrive
<1>2. e = IF c \notin 2 .. f.n_fatent - 1 THEN [d EXCEPT !.ok = FALSE]
          ELSE IF f.fs_type = 12 THEN Put12(d, f, c, val, bad)
          ELSE PutWhole(d, f, c, val, bad)
  BY DEF put_fat
<1> HIDE DEF d
<1>3. CASE c \notin 2 .. f.n_fatent - 1
  <2>1. e = [d EXCEPT !.ok = FALSE]
    BY <1>2, <1>3
  <2>2. QED
    BY <1>1, <2>1, NotPut DEF d
<1>4. CASE c \in 2 .. f.n_fatent - 1 /\ f.fs_type = 12
  <2>1. e = Put12(d, f, c, val, bad)
    BY <1>2, <1>4
  <2>2. QED
    BY <1>1, <1>4, <2>1, Put12Is DEF d
<1>5. CASE c \in 2 .. f.n_fatent - 1 /\ f.fs_type # 12
  <2>1. e = PutWhole(d, f, c, val, bad)
    BY <1>2, <1>5
  <2>2. QED
    BY <1>1, <1>5, <2>1, PutWholeIs DEF d
<1>6. QED
  BY <1>3, <1>4, <1>5

-----------------------------------------------------------------------------
(* The invariant holds.                                                    *)

LEMMA SameDrive ==
    ASSUME drive' = drive
    PROVE  /\ \A s, r : RecordAt(s, r)' <=> RecordAt(s, r)
           /\ Layouts' = Layouts
<1>1. \A s, r : RecordAt(s, r)' <=> RecordAt(s, r)
  BY DEF RecordAt
<1>2. \A b_vol, n_vol, arg : Layout(b_vol, n_vol, arg)' = Layout(b_vol, n_vol, arg)
  BY DEF Layout, Aligned
<1>3. Layouts' = Layouts
  BY <1>2 DEF Layouts
<1>4. QED
  BY <1>1, <1>3

(* Nothing that LaidOut speaks of changes, except bytes once a put is done. *)
LEMMA StillLaidOut ==
    ASSUME UNCHANGED <<drive, boots, made>>, puts' = 0 => puts = 0 /\ UNCHANGED medium,
           made # None => \E p \in Layouts : LaidOut(p)
    PROVE  made' # None => \E p \in Layouts' : LaidOut(p)'
<1>1. SUFFICES ASSUME made # None PROVE \E p \in Layouts : LaidOut(p)'
  BY SameDrive
<1>2. PICK p \in Layouts : LaidOut(p)
  BY <1>1
<1>3. LaidOut(p)'
  BY <1>2 DEF LaidOut
<1>4. QED
  BY <1>3

LEMMA InvInit == Init => LayoutInv
<1>1. SUFFICES ASSUME Init PROVE LayoutInv
  OBVIOUS
<1>2. Counted
  <2>1. IsBytes(NoBytes) /\ IsWin(NoWindow) /\ ~NoWindow.wflag
    BY NoBytesIs DEF IsWin, NoWindow, NoSector
  <2>2. 0 \in 0 .. MaxFormats /\ 0 \in 0 .. MaxCalls
    BY LayoutAssumption
  <2>3. QED
    BY <1>1, <2>1, <2>2 DEF Init, Counted
<1>3. Recorded
  <2>1. CASE boots = NoBytes
    BY <2>1, NoBytesIs DEF Recorded
  <2>2. CASE \E b \in Foreign : boots = [s \in {0} |-> b]
    <3>1. PICK b \in Foreign : boots = [s \in {0} |-> b]
      BY <2>2
    <3>2. b \in BootSectors
      BY LayoutAssumption
    <3>3. b \in BootType /\ b.tsect <= MaxSectors
      <4>1. MaxWord \in Nat /\ MaxByte \in Nat /\ MaxSectors \in Nat
        BY DEF MaxWord, MaxByte, MaxSectors
      <4>2. QED
        BY <3>2, <4>1 DEF BootSectors, BootType
    <3>4. QED
      BY <3>1, <3>3 DEF Recorded, RecordAt
  <2>3. QED
    BY <1>1, <2>1, <2>2 DEF Init
<1>4. Standing
  BY <1>1 DEF Init, Standing, Ready, Failed, Results
<1>5. QED
  BY <1>1, <1>2, <1>3, <1>4 DEF Init, LayoutInv

LEMMA InvFormat ==
    ASSUME LayoutInv, f_mkfs
    PROVE  LayoutInv'
<1>1. Counted /\ Recorded /\ drive \in Drives /\ drive.count \in Nat
  BY DriveIs DEF LayoutInv, Counted
<1>2. /\ formats' = formats + 1 /\ formats < MaxFormats /\ drive' = drive /\ puts' = puts
      /\ fs' = Failed("FR_NOT_ENABLED") /\ win' = NoWindow
  BY DEF f_mkfs
<1>3. Standing'
  BY <1>2 DEF Standing, Ready, Failed, Results
<1>4. ASSUME IsBytes(medium') PROVE Counted'
  <2>1. IsWin(NoWindow) /\ ~NoWindow.wflag
    BY NoBytesIs DEF IsWin, NoWindow, NoSector
  <2>2. formats + 1 \in 0 .. MaxFormats
    BY <1>1, <1>2, LayoutAssumption DEF Counted
  <2>3. QED
    BY <1>1, <1>2, <1>4, <2>1, <2>2 DEF Counted
<1>5. PICK b_vol \in {0, 63}, arg \in AllocUnits :
        \E p \in {IF drive.count < 128 THEN Aborted
                  ELSE Layout(b_vol, drive.count - b_vol, arg)} :
            \/ /\ p = Aborted
               /\ UNCHANGED <<boots, medium, made>>
            \/ /\ p # Aborted
               /\ \E bad \in {{}} \cup {{s} : s \in Edges(p)} :
                    \E d \in {Formatted(p, bad)} :
                        /\ boots' = d.boots
                        /\ medium' = d.medium
                        /\ made' = IF d.ok THEN Made(p, bad) ELSE None
  BY DEF f_mkfs
<1>9. PICK p : /\ p = IF drive.count < 128 THEN Aborted
                      ELSE Layout(b_vol, drive.count - b_vol, arg)
               /\ \/ /\ p = Aborted
                     /\ UNCHANGED <<boots, medium, made>>
                  \/ /\ p # Aborted
                     /\ \E bad \in {{}} \cup {{s} : s \in Edges(p)} :
                          /\ boots' = Formatted(p, bad).boots
                          /\ medium' = Formatted(p, bad).medium
                          /\ made' = IF Formatted(p, bad).ok THEN Made(p, bad) ELSE None
  BY <1>5
<1>6. CASE p = Aborted
  <2>1. UNCHANGED <<boots, medium, made>>
    BY <1>9, <1>6
  <2>2. made' # None => \E q \in Layouts' : LaidOut(q)'
    BY <1>2, <2>1, StillLaidOut DEF LayoutInv
  <2>3. Recorded'
    BY <1>1, <1>2, <2>1, SameDrive DEF Recorded
  <2>4. Counted'
    BY <1>1, <1>4, <2>1 DEF Counted
  <2>5. QED
    BY <1>3, <2>2, <2>3, <2>4 DEF LayoutInv
<1>7. CASE p # Aborted
  <2>1. p \in Layouts
    <3>1. ~(drive.count < 128) /\ p = Layout(b_vol, drive.count - b_vol, arg)
      BY <1>7, <1>9
    <3>2. QED
      BY <1>7, <3>1 DEF Layouts
  <2>2. PICK bad \in {{}} \cup {{s} : s \in Edges(p)} :
           /\ boots' = Formatted(p, bad).boots
           /\ medium' = Formatted(p, bad).medium
           /\ made' = IF Formatted(p, bad).ok THEN Made(p, bad) ELSE None
    BY <1>7, <1>9
  <2>3. IsLayout(p)
    BY <1>1, <2>1, LayoutsAre
  <2>4. bad \subseteq Int
    <3>1. /\ p.b_vol \in Int /\ p.b_vol + 1 \in Int /\ FatStart(p) \in Int
          /\ DataStart(p) \in Int /\ DataStart(p) - 1 \in Int
          /\ DataStart(p) + RootSectors(p) - 1 \in Int
      BY <2>3, SoundIs
    <3>2. Edges(p) \subseteq Int
      BY <3>1 DEF Edges
    <3>3. QED
      BY <2>2, <3>2
  <2> DEFINE d == Formatted(p, bad)
  <2>5. /\ IsDisk(d) /\ boots' = d.boots /\ medium' = d.medium
        /\ made' = IF d.ok THEN Made(p, bad) ELSE None
        /\ d.ok => OnDisk(p, d, p.b_vol + 1 \notin bad)
    BY <1>1, <2>2, <2>3, <2>4, FormattedIs
  <2> HIDE DEF d
  <2>6. Counted'
    BY <1>4, <2>5 DEF IsDisk
  <2>7. Recorded'
    BY <1>2, <2>5, SameDrive DEF Recorded, IsDisk
  <2>8. ASSUME d.ok PROVE LaidOut(p)'
    <3>1. made' = Made(p, bad) /\ OnDisk(p, d, p.b_vol + 1 \notin bad)
      BY <2>5, <2>8
    <3>2. made'.hasinfo = (p.b_vol + 1 \notin bad) /\ made'.hasinfo \in BOOLEAN
      BY <3>1 DEF Made
    <3>3. made' = [Made(p, {}) EXCEPT !.hasinfo = made'.hasinfo]
      BY <3>1, <3>2 DEF Made
    <3>4. QED
      BY <1>2, <2>5, <3>1, <3>2, <3>3 DEF OnDisk, FreshTable, LaidOut
  <2>9. QED
    BY <1>2, <1>3, <2>1, <2>5, <2>6, <2>7, <2>8, SameDrive DEF LayoutInv
<1>8. QED
  BY <1>6, <1>7

LEMMA InvMount ==
    ASSUME LayoutInv, Mount
    PROVE  LayoutInv'
<1>1. /\ UNCHANGED <<drive, boots, medium, made, formats, puts>> /\ win' = NoWindow
      /\ \E bad : fs' = find_volume(bad)
  BY DEF Mount
<1>2. IsWin(NoWindow) /\ ~NoWindow.wflag
  BY NoBytesIs DEF IsWin, NoWindow, NoSector
<1>3. Counted'
  BY <1>1, <1>2 DEF LayoutInv, Counted
<1>4. Recorded'
  BY <1>1, SameDrive DEF LayoutInv, Recorded
<1>5. Standing'
  <2>1. fs'.res \in Results /\ (fs'.res = "FR_OK" => IsMounted(fs'))
    BY <1>1, FoundMounted DEF LayoutInv
  <2>2. fs'.res = "FR_OK" => IsMounted(fs)'
    BY <1>1, <2>1 DEF IsMounted, IsFound, FreeKnown
  <2>3. QED
    BY <2>1, <2>2 DEF Standing, Ready
<1>6. made' # None => \E p \in Layouts' : LaidOut(p)'
  BY <1>1, StillLaidOut DEF LayoutInv
<1>7. QED
  BY <1>3, <1>4, <1>5, <1>6 DEF LayoutInv

(* One put of the value val into the entry c of the mounted volume.        *)
PutOf(c, val) ==
    /\ last' = [c |-> c, val |-> val, ok |-> last'.ok]
    /\ Puts(fs, c, val, [medium |-> medium, win |-> win, ok |-> TRUE],
            [medium |-> medium', win |-> win', ok |-> last'.ok])

LEMMA PutStep ==
    ASSUME LayoutInv, Put
    PROVE  \E c \in Nat, val \in Nat : PutOf(c, val)
<1>1. Ready /\ Recorded /\ Standing /\ IsBytes(medium) /\ IsWin(win)
  BY DEF Put, LayoutInv, Counted
<1>2. /\ IsVolume(fs) /\ fs.n_fatent \in Nat /\ fs.n_fatent >= 3
      /\ fs.n_fatent - 1 <= EOC
  BY <1>1, VolumeIs
<1>3. PICK c \in Watched, val \in Values : \E bad :
         /\ medium' = put_fat(fs, c, val, bad).medium
         /\ win' = put_fat(fs, c, val, bad).win
         /\ last' = [c |-> c, val |-> val, ok |-> put_fat(fs, c, val, bad).ok]
  BY DEF Put
<1>12. PICK bad : /\ medium' = put_fat(fs, c, val, bad).medium
                  /\ win' = put_fat(fs, c, val, bad).win
                  /\ last' = [c |-> c, val |-> val, ok |-> put_fat(fs, c, val, bad).ok]
  BY <1>3
<1>4. c \in Nat
  BY <1>2, LayoutAssumption DEF Watched
<1>5. val \in Nat /\ val <= EOC
  BY <1>2 DEF Values, EOC
<1> DEFINE e == put_fat(fs, c, val, bad)
<1>6. Puts(fs, c, val, [medium |-> medium, win |-> win, ok |-> TRUE], e)
  BY <1>1, <1>2, <1>4, <1>5, PutFatIs
<1>7. medium' = e.medium /\ win' = e.win /\ last' = [c |-> c, val |-> val, ok |-> e.ok]
  BY <1>12
<1> HIDE DEF e
<1>8. e = [medium |-> e.medium, win |-> e.win, ok |-> e.ok]
  BY <1>6 DEF Puts, IsDrive
<1>9. e = [medium |-> medium', win |-> win', ok |-> last'.ok]
  BY <1>7, <1>8
<1>10. PutOf(c, val)
  BY <1>6, <1>7, <1>9 DEF PutOf
<1>11. QED
  BY <1>4, <1>5, <1>10

LEMMA InvPut ==
    ASSUME LayoutInv, Put
    PROVE  LayoutInv'
<1>1. /\ UNCHANGED <<drive, boots, fs, made, formats>> /\ Ready
      /\ formats + puts < MaxCalls /\ puts' = puts + 1
  BY DEF Put
<1>2. Counted /\ Recorded /\ Standing
  BY DEF LayoutInv
<1>3. puts' \in 0 .. MaxCalls /\ puts' # 0
  <2>1. formats \in Nat /\ puts \in Nat /\ MaxCalls \in Nat
    BY <1>2, LayoutAssumption DEF Counted
  <2>2. QED
    BY <1>1, <2>1
<1>4. IsBytes(medium') /\ IsWin(win')
  BY PutStep DEF PutOf, Puts, IsDrive
<1>5. Counted'
  BY <1>1, <1>2, <1>3, <1>4 DEF Counted
<1>6. Recorded'
  BY <1>1, <1>2, SameDrive DEF Recorded
<1>7. Standing'
  BY <1>1, <1>2 DEF Standing, Ready, IsMounted, IsFound, FreeKnown
<1>8. made' # None => \E p \in Layouts' : LaidOut(p)'
  BY <1>1, <1>3, StillLaidOut DEF LayoutInv
<1>9. QED
  BY <1>5, <1>6, <1>7, <1>8 DEF LayoutInv

(* What sync_window does to the window.                                    *)
SyncOf ==
    LET d == [medium |-> medium, win |-> win, ok |-> TRUE]
    IN  \E e : /\ IsDrive(e) /\ medium' = e.medium /\ win' = e.win
               /\ \A a : SeenAt(e, a) = SeenAt(d, a)
               /\ e.medium \in {medium, Over(medium, win.edits)}

LEMMA SyncStep ==
    ASSUME LayoutInv, Sync
    PROVE  SyncOf
<1>1. PICK bad : LET d == sync_window([medium |-> medium, win |-> win, ok |-> TRUE], bad)
                 IN  medium' = d.medium /\ win' = d.win
  BY DEF Sync
<1> DEFINE d == [medium |-> medium, win |-> win, ok |-> TRUE]
           e == sync_window(d, bad)
<1>2. IsDrive(d) /\ d.medium = medium /\ d.win = win
  BY DEF IsDrive, LayoutInv, Counted
<1>3. medium' = e.medium /\ win' = e.win
  BY <1>1
<1> HIDE DEF d
<1>4. /\ IsDrive(e) /\ \A a : SeenAt(e, a) = SeenAt(d, a)
      /\ e.medium \in {d.medium, Over(d.medium, d.win.edits)}
  BY <1>2, SyncIs
<1> HIDE DEF e
<1>5. QED
  BY <1>2, <1>3, <1>4 DEF SyncOf, d

LEMMA InvSync ==
    ASSUME LayoutInv, Sync
    PROVE  LayoutInv'
<1>1. UNCHANGED <<drive, boots, fs, made, formats, puts>> /\ Ready /\ win.wflag
  BY DEF Sync
<1>2. Counted /\ Recorded /\ Standing
  BY DEF LayoutInv
<1>3. puts # 0
  BY <1>1, <1>2 DEF Counted
<1>4. IsBytes(medium') /\ IsWin(win')
  BY SyncStep DEF SyncOf, IsDrive
<1>5. Counted'
  BY <1>1, <1>2, <1>3, <1>4 DEF Counted
<1>6. Recorded'
  BY <1>1, <1>2, SameDrive DEF Recorded
<1>7. Standing'
  BY <1>1, <1>2 DEF Standing, Ready, IsMounted, IsFound, FreeKnown
<1>8. made' # None => \E p \in Layouts' : LaidOut(p)'
  BY <1>1, <1>3, StillLaidOut DEF LayoutInv
<1>9. QED
  BY <1>5, <1>6, <1>7, <1>8 DEF LayoutInv

LEMMA InvPower ==
    ASSUME LayoutInv, PowerLoss
    PROVE  LayoutInv'
<1>1. /\ UNCHANGED <<drive, boots, medium, made, formats, puts>> /\ win' = NoWindow
      /\ fs' = Failed("FR_NOT_ENABLED")
  BY DEF PowerLoss
<1>2. IsWin(NoWindow) /\ ~NoWindow.wflag
  BY NoBytesIs DEF IsWin, NoWindow, NoSector
<1>3. Counted'
  BY <1>1, <1>2 DEF LayoutInv, Counted
<1>4. Recorded'
  BY <1>1, SameDrive DEF LayoutInv, Recorded
<1>5. Standing'
  BY <1>1 DEF Standing, Ready, Failed, Results
<1>6. made' # None => \E p \in Layouts' : LaidOut(p)'
  BY <1>1, StillLaidOut DEF LayoutInv
<1>7. QED
  BY <1>3, <1>4, <1>5, <1>6 DEF LayoutInv

LEMMA InvStutter ==
    ASSUME LayoutInv, UNCHANGED vars
    PROVE  LayoutInv'
<1>1. UNCHANGED <<drive, boots, medium, fs, win, made, formats, puts>>
  BY DEF vars
<1>2. Counted' /\ Recorded'
  BY <1>1, SameDrive DEF LayoutInv, Counted, Recorded
<1>3. Standing'
  BY <1>1 DEF LayoutInv, Standing, Ready, IsMounted, IsFound, FreeKnown
<1>4. made' # None => \E p \in Layouts' : LaidOut(p)'
  BY <1>1, StillLaidOut DEF LayoutInv
<1>5. QED
  BY <1>2, <1>3, <1>4 DEF LayoutInv

(* The records on the drive, what is mounted and what f_mkfs claims to     *)
(* have laid out agree in every reachable state: f_mkfs (ff.c:4047),       *)
(* find_volume (ff.c:2158), put_fat (ff.c:830) and the window.             *)
THEOREM LayoutInvariant == Spec => []LayoutInv
<1>1. LayoutInv /\ [Next]_vars => LayoutInv'
  BY InvFormat, InvMount, InvPut, InvSync, InvPower, InvStutter DEF Next
<1>2. QED
  BY InvInit, <1>1, PTL DEF Spec

-----------------------------------------------------------------------------
(* The entries, step by step.                                              *)

(* What EntriesApart and EntriesWhole say of the entry c.                  *)
Apart(c) ==
    LET old == get_fat(fs, Visible, c)
        new == get_fat(fs, Visible', c)
        put == puts' # puts /\ c = last'.c
    IN  IF put /\ last'.ok THEN new = Kept(fs, last'.val)
        ELSE \/ new = old
             \/ put /\ Split(fs, c)

Whole(c) ==
    LET old == get_fat(fs, medium, c)
        new == get_fat(fs, medium', c)
    IN  new # old /\ formats' = formats =>
           \/ Split(fs, c)
           \/ new = get_fat(fs, Visible, c)

LEMMA PutKeeps ==
    ASSUME LayoutInv, Put, NEW c \in Nat
    PROVE  Apart(c) /\ Whole(c)
<1> DEFINE d == [medium |-> medium, win |-> win, ok |-> TRUE]
           e == [medium |-> medium', win |-> win', ok |-> last'.ok]
<1>1. PICK x \in Nat, val \in Nat :
         last' = [c |-> x, val |-> val, ok |-> last'.ok] /\ Puts(fs, x, val, d, e)
  BY PutStep DEF PutOf
<1>2. /\ View(d) = Visible /\ d.medium = medium
      /\ View(e) = Visible' /\ e.medium = medium' /\ e.ok = last'.ok
  BY DEF View, Visible
<1>3. last'.c = x /\ last'.val = val
  BY <1>1
<1> HIDE DEF d, e
<1>4. puts' # puts
  BY DEF Put, LayoutInv, Counted
<1>5. /\ c # x => get_fat(fs, Visible', c) = get_fat(fs, Visible, c)
      /\ c = x /\ last'.ok => get_fat(fs, Visible', c) = Kept(fs, val)
      /\ c = x /\ ~last'.ok => \/ get_fat(fs, Visible', c) = get_fat(fs, Visible, c)
                               \/ Split(fs, c)
  BY <1>1, <1>2 DEF Puts
<1>6. \/ get_fat(fs, medium', c) = get_fat(fs, medium, c)
      \/ get_fat(fs, medium', c) = get_fat(fs, Visible, c)
      \/ Split(fs, c)
  BY <1>1, <1>2 DEF Puts
<1>7. Apart(c)
  BY <1>3, <1>4, <1>5 DEF Apart
<1>8. QED
  BY <1>6, <1>7 DEF Whole

LEMMA SyncKeeps ==
    ASSUME LayoutInv, Sync, NEW c \in Nat
    PROVE  Apart(c) /\ Whole(c)
<1> DEFINE d == [medium |-> medium, win |-> win, ok |-> TRUE]
<1>1. PICK e : /\ IsDrive(e) /\ medium' = e.medium /\ win' = e.win
               /\ \A a : SeenAt(e, a) = SeenAt(d, a)
               /\ e.medium \in {medium, Over(medium, win.edits)}
  BY SyncStep DEF SyncOf
<1>2. View(e) = Visible' /\ View(d) = Visible
  BY <1>1 DEF View, Visible
<1>3. IsVolume(fs)
  BY VolumeIs DEF Sync, LayoutInv
<1> HIDE DEF d
<1>4. \A a \in Place(fs, c) : Byte(Visible', a) = Byte(Visible, a)
  BY <1>1, <1>2 DEF SeenAt
<1>5. \A m, n : (\A a \in Place(fs, c) : Byte(n, a) = Byte(m, a))
                   => get_fat(fs, n, c) = get_fat(fs, m, c)
  BY <1>3, SameEntry
<1>6. get_fat(fs, Visible', c) = get_fat(fs, Visible, c)
  BY <1>4, <1>5
<1>7. puts' = puts
  BY DEF Sync
<1>8. medium' = medium \/ medium' = Visible
  BY <1>1 DEF Visible
<1>9. Apart(c)
  BY <1>6, <1>7 DEF Apart
<1>10. Whole(c)
  BY <1>8 DEF Whole
<1>11. QED
  BY <1>9, <1>10

LEMMA SeenIs ==
    ASSUME LayoutInv, Ready
    PROVE  Seen(fs) \subseteq Nat
<1>1. fs.n_fatent \in Nat
  BY VolumeIs DEF LayoutInv
<1>2. \A c \in 2 .. fs.n_fatent - 1 : c \in Nat
  BY <1>1
<1>3. QED
  BY <1>2 DEF Seen

LEMMA ApartStep ==
    ASSUME LayoutInv, [Next]_vars, Ready, fs' = fs, NEW c \in Nat
    PROVE  Apart(c) \/ UNCHANGED vars
<1>1. ~f_mkfs /\ ~Mount /\ ~PowerLoss
  BY DEF f_mkfs, Mount, PowerLoss, Ready, Failed
<1>2. QED
  BY <1>1, PutKeeps, SyncKeeps DEF Next

LEMMA WholeStep ==
    ASSUME LayoutInv, [Next]_vars, Ready, NEW c \in Nat
    PROVE  Whole(c)
<1>1. CASE f_mkfs
  <2>1. formats' # formats
    BY <1>1 DEF f_mkfs, LayoutInv, Counted
  <2>2. QED
    BY <2>1 DEF Whole
<1>2. CASE PowerLoss \/ UNCHANGED vars
  <2>1. medium' = medium
    BY <1>2 DEF PowerLoss, vars
  <2>2. QED
    BY <2>1 DEF Whole
<1>3. ~Mount
  BY DEF Mount
<1>4. QED
  BY <1>1, <1>2, <1>3, PutKeeps, SyncKeeps DEF Next

(* put_fat (ff.c:830) stores its value where get_fat (ff.c:775) finds it   *)
(* and changes no other entry of the table, whatever the sub-type, the     *)
(* entry, the value and the sectors the drive refuses; writing the window  *)
(* changes none.  A put that fails changes nothing, unless it is of a      *)
(* FAT12 entry that lies across two sectors.                               *)
THEOREM EntriesStayApart == Spec => EntriesApart
<1>1. LayoutInv /\ [Next]_vars =>
         [(Ready /\ fs' = fs) => \A c \in Nat : Apart(c)]_vars
  BY ApartStep
<1>2. LayoutInv /\ [(Ready /\ fs' = fs) => \A c \in Nat : Apart(c)]_vars =>
         [(Ready /\ fs' = fs) =>
            \A c \in Seen(fs) :
               LET old == get_fat(fs, Visible, c)
                   new == get_fat(fs, Visible', c)
                   put == puts' # puts /\ c = last'.c
               IN  IF put /\ last'.ok THEN new = Kept(fs, last'.val)
                   ELSE \/ new = old
                        \/ put /\ Cardinality(SectorsOf(fs, c)) = 2]_vars
  BY SeenIs DEF Apart, Split
<1>3. QED
  BY <1>1, <1>2, LayoutInvariant, PTL DEF Spec, EntriesApart

(* The same for every entry that the object could have, not only those the *)
(* runs look at.                                                           *)
THEOREM EveryEntryApart ==
    Spec => [][(Ready /\ fs' = fs) => \A c \in Nat : Apart(c)]_vars
<1>1. LayoutInv /\ [Next]_vars =>
         [(Ready /\ fs' = fs) => \A c \in Nat : Apart(c)]_vars
  BY ApartStep
<1>2. QED
  BY <1>1, LayoutInvariant, PTL DEF Spec

(* An entry on the medium is changed whole, by a step or by a sequence of  *)
(* them that a failure or a power loss cuts short, unless it is a FAT12    *)
(* entry that lies across two sectors (put_fat, ff.c:853).                 *)
THEOREM EntriesStayWhole == Spec => EntriesWhole
<1>1. LayoutInv /\ [Next]_vars =>
         [\A c \in IF Ready THEN Seen(fs) ELSE {} : Whole(c)]_vars
  BY SeenIs, WholeStep
<1>2. [\A c \in IF Ready THEN Seen(fs) ELSE {} : Whole(c)]_vars =>
         [\A c \in IF Ready THEN Seen(fs) ELSE {} :
            LET old == get_fat(fs, medium, c)
                new == get_fat(fs, medium', c)
            IN  new # old /\ formats' = formats =>
                   \/ Cardinality(SectorsOf(fs, c)) = 2
                   \/ new = get_fat(fs, Visible, c)]_vars
  BY DEF Whole, Split
<1>3. QED
  BY <1>1, <1>2, LayoutInvariant, PTL DEF Spec, EntriesWhole

-----------------------------------------------------------------------------
(* A mounted volume, and one that f_mkfs laid out.                         *)

LEMMA Typed ==
    ASSUME LayoutInv
    PROVE  TypeOK
<1>1. Counted /\ Recorded /\ Standing
  BY DEF LayoutInv
<1>2. \A s \in DOMAIN boots : boots[s].kind \in {"boot", "partition", "fsinfo"}
  BY <1>1 DEF Recorded, RecordAt, BootType
<1>3. /\ \A a \in DOMAIN medium : medium[a] \in 0 .. 255
      /\ \A a \in DOMAIN win.edits :
            win.edits[a] \in 0 .. 255 /\ win.wflag /\ a \div SS = win.sect
  BY <1>1 DEF Counted, IsWin, IsBytes
<1>4. Ready => fs.fs_type \in {12, 16, 32}
  BY <1>1, VolumeIs DEF IsVolume
<1>5. made = None \/ made.kind = "layout"
  <2>1. CASE \E p \in Layouts : LaidOut(p)
    <3>1. PICK p : made = [Made(p, {}) EXCEPT !.hasinfo = made.hasinfo]
      BY <2>1 DEF LaidOut
    <3>2. QED
      BY <3>1 DEF Made
  <2>2. QED
    BY <2>1 DEF LayoutInv
<1>6. QED
  BY <1>1, <1>2, <1>3, <1>4, <1>5 DEF TypeOK, Counted, Standing

LEMMA Inside ==
    ASSUME LayoutInv
    PROVE  VolumeInside
<1>1. SUFFICES ASSUME Ready
      PROVE  /\ fs.volbase < fs.fatbase
             /\ \A c \in {2, fs.n_fatent - 1} :
                   Place(fs, c) \subseteq
                       fs.fatbase * SS .. (fs.fatbase + fs.fsize) * SS - 1
             /\ fs.fatbase + fs.fsize <= fs.database
             /\ fs.fs_type # 32 => fs.fatbase + fs.fsize <= fs.dirbase
                                   /\ fs.dirbase < fs.database
             /\ boots[fs.volbase] \notin Foreign =>
                   clust2sect(fs, fs.n_fatent - 1) + fs.csize <= drive.count
  BY Typed DEF VolumeInside
<1>2. PICK v \in {0, 63} :
              /\ IsFound(v) /\ boots[v] \in BootType /\ boots[v].tsect <= MaxSectors
              /\ boots[v] \in Foreign \/ v + boots[v].tsect = drive.count
              /\ Accepted(boots[v]) /\ fs = Object(boots[v], v, fs.free_clust)
  BY <1>1, ReadyIs DEF LayoutInv
<1>3. v \in Nat /\ boots[v].tsect \in Nat
  BY <1>2 DEF BootType
<1>4. /\ fs.fs_type \in {12, 16, 32} /\ fs.csize \in Units
      /\ fs.n_fatent \in Nat /\ fs.n_fatent >= 3
      /\ fs.fatbase \in Nat /\ fs.fatbase > v /\ fs.fsize \in Nat
      /\ fs.database \in Nat /\ fs.volbase = v
      /\ FatBytes(fs.fs_type, fs.n_fatent) <= fs.fsize * 512
      /\ fs.fatbase + fs.fsize <= fs.database
      /\ fs.database + (fs.n_fatent - 2) * fs.csize <= v + boots[v].tsect
      /\ fs.fs_type # 32 => fs.fatbase + fs.fsize <= fs.dirbase /\ fs.dirbase < fs.database
  BY <1>2, <1>3, ObjectIs
<1>5. ASSUME NEW c \in {2, fs.n_fatent - 1}, NEW a \in Place(fs, c)
      PROVE  a \in fs.fatbase * SS .. (fs.fatbase + fs.fsize) * SS - 1
  <2>1. c \in Nat /\ c < fs.n_fatent
    BY <1>4
  <2>2. /\ a \in Nat /\ a >= fs.fatbase * 512
        /\ a < fs.fatbase * 512 + FatBytes(fs.fs_type, fs.n_fatent)
    BY <1>4, <1>5, <2>1, PlaceInside
  <2>3. PICK base \in Nat, size \in Nat :
           /\ base = fs.fatbase * 512 /\ size = fs.fsize * 512
           /\ (fs.fatbase + fs.fsize) * 512 = base + size
    <3>1. fs.fatbase \in Nat /\ fs.fsize \in Nat
      BY <1>4
    <3>2. (fs.fatbase + fs.fsize) * 512 = fs.fatbase * 512 + fs.fsize * 512
      BY <3>1
    <3>3. fs.fatbase * 512 \in Nat /\ fs.fsize * 512 \in Nat
      BY <3>1
    <3>4. QED
      BY <3>2, <3>3
  <2>4. FatBytes(fs.fs_type, fs.n_fatent) \in Nat
    BY <1>4 DEF FatBytes
  <2>5. a >= base /\ a < base + size
    BY <1>4, <2>2, <2>3, <2>4
  <2>6. QED
    BY <2>2, <2>3, <2>5 DEF SS
<1>6. ASSUME boots[fs.volbase] \notin Foreign
      PROVE  clust2sect(fs, fs.n_fatent - 1) + fs.csize <= drive.count
  <2>1. v + boots[v].tsect = drive.count
    BY <1>2, <1>4, <1>6
  <2>2. fs.n_fatent - 1 - 2 \in 0 .. fs.n_fatent - 3
    BY <1>4
  <2>3. clust2sect(fs, fs.n_fatent - 1) = (fs.n_fatent - 1 - 2) * fs.csize + fs.database
    BY <2>2 DEF clust2sect
  <2>4. PICK n \in Nat : n = fs.n_fatent - 3
    BY <1>4
  <2>5. fs.n_fatent - 1 - 2 = n /\ fs.n_fatent - 2 = n + 1
    BY <1>4, <2>4
  <2>6. (n + 1) * fs.csize = n * fs.csize + fs.csize /\ n * fs.csize \in Nat /\ fs.csize \in Nat
    <3>1. fs.csize \in Units
      BY <1>4
    <3>2. fs.csize \in Nat
      BY <3>1 DEF Units
    <3>3. PICK k \in Nat : k = fs.csize
      BY <3>2
    <3>4. (n + 1) * k = n * k + k /\ n * k \in Nat
      OBVIOUS
    <3>5. QED
      BY <3>3, <3>4
  <2>7. PICK data \in Nat : data = n * fs.csize
    BY <2>6
  <2>8. QED
    BY <1>3, <1>4, <2>1, <2>3, <2>5, <2>6, <2>7
<1>7. QED
  BY <1>4, <1>5, <1>6

(* A mounted volume stays on its drive, for every drive, erase block and   *)
(* allocation unit, after an f_mkfs (ff.c:4047) that was cut short too:    *)
(* the areas that find_volume (ff.c:2158) computes do not overlap, the     *)
(* last entry ends inside the table, and the last cluster on the drive.    *)
THEOREM VolumeStaysInside == Spec => []VolumeInside
  BY LayoutInvariant, Inside, PTL

(* What find_volume makes of the boot record of a layout whose areas fit.  *)
LEMMA BootRecordIs ==
    ASSUME NEW p, IsLayout(p), Room(p) >= 0, NEW b, b = BootRecord(p)
    PROVE  /\ Accepted(b) <=> p.n_clst # 0
           /\ Sys(b) = p.n_rsv + p.n_fat + p.n_dir /\ Count(b) = p.n_clst
           /\ SubType(Count(b)) = p.fmt
           /\ b.kind = "boot" /\ b.csize = p.au /\ b.nrsv = p.n_rsv /\ b.fatsz = p.n_fat
           /\ b.n_fats = 1 /\ b.root = (IF p.fmt = 32 THEN 2 ELSE 0)
           /\ b.fsinfo = (p.fmt = 32)
<1>1. /\ p.fmt \in {12, 16, 32} /\ p.au \in Units /\ p.n_vol \in Nat
      /\ p.n_rsv \in Nat /\ p.n_fat \in Nat /\ p.n_dir \in Nat /\ p.n_clst \in Nat
      /\ p.n_rsv > 0
  BY SoundIs
<1>2. /\ p.n_rsv < 65536 /\ (p.fmt # 32 => p.n_fat < 65536)
      /\ p.n_dir = (IF p.fmt = 32 THEN 0 ELSE 32)
      /\ p.n_clst = Room(p) \div p.au /\ SubType(p.n_clst) = p.fmt
      /\ FatBytes(p.fmt, p.n_clst + 2) <= p.n_fat * 512
  BY DEF IsLayout, Sound
<1>3. p.n_rsv % 65536 = p.n_rsv /\ (p.fmt # 32 => p.n_fat % 65536 = p.n_fat)
  BY <1>1, <1>2
<1>4. /\ b.kind = "boot" /\ b.ssize = SS /\ b.csize = p.au /\ b.nrsv = p.n_rsv
      /\ b.n_fats = 1 /\ b.n_rootdir = (IF p.fmt = 32 THEN 0 ELSE 512)
      /\ b.tsect = p.n_vol /\ b.fatsz = p.n_fat
      /\ b.root = (IF p.fmt = 32 THEN 2 ELSE 0) /\ b.fsinfo = (p.fmt = 32)
  BY <1>3 DEF BootRecord, N_FATS, N_ROOTDIR
<1>5. b.n_rootdir \div 16 = p.n_dir /\ b.n_rootdir % 16 = 0
  BY <1>2, <1>4
<1>6. Sys(b) = p.n_rsv + p.n_fat + p.n_dir
  BY <1>1, <1>4, <1>5 DEF Sys, SS, SZ_DIRE
<1>7. b.tsect - Sys(b) = Room(p) /\ Sys(b) <= b.tsect
  BY <1>1, <1>4, <1>6 DEF Room
<1>8. Count(b) = p.n_clst
  BY <1>2, <1>4, <1>7 DEF Count
<1>9. ~(b.fatsz < (FatBytes(SubType(Count(b)), Count(b) + 2) + SS - 1) \div SS)
  <2>1. PICK bytes \in Nat : bytes = FatBytes(p.fmt, p.n_clst + 2)
    BY <1>1 DEF FatBytes
  <2>2. bytes <= p.n_fat * 512
    BY <1>2, <2>1
  <2>3. ~(p.n_fat < (bytes + 512 - 1) \div 512)
    BY <1>1, <2>2
  <2>4. QED
    BY <1>2, <1>4, <1>8, <2>1, <2>3 DEF SS
<1>10. /\ b.n_rootdir % (SS \div SZ_DIRE) = 0 /\ b.nrsv # 0 /\ ~(b.tsect < Sys(b))
       /\ (SubType(Count(b)) = 32) = (b.n_rootdir = 0)
  <2>1. SS \div SZ_DIRE = 16
    BY DEF SS, SZ_DIRE
  <2>2. b.n_rootdir % (SS \div SZ_DIRE) = 0
    BY <1>5, <2>1
  <2>3. Sys(b) \in Nat
    BY <1>1, <1>6
  <2>4. QED
    BY <1>1, <1>2, <1>4, <1>7, <1>8, <2>2, <2>3
<1>11. Accepted(b) <=> p.n_clst # 0
  BY <1>1, <1>4, <1>8, <1>9, <1>10 DEF Accepted
<1>12. QED
  BY <1>2, <1>4, <1>6, <1>8, <1>11

LEMMA LaidOutIs ==
    ASSUME LayoutInv, NEW p \in Layouts, LaidOut(p)
    PROVE  /\ IsLayout(p) /\ Room(p) >= 0 /\ IsFound(p.b_vol)
           /\ boots[p.b_vol] = BootRecord(p)
           /\ made.fmt = p.fmt /\ made.au = p.au /\ made.b_vol = p.b_vol
           /\ made.n_clst = p.n_clst
           /\ made.cleared = FatStart(p) .. DataStart(p) + RootSectors(p) - 1
<1>1. IsLayout(p)
  BY LayoutsAre DEF LayoutInv, Counted
<1>2. /\ p.b_vol \in Nat /\ p.n_vol \in Nat /\ p.n_rsv \in Nat /\ p.n_fat \in Nat
      /\ p.n_dir \in Nat /\ p.au \in Nat
      /\ DataStart(p) = FatStart(p) + p.n_fat /\ FatStart(p) = p.b_vol + p.n_rsv
      /\ RootSectors(p) = (IF p.fmt = 32 THEN p.au ELSE 32)
  BY <1>1, SoundIs
<1>3. /\ p.n_dir = (IF p.fmt = 32 THEN 0 ELSE 32) /\ p.b_vol + p.n_vol = drive.count
      /\ DataStart(p) + RootSectors(p) <= drive.count
  BY <1>1 DEF IsLayout, Sound, LaidOut
<1>4. Room(p) >= 0
  BY <1>2, <1>3 DEF Room
<1>5. IsFound(p.b_vol)
  BY DEF LaidOut, IsFound, BootRecord, Partition
<1>6. /\ made.fmt = p.fmt /\ made.au = p.au /\ made.b_vol = p.b_vol
      /\ made.n_clst = p.n_clst
      /\ made.cleared = FatStart(p) .. DataStart(p) + RootSectors(p) - 1
  <2>1. made = [Made(p, {}) EXCEPT !.hasinfo = made.hasinfo]
    BY DEF LaidOut
  <2>2. QED
    BY <2>1 DEF Made
<1>7. QED
  BY <1>1, <1>4, <1>5, <1>6 DEF LaidOut

LEMMA MountsAsMade ==
    ASSUME LayoutInv
    PROVE  FormatMounts
<1> DEFINE f == find_volume({})
           root == IF made.fmt = 32
                   THEN clust2sect(f, f.dirbase) .. clust2sect(f, f.dirbase) + f.csize - 1
                   ELSE f.dirbase .. f.database - 1
<1>1. SUFFICES ASSUME made # None
      PROVE  IF made.n_clst = 0 THEN f.res = "FR_NO_FILESYSTEM"
             ELSE /\ f.res = "FR_OK"
                  /\ f.fs_type = made.fmt /\ f.n_fatent = made.n_clst + 2
                  /\ f.csize = made.au /\ f.volbase = made.b_vol
                  /\ made.cleared = f.fatbase .. f.fatbase + f.fsize * N_FATS - 1
                                    \cup root
  BY DEF FormatMounts
<1>2. PICK p \in Layouts : LaidOut(p)
  BY <1>1 DEF LayoutInv
<1>3. /\ IsLayout(p) /\ Room(p) >= 0 /\ IsFound(p.b_vol)
      /\ boots[p.b_vol] = BootRecord(p)
      /\ made.fmt = p.fmt /\ made.au = p.au /\ made.b_vol = p.b_vol
      /\ made.n_clst = p.n_clst
      /\ made.cleared = FatStart(p) .. DataStart(p) + RootSectors(p) - 1
  BY <1>2, LaidOutIs
<1> DEFINE b == BootRecord(p)
<1>4. p.b_vol \in {0, 63}
  BY <1>3 DEF IsLayout
<1>5. f = IF Accepted(b) THEN Object(b, p.b_vol, FreeKnown(b, p.b_vol, {}))
          ELSE Failed("FR_NO_FILESYSTEM")
  BY <1>3, <1>4, FoundAt, MountedIs DEF LayoutInv
<1>6. /\ Accepted(b) <=> p.n_clst # 0
      /\ Sys(b) = p.n_rsv + p.n_fat + p.n_dir /\ Count(b) = p.n_clst
      /\ SubType(Count(b)) = p.fmt
      /\ b.csize = p.au /\ b.nrsv = p.n_rsv /\ b.fatsz = p.n_fat
      /\ b.n_fats = 1 /\ b.root = (IF p.fmt = 32 THEN 2 ELSE 0)
  BY <1>3, BootRecordIs
<1> HIDE DEF b, f
<1>7. CASE p.n_clst = 0
  BY <1>3, <1>5, <1>6, <1>7 DEF Failed
<1>8. CASE p.n_clst # 0
  <2>1. /\ p.b_vol \in Nat /\ p.n_rsv \in Nat /\ p.n_fat \in Nat
        /\ p.n_dir \in Nat /\ p.au \in Nat /\ p.n_clst \in Nat /\ p.au > 0 /\ p.n_fat > 0
        /\ DataStart(p) = FatStart(p) + p.n_fat /\ FatStart(p) = p.b_vol + p.n_rsv
        /\ RootSectors(p) = (IF p.fmt = 32 THEN p.au ELSE 32)
        /\ FatStart(p) \in Nat /\ DataStart(p) \in Nat
    BY <1>3, SoundIs
  <2>2. p.n_dir = IF p.fmt = 32 THEN 0 ELSE 32
    BY <1>3 DEF IsLayout, Sound
  <2>3. f = Object(b, p.b_vol, FreeKnown(b, p.b_vol, {}))
    BY <1>5, <1>6, <1>8
  <2>4. /\ f.res = "FR_OK" /\ f.fs_type = p.fmt /\ f.n_fatent = p.n_clst + 2
        /\ f.csize = p.au /\ f.volbase = p.b_vol /\ f.fatbase = FatStart(p)
        /\ f.fsize = p.n_fat /\ f.database = p.b_vol + (p.n_rsv + p.n_fat + p.n_dir)
        /\ f.dirbase = IF p.fmt = 32 THEN 2 ELSE p.b_vol + p.n_rsv + p.n_fat * 1
    BY <1>6, <2>1, <2>3 DEF Object
  <2>5. /\ f.database = DataStart(p) + p.n_dir
        /\ p.fmt # 32 => f.dirbase = DataStart(p)
    BY <2>1, <2>4
  <2>6. root = DataStart(p) .. DataStart(p) + RootSectors(p) - 1
    <3>1. CASE p.fmt = 32
      <4>1. 2 - 2 \in 0 .. f.n_fatent - 3
        BY <1>8, <2>1, <2>4
      <4>2. clust2sect(f, 2) = (2 - 2) * f.csize + f.database
        BY <4>1 DEF clust2sect
      <4>3. clust2sect(f, 2) = DataStart(p)
        BY <2>1, <2>2, <2>4, <2>5, <3>1, <4>2
      <4>4. QED
        BY <1>3, <2>1, <2>4, <3>1, <4>3
    <3>2. CASE p.fmt # 32
      BY <1>3, <2>1, <2>2, <2>5, <3>2
    <3>3. QED
      BY <3>1, <3>2
  <2> HIDE DEF root
  <2>7. f.fatbase .. f.fatbase + f.fsize * N_FATS - 1 = FatStart(p) .. DataStart(p) - 1
    BY <2>1, <2>4 DEF N_FATS
  <2>8. FatStart(p) .. DataStart(p) + RootSectors(p) - 1
          = (FatStart(p) .. DataStart(p) - 1)
              \cup (DataStart(p) .. DataStart(p) + RootSectors(p) - 1)
    BY <2>1
  <2>9. QED
    BY <1>3, <1>8, <2>4, <2>6, <2>7, <2>8
<1>9. QED
  BY <1>7, <1>8

(* A volume whose f_mkfs (ff.c:4047) returned FR_OK is mounted by          *)
(* find_volume (ff.c:2158) as it was laid out, with the sub-type, the      *)
(* clusters and the areas that f_mkfs chose and cleared, for every drive,  *)
(* erase block and allocation unit.                                        *)
THEOREM FormatsMount == Spec => []FormatMounts
  BY LayoutInvariant, MountsAsMade, PTL

(* Of the entries of a fresh FAT32 table that are clusters', one is not    *)
(* zero: that of the root directory.                                       *)
LEMMA FreshEntries ==
    ASSUME NEW p, IsLayout(p), Room(p) >= 0, p.fmt = 32, NEW f, f.fs_type = 32,
           f.fatbase = FatStart(p), f.n_fatent = p.n_clst + 2,
           \A a \in DOMAIN Reserved(p) : a \in DOMAIN medium /\ medium[a] = Reserved(p)[a],
           \A a \in DOMAIN medium :
              a \div SS \in FatStart(p) .. DataStart(p) - 1 => a \in DOMAIN Reserved(p)
    PROVE  /\ get_fat(f, medium, 2) # 0
           /\ \A c \in 3 .. f.n_fatent - 1 : get_fat(f, medium, c) = 0
<1>1. /\ FatStart(p) \in Nat /\ DataStart(p) = FatStart(p) + p.n_fat /\ p.n_fat \in Nat
      /\ p.n_clst \in Nat /\ FatStart(p) = p.b_vol + p.n_rsv
  BY SoundIs
<1>2. PICK at \in Nat : at = FatStart(p) * 512
  BY <1>1
<1>3. /\ DOMAIN Reserved(p) = at .. at + 11
      /\ \A a \in at .. at + 11 :
            Reserved(p)[a] = IF a = at THEN IF p.b_vol = 0 THEN 240 ELSE 248
                             ELSE IF a = at + 11 THEN 15 ELSE 255
  <2>1. (p.b_vol + p.n_rsv) * SS = at
    BY <1>1, <1>2 DEF SS
  <2>2. Reserved(p) = [a \in at .. at + 12 - 1 |->
                          IF a = at THEN IF p.b_vol = 0 THEN 240 ELSE 248
                          ELSE IF a = at + 11 THEN 15 ELSE 255]
    BY <2>1 DEF Reserved
  <2>3. at + 12 - 1 = at + 11
    OBVIOUS
  <2>4. QED
    BY <2>2, <2>3
<1>4. IsVolume(f)
  BY <1>1 DEF IsVolume
<1>5. \A c \in Nat : /\ EntryAt(f, c) = at + 4 * c
                     /\ Place(f, c) = {at + 4 * c, at + 4 * c + 1, at + 4 * c + 2, at + 4 * c + 3}
  <2>1. TAKE c \in Nat
  <2>2. /\ EntryAt(f, c) = f.fatbase * 512 + 4 * c
        /\ Place(f, c) = {EntryAt(f, c), EntryAt(f, c) + 1,
                          EntryAt(f, c) + 2, EntryAt(f, c) + 3}
    BY <1>1, PlaceIs
  <2>3. EntryAt(f, c) = at + 4 * c
    BY <1>2, <2>2
  <2>4. QED
    BY <2>2, <2>3
<1>6. \A c \in Nat : get_fat(f, medium, c) =
         Byte(medium, at + 4 * c) + 256 * Byte(medium, at + 4 * c + 1)
         + 65536 * Byte(medium, at + 4 * c + 2)
         + 16777216 * (Byte(medium, at + 4 * c + 3) % 16)
  <2>1. TAKE c \in Nat
  <2>2. PICK here \in Nat : here = at + 4 * c /\ here = EntryAt(f, c)
    BY <1>5
  <2>3. get_fat(f, medium, c) = Byte(medium, here) + 256 * Byte(medium, here + 1)
                                + 65536 * Byte(medium, here + 2)
                                + 16777216 * (Byte(medium, here + 3) % 16)
    BY <1>4, <2>2, GetIs
  <2>4. QED
    BY <2>2, <2>3
<1>7. get_fat(f, medium, 2) # 0
  <2>1. /\ Byte(medium, at + 8) = 255 /\ Byte(medium, at + 9) = 255
        /\ Byte(medium, at + 10) = 255 /\ Byte(medium, at + 11) = 15
    <3>1. /\ at + 8 \in at .. at + 11 /\ at + 9 \in at .. at + 11
          /\ at + 10 \in at .. at + 11 /\ at + 11 \in at .. at + 11
      OBVIOUS
    <3>2. /\ Reserved(p)[at + 8] = 255 /\ Reserved(p)[at + 9] = 255
          /\ Reserved(p)[at + 10] = 255 /\ Reserved(p)[at + 11] = 15
      BY <1>3, <3>1
    <3>3. QED
      BY <1>3, <3>1, <3>2 DEF Byte
  <2>2. /\ at + 4 * 2 = at + 8 /\ at + 4 * 2 + 1 = at + 9
        /\ at + 4 * 2 + 2 = at + 10 /\ at + 4 * 2 + 3 = at + 11
    OBVIOUS
  <2>3. get_fat(f, medium, 2) = 255 + 256 * 255 + 65536 * 255 + 16777216 * (15 % 16)
    BY <1>6, <2>1, <2>2
  <2>4. QED
    BY <2>3
<1>8. ASSUME NEW c \in 3 .. f.n_fatent - 1
      PROVE  get_fat(f, medium, c) = 0
  <2>1. FatBytes(32, p.n_clst + 2) <= p.n_fat * 512
    BY DEF IsLayout, Sound
  <2>2. (p.n_clst + 2) * 4 <= p.n_fat * 512
    BY <2>1 DEF FatBytes
  <2>3. c \in Nat /\ c >= 3 /\ c < p.n_clst + 2
    BY <1>1, <1>8
  <2>4. ASSUME NEW a \in {at + 4 * c, at + 4 * c + 1, at + 4 * c + 2, at + 4 * c + 3}
        PROVE  Byte(medium, a) = 0
    <3>1. a \in Nat /\ a >= at + 12 /\ a < at + p.n_fat * 512
      BY <1>1, <2>2, <2>3
    <3>2. a \notin DOMAIN Reserved(p)
      BY <1>3, <3>1
    <3>3. a \div 512 >= FatStart(p) /\ a \div 512 < FatStart(p) + p.n_fat /\ a \div 512 \in Nat
      BY <1>1, <1>2, <3>1
    <3>4. a \div SS \in FatStart(p) .. DataStart(p) - 1
      BY <1>1, <3>3 DEF SS
    <3>5. QED
      BY <3>2, <3>4 DEF Byte
  <2>5. QED
    BY <1>6, <2>3, <2>4
<1>9. QED
  BY <1>7, <1>8

LEMMA CountsFree ==
    ASSUME LayoutInv
    PROVE  FreshCount
<1> DEFINE written == {(a - fs.fatbase * SS) \div 4 : a \in DOMAIN medium}
           used == {c \in written \cap 2 .. fs.n_fatent - 1 : get_fat(fs, medium, c) # 0}
<1>1. SUFFICES ASSUME Ready, fs.free_clust # Unknown, made # None, puts = 0, made.hasinfo
      PROVE  fs.free_clust = fs.n_fatent - 2 - Cardinality(used)
  BY DEF FreshCount
<1>2. PICK p \in Layouts : LaidOut(p)
  BY <1>1 DEF LayoutInv
<1>3. IsLayout(p) /\ Room(p) >= 0 /\ IsFound(p.b_vol) /\ boots[p.b_vol] = BootRecord(p)
  BY <1>2, LaidOutIs
<1>4. PICK v \in {0, 63} :
              /\ IsFound(v) /\ Accepted(boots[v])
              /\ fs = Object(boots[v], v, fs.free_clust)
              /\ fs.free_clust \in {Unknown, FreeKnown(boots[v], v, {})}
  BY <1>1, ReadyIs DEF LayoutInv
<1>5. v = p.b_vol
  <2>1. p.b_vol \in {0, 63}
    BY <1>3 DEF IsLayout
  <2>2. QED
    BY <1>3, <1>4, <2>1 DEF IsFound
<1> DEFINE b == BootRecord(p)
<1>6. /\ p.n_clst # 0 /\ SubType(Count(b)) = p.fmt /\ Count(b) = p.n_clst
      /\ b.nrsv = p.n_rsv
  BY <1>3, <1>4, <1>5, BootRecordIs
<1>7. fs.free_clust = FreeKnown(b, v, {}) /\ FreeKnown(b, v, {}) # Unknown
  BY <1>1, <1>3, <1>4, <1>5
<1> HIDE DEF b
<1>8. p.fmt = 32 /\ fs.free_clust = boots[v + 1].free
  BY <1>6, <1>7 DEF FreeKnown
<1>9. boots[v + 1] = FsInfo(p)
  BY <1>1, <1>2, <1>5, <1>8 DEF LaidOut
<1>10. fs.free_clust = p.n_clst - 1
  BY <1>8, <1>9 DEF FsInfo, FreeClusters
<1>11. /\ p.n_clst \in Nat /\ p.b_vol \in Nat /\ p.n_rsv \in Nat
       /\ FatStart(p) = p.b_vol + p.n_rsv /\ FatStart(p) \in Nat
  BY <1>3, SoundIs
<1>12. /\ fs.fs_type = 32 /\ fs.fatbase = FatStart(p) /\ fs.n_fatent = p.n_clst + 2
  <2>1. fs = Object(b, v, fs.free_clust)
    BY <1>3, <1>4, <1>5 DEF b
  <2>2. QED
    BY <1>5, <1>6, <1>8, <1>11, <2>1 DEF Object
<1>13. /\ \A a \in DOMAIN Reserved(p) : a \in DOMAIN medium /\ medium[a] = Reserved(p)[a]
       /\ \A a \in DOMAIN medium :
             a \div SS \in FatStart(p) .. DataStart(p) - 1 => a \in DOMAIN Reserved(p)
  BY <1>1, <1>2 DEF LaidOut
<1>14. /\ get_fat(fs, medium, 2) # 0
       /\ \A c \in 3 .. fs.n_fatent - 1 : get_fat(fs, medium, c) = 0
  BY <1>3, <1>8, <1>12, <1>13, FreshEntries
<1>15. 2 \in written
  <2>1. PICK at \in Nat : at = FatStart(p) * 512
    BY <1>11
  <2>2. Reserved(p) = [a \in (p.b_vol + p.n_rsv) * SS .. (p.b_vol + p.n_rsv) * SS + 12 - 1 |->
                          IF a = (p.b_vol + p.n_rsv) * SS
                          THEN IF p.b_vol = 0 THEN 240 ELSE 248
                          ELSE IF a = (p.b_vol + p.n_rsv) * SS + 11 THEN 15 ELSE 255]
    BY <1>8 DEF Reserved
  <2>3. (p.b_vol + p.n_rsv) * SS = at
    BY <1>11, <2>1 DEF SS
  <2>4. at + 8 \in DOMAIN Reserved(p)
    BY <2>2, <2>3
  <2>5. at + 8 \in DOMAIN medium
    BY <1>13, <2>4
  <2>6. fs.fatbase * SS = at
    BY <1>11, <1>12, <2>3
  <2>7. PICK a \in DOMAIN medium : a = at + 8
    BY <2>5
  <2>8. (a - fs.fatbase * SS) \div 4 \in written
    OBVIOUS
  <2> HIDE DEF written
  <2>9. (a - at) \div 4 = 2
    BY <2>7
  <2>10. QED
    BY <2>6, <2>8, <2>9
<1>16. used = {2}
  <2> HIDE DEF written
  <2>1. 2 \in used
    BY <1>6, <1>11, <1>12, <1>14, <1>15
  <2>2. \A c \in used : c = 2
    <3>1. TAKE c \in used
    <3>2. c \in 2 .. fs.n_fatent - 1 /\ get_fat(fs, medium, c) # 0
      OBVIOUS
    <3>3. c # 2 => c \in 3 .. fs.n_fatent - 1
      BY <1>11, <1>12, <3>2
    <3>4. QED
      BY <1>14, <3>2, <3>3
  <2>3. QED
    BY <2>1, <2>2
<1>17. Cardinality({2}) = 1
  <2>1. IsFiniteSet({}) /\ Cardinality({}) = 0 /\ {} \cup {2} = {2}
    BY FS_EmptySet
  <2>2. QED
    BY <2>1, FS_AddElement
<1> HIDE DEF used
<1>18. QED
  BY <1>10, <1>11, <1>12, <1>16, <1>17

(* The number of free clusters that f_mkfs (ff.c:4274) writes to FSINFO is *)
(* that of the entries which are zero on the medium, whatever the size of  *)
(* the volume, when find_volume (ff.c:2300) loads it before any put.       *)
THEOREM FreshCountExact == Spec => []FreshCount
  BY LayoutInvariant, CountsFree, PTL

===============================================================================
