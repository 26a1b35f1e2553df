--------------------------- MODULE FileDataProofs ---------------------------
(***************************************************************************)
(* Theorems about FileData, for every size of sectors, clusters, volumes   *)
(* and requests and every combination of faults: data go to the file's own *)
(* sectors, and where memory is word aligned the sector buffer holds the   *)
(* sector it names and the object implements a file of bytes.              *)
(***************************************************************************)
EXTENDS FileData, FiniteSetTheorems, SequenceTheorems, TLAPS

-----------------------------------------------------------------------------
(* The invariant.  Byte i of the file is in sector number SectorOf(i) of   *)
(* it, which is sector Sec(ch, i) of the data area if ch is its chain.     *)

SectorOf(i) == i \div SS
ClusterOf(i) == i \div bcs + 1
Sec(ch, i) == ch[ClusterOf(i)] * csize + (SectorOf(i) % csize)

Distinct(ch) == \A i, j \in 1 .. Len(ch) : ch[i] = ch[j] => i = j

Chained == /\ chain \in Seq(Clusters) /\ Distinct(chain)
           /\ fil.fsize <= Len(chain) * bcs

(* The current cluster is that of the last byte before the offset, and     *)
(* inside a sector the buffer has that sector.                             *)
Standing == ~fil.err =>
    /\ fil.fptr > 0 => /\ ClusterOf(fil.fptr - 1) \in 1 .. Len(chain)
                       /\ fil.clust = chain[ClusterOf(fil.fptr - 1)]
    /\ ~AtBoundary => fil.dsect = Sec(chain, fil.fptr)

(* The sector of a dirty buffer is the file's, unless f_truncate failed.   *)
Owned == fil.dirty =>
    fil.dsect # 0 /\ (TruncateFailed \/ InChain(fil.dsect \div csize))

Requested ==
    /\ req.op \in {"read", "write"} => ~fil.err /\ fil.fptr + req.left <= MaxSize
    /\ req.op = "failed" => fil.err
    /\ req.op # "none" => req.n > 0 /\ req.left <= req.n
    /\ req.op = "read" => fil.fptr + req.left <= fil.fsize
    /\ req.op \in {"write", "failed"} => fil.fptr - Rest \in 0 .. fil.fsize
    /\ req.op = "none" /\ ~fil.err => fil.fptr <= fil.fsize
    /\ req.op # "read" => rbuff = <<>>

DataInv == TypeOK /\ Chained /\ Standing /\ Owned /\ Requested

(* Where memory is word aligned, a clean buffer is its sector.             *)
Coherent ==
    fil.dsect # 0 /\ ~fil.dirty /\ ~fil.err => fil.buf = medium[fil.dsect]

(* A dirty buffer that f_sync does not know of has changed only what the   *)
(* running or failed f_write is about.                                     *)
Saved == fil.dirty /\ ~fil.written =>
    /\ req.op \in {"write", "failed"}
    /\ \A i \in 0 .. fil.fsize - 1 :
          Sec(chain, i) = fil.dsect /\ i + 1 \notin Doubt =>
              fil.buf[i % SS] = medium[fil.dsect][i % SS]

WordAligned == Aligned \subseteq {TRUE}

RequestAligned == req.op \in {"read", "write"} => req.aligned

FileInv == DataInv /\ RequestAligned /\ Coherent /\ Saved

-----------------------------------------------------------------------------
(* Arithmetic of sectors and clusters.                                     *)

LEMMA Sizes == /\ SS \in Nat \ {0} /\ csize \in Nat \ {0} /\ bcs \in Nat \ {0}
               /\ NumClusters \in Nat \ {0} /\ MaxSize \in Nat
               /\ Lengths \subseteq Nat \ {0} /\ Aligned \subseteq BOOLEAN
BY DataAssumption DEF DataAssumption, bcs

LEMMA Division ==
    ASSUME NEW a \in Nat, NEW d \in Nat \ {0}
    PROVE  /\ a \div d \in Nat /\ (a % d) \in 0 .. d - 1
           /\ a = d * (a \div d) + (a % d)
<1>1. (a % d) = a - d * (a \div d)
  OBVIOUS
<1>2. (a % d) \in 0 .. d - 1
  OBVIOUS
<1>3. a \div d \in Nat
  OBVIOUS
<1>4. DEFINE e == a \div d
      f == (a % d)
<1>5. e \in Int /\ f \in Int /\ f = a - d * e
  BY <1>1, <1>2, <1>3
<1> HIDE DEF e, f
<1>6. a = d * e + f
  BY <1>5
<1>7. a = d * (a \div d) + (a % d)
  BY <1>6, Zenon DEF e, f
<1>8. QED
  BY <1>2, <1>3, <1>7, Zenon

LEMMA Quotient ==
    ASSUME NEW d \in Nat \ {0}, NEW q \in Int, NEW r \in 0 .. d - 1
    PROVE  (d * q + r) \div d = q /\ (d * q + r) % d = r
OBVIOUS

LEMMA Nested ==
    ASSUME NEW a \in Nat, NEW d \in Nat \ {0}, NEW e \in Nat \ {0}
    PROVE  (a \div d) \div e = a \div (d * e)
OBVIOUS

LEMMA Places ==
    ASSUME NEW i \in Nat
    PROVE  /\ SectorOf(i) \in Nat /\ (i % SS) \in 0 .. SS - 1
           /\ i = SS * SectorOf(i) + (i % SS)
           /\ ClusterOf(i) \in Nat \ {0}
           /\ ClusterOf(i) = SectorOf(i) \div csize + 1
           /\ (SectorOf(i) % csize) \in 0 .. csize - 1
           /\ SectorOf(i) = csize * (ClusterOf(i) - 1) + (SectorOf(i) % csize)
<1>1. /\ SectorOf(i) \in Nat /\ (i % SS) \in 0 .. SS - 1
      /\ i = SS * SectorOf(i) + (i % SS)
  BY Sizes, Division, Zenon DEF SectorOf
<1>2. ClusterOf(i) = SectorOf(i) \div csize + 1
  <2>1. (i \div SS) \div csize = i \div (SS * csize)
    BY Sizes, Nested, Zenon
  <2>2. QED
    BY <2>1, Zenon DEF SectorOf, ClusterOf, bcs
<1>3. /\ SectorOf(i) \div csize \in Nat
      /\ (SectorOf(i) % csize) \in 0 .. csize - 1
      /\ SectorOf(i) = csize * (SectorOf(i) \div csize) + (SectorOf(i) % csize)
  BY <1>1, Sizes, Division, Zenon
<1>4. QED
  BY <1>1, <1>2, <1>3

(* Bytes in the chain.                                                     *)
LEMMA Inside ==
    ASSUME NEW i \in Nat, NEW n \in Nat
    PROVE  i < n * bcs <=> ClusterOf(i) <= n
<1>1. /\ i \div bcs \in Nat /\ (i % bcs) \in 0 .. bcs - 1
      /\ i = bcs * (i \div bcs) + (i % bcs)
  BY Sizes, Division, Zenon
<1> DEFINE q == i \div bcs
           r == (i % bcs)
<1>2. q \in Nat /\ r \in 0 .. bcs - 1 /\ i = bcs * q + r
  BY <1>1, Zenon
<1> HIDE DEF q, r
<1>3. ASSUME q < n PROVE i < n * bcs
  <2>1. bcs * (q + 1) <= bcs * n
    BY <1>2, <1>3, Sizes
  <2>2. QED
    BY <1>2, <2>1, Sizes
<1>4. ASSUME q >= n PROVE ~(i < n * bcs)
  <2>1. bcs * n <= bcs * q
    BY <1>2, <1>4, Sizes
  <2>2. QED
    BY <1>2, <2>1, Sizes
<1>5. QED
  BY <1>2, <1>3, <1>4 DEF ClusterOf, q

(* k sectors further in the same cluster.                                  *)
LEMMA SameCluster ==
    ASSUME NEW i \in Nat, NEW j \in Nat, NEW k \in Nat,
           SectorOf(j) = SectorOf(i) + k, (SectorOf(i) % csize) + k < csize
    PROVE  /\ ClusterOf(j) = ClusterOf(i)
           /\ (SectorOf(j) % csize) = (SectorOf(i) % csize) + k
<1> DEFINE q == ClusterOf(i) - 1
           r == (SectorOf(i) % csize) + k
<1>1. /\ ClusterOf(i) \in Nat \ {0} /\ (SectorOf(i) % csize) \in 0 .. csize - 1
      /\ SectorOf(i) = csize * q + (SectorOf(i) % csize)
  BY Places, Zenon
<1>a. q \in Int
  BY <1>1
<1>b. r \in 0 .. csize - 1
  BY <1>1, Sizes
<1>c. SectorOf(j) = csize * q + r
  BY <1>1, <1>a, <1>b, Sizes
<1> HIDE DEF q, r
<1>2. SectorOf(j) \div csize = q /\ (SectorOf(j) % csize) = r
  BY <1>a, <1>b, <1>c, Quotient, Sizes
<1>3. QED
  BY <1>2, Places DEF q, r

(* j bytes further, from a boundary.                                       *)
LEMMA FromBoundary ==
    ASSUME NEW i \in Nat, NEW j \in Nat, (i % SS) = 0
    PROVE  /\ SectorOf(i + j) = SectorOf(i) + j \div SS
           /\ ((i + j) % SS) = (j % SS)
<1>1. i = SS * SectorOf(i) /\ SectorOf(i) \in Nat
  <2>1. /\ (i % SS) = 0 /\ i = SS * SectorOf(i) + (i % SS)
        /\ SectorOf(i) \in Nat
    BY Places, Zenon
  <2>2. i = SS * SectorOf(i) + 0
    BY <2>1, Zenon
  <2>3. QED
    BY <2>1, <2>2, Sizes
<1> DEFINE q == SectorOf(i)
           p == j \div SS
           r == (j % SS)
<1>2. p \in Nat /\ r \in 0 .. SS - 1 /\ j = SS * p + r
  BY Division, Sizes, Zenon
<1>3. q \in Nat /\ i = SS * q
  BY <1>1
<1> HIDE DEF p, q, r
<1>4. i + j = SS * (q + p) + r
  BY <1>2, <1>3, Sizes
<1>5. (i + j) \div SS = q + p /\ ((i + j) % SS) = r
  BY <1>2, <1>3, <1>4, Quotient, Sizes
<1>6. QED
  BY <1>5 DEF p, q, r, SectorOf

(* j bytes further in the same sector.                                     *)
LEMMA SameSector ==
    ASSUME NEW i \in Nat, NEW j \in Nat, (i % SS) + j < SS
    PROVE  SectorOf(i + j) = SectorOf(i) /\ ((i + j) % SS) = (i % SS) + j
<1> DEFINE q == SectorOf(i)
           r == (i % SS)
<1>1. q \in Nat /\ r \in 0 .. SS - 1 /\ i = SS * q + r /\ r + j < SS
  BY Places, Zenon
<1> HIDE DEF q, r
<1>2. i + j = SS * q + (r + j) /\ r + j \in 0 .. SS - 1
  BY <1>1, Sizes
<1>3. (i + j) \div SS = q /\ ((i + j) % SS) = r + j
  BY <1>1, <1>2, Quotient, Sizes
<1>4. QED
  BY <1>3 DEF q, r, SectorOf

-----------------------------------------------------------------------------
(* Chains.                                                                 *)

LEMMA ChainLength ==
    ASSUME NEW ch \in Seq(Clusters), Distinct(ch)
    PROVE  Len(ch) <= NumClusters
<1>1. ch \in [1 .. Len(ch) -> Clusters] /\ Len(ch) \in Nat
  OBVIOUS
<1>2. ch \in Injection(1 .. Len(ch), Clusters)
  BY <1>1 DEF Distinct, Injection, IsInjective
<1>3. IsFiniteSet(Clusters) /\ Cardinality(Clusters) = NumClusters
  BY FS_Interval, Sizes DEF Clusters
<1>4. Cardinality(1 .. Len(ch)) = Len(ch)
  <2>1. Cardinality(1 .. Len(ch)) =
            IF 1 > Len(ch) THEN 0 ELSE Len(ch) - 1 + 1
    BY FS_Interval, <1>1
  <2>2. QED
    BY <1>1, <2>1
<1>5. Cardinality(1 .. Len(ch)) <= Cardinality(Clusters)
  BY <1>2, <1>3, FS_Injection
<1>6. QED
  BY <1>3, <1>4, <1>5

(* A sector of a cluster.                                                  *)
LEMMA InCluster ==
    ASSUME NEW c \in Clusters, NEW r \in 0 .. csize - 1
    PROVE  /\ c * csize + r \in Sectors
           /\ (c * csize + r) \div csize = c
           /\ (c * csize + r) % csize = r
<1>1. c \in 1 .. NumClusters
  BY DEF Clusters
<1>2. c * csize = csize * c /\ csize * c \in Int
  BY <1>1, Sizes
<1>3. (csize * c + r) \div csize = c /\ (csize * c + r) % csize = r
  BY <1>1, Sizes, Quotient
<1>4. csize * c >= csize /\ csize * c <= csize * NumClusters
  BY <1>1, Sizes
<1>5. csize * (NumClusters + 1) = csize * NumClusters + csize
  BY Sizes
<1>6. c * csize + r \in Sectors
  BY <1>1, <1>2, <1>4, <1>5, Sizes DEF Sectors
<1>7. QED
  BY <1>2, <1>3, <1>6, Zenon

LEMMA SecFacts ==
    ASSUME NEW ch \in Seq(Clusters), NEW i \in Nat, ClusterOf(i) <= Len(ch)
    PROVE  /\ Sec(ch, i) \in Sectors
           /\ ch[ClusterOf(i)] \in Clusters
           /\ Sec(ch, i) \div csize = ch[ClusterOf(i)]
           /\ Sec(ch, i) % csize = SectorOf(i) % csize
           /\ ClusterOf(i) \in 1 .. Len(ch)
<1>1. /\ ClusterOf(i) \in Nat \ {0}
      /\ (SectorOf(i) % csize) \in 0 .. csize - 1
  BY Places, Zenon
<1>2. ClusterOf(i) \in 1 .. Len(ch) /\ ch[ClusterOf(i)] \in Clusters
  BY <1>1
<1>3. QED
  BY <1>1, <1>2, InCluster, Zenon DEF Sec

(* Sectors of a file with different numbers are different sectors.         *)
LEMMA SameSec ==
    ASSUME NEW ch \in Seq(Clusters), Distinct(ch),
           NEW i \in Nat, ClusterOf(i) <= Len(ch),
           NEW j \in Nat, ClusterOf(j) <= Len(ch)
    PROVE  Sec(ch, i) = Sec(ch, j) <=> SectorOf(i) = SectorOf(j)
<1>1. ASSUME SectorOf(i) = SectorOf(j) PROVE Sec(ch, i) = Sec(ch, j)
  <2>1. ClusterOf(i) = ClusterOf(j)
    BY <1>1, Places, Zenon
  <2>2. QED
    BY <1>1, <2>1, Zenon DEF Sec
<1>2. ASSUME Sec(ch, i) = Sec(ch, j) PROVE SectorOf(i) = SectorOf(j)
  <2>1. /\ ch[ClusterOf(i)] = ch[ClusterOf(j)]
        /\ ClusterOf(i) \in 1 .. Len(ch) /\ ClusterOf(j) \in 1 .. Len(ch)
    BY <1>2, SecFacts, Zenon
  <2>2. ClusterOf(i) = ClusterOf(j)
    BY <2>1, Zenon DEF Distinct
  <2>3. SectorOf(i) % csize = SectorOf(j) % csize
    BY <1>2, SecFacts, Zenon
  <2>4. /\ SectorOf(i) = csize * (ClusterOf(i) - 1) + (SectorOf(i) % csize)
        /\ SectorOf(j) = csize * (ClusterOf(j) - 1) + (SectorOf(j) % csize)
    BY Places, Zenon
  <2>5. QED
    BY <2>2, <2>3, <2>4, Zenon
<1>3. QED
  BY <1>1, <1>2

LEMMA SecAhead ==
    ASSUME NEW ch, NEW i \in Nat, NEW j \in Nat, NEW k \in Nat,
           SectorOf(j) = SectorOf(i) + k, (SectorOf(i) % csize) + k < csize,
           ch[ClusterOf(i)] \in Int
    PROVE  Sec(ch, j) = Sec(ch, i) + k
<1>1. /\ ClusterOf(j) = ClusterOf(i)
      /\ (SectorOf(j) % csize) = (SectorOf(i) % csize) + k
  BY SameCluster, Zenon
<1>2. Sec(ch, j) = ch[ClusterOf(i)] * csize + ((SectorOf(i) % csize) + k)
  BY <1>1, Zenon DEF Sec
<1>3. (SectorOf(i) % csize) \in Int
  BY Places, Sizes
<1>4. QED
  BY <1>2, <1>3, Sizes DEF Sec

LEMMA OneLess ==
    ASSUME NEW a \in Nat, NEW d \in Nat \ {0}
    PROVE  (a - 1) \div d = IF a % d # 0 THEN a \div d ELSE a \div d - 1
OBVIOUS

(* The byte before: in the same sector, or at the end of the one before.   *)
LEMMA ByteBefore ==
    ASSUME NEW i \in Nat \ {0}
    PROVE  IF i % SS # 0
           THEN SectorOf(i - 1) = SectorOf(i) /\ ClusterOf(i - 1) = ClusterOf(i)
           ELSE /\ SectorOf(i - 1) = SectorOf(i) - 1
                /\ SectorOf(i) % csize # 0 => ClusterOf(i - 1) = ClusterOf(i)
                /\ SectorOf(i) % csize = 0 => ClusterOf(i - 1) = ClusterOf(i) - 1
<1> DEFINE q == SectorOf(i) \div csize
           p == (SectorOf(i) - 1) \div csize
<1>1. i \in Nat /\ i - 1 \in Nat
  OBVIOUS
<1>2. SectorOf(i - 1) = IF i % SS # 0 THEN SectorOf(i) ELSE SectorOf(i) - 1
  BY <1>1, OneLess, Sizes, Zenon DEF SectorOf
<1>3. /\ SectorOf(i) \in Nat
      /\ ClusterOf(i) = q + 1 /\ ClusterOf(i - 1) = SectorOf(i - 1) \div csize + 1
  BY <1>1, Places, Zenon
<1>4. q \in Nat
  BY <1>3, Division, Sizes, Zenon
<1>5. p = IF SectorOf(i) % csize # 0 THEN q ELSE q - 1
  BY <1>3, OneLess, Sizes, Zenon
<1>6. CASE i % SS # 0
  BY <1>2, <1>3, <1>6, Zenon
<1>7. CASE i % SS = 0
  <2>1. SectorOf(i - 1) = SectorOf(i) - 1 /\ ClusterOf(i - 1) = p + 1
    BY <1>2, <1>3, <1>7, Zenon
  <2> HIDE DEF p, q
  <2>2. /\ SectorOf(i) % csize # 0 => ClusterOf(i - 1) = ClusterOf(i)
        /\ SectorOf(i) % csize = 0 => ClusterOf(i - 1) = ClusterOf(i) - 1
    BY <1>3, <1>4, <1>5, <2>1
  <2>3. QED
    BY <1>7, <2>1, <2>2, Zenon
<1>8. QED
  BY <1>6, <1>7, Zenon

LEMMA Types ==
    ASSUME DataInv
    PROVE  /\ fil.fptr \in Nat /\ fil.fptr <= MaxSize
           /\ fil.fsize \in Nat /\ fil.fsize <= MaxSize
           /\ fil.clust \in Clusters \cup {0} /\ fil.dsect \in Sectors \cup {0}
           /\ fil.buf \in SectorBytes
           /\ fil.dirty \in BOOLEAN /\ fil.written \in BOOLEAN /\ fil.err \in BOOLEAN
           /\ req.left \in Nat /\ req.n \in Nat /\ req.first \in Bytes
           /\ req.op \in {"none", "read", "write", "failed"}
           /\ chain \in Seq(Clusters) /\ Len(chain) \in Nat
           /\ medium \in [Sectors -> SectorBytes]
           /\ 0 \notin Sectors /\ Clusters \subseteq Nat \ {0}
<1>1. TypeOK /\ chain \in Seq(Clusters)
  BY DEF DataInv, Chained
<1>2. 0 \notin Sectors /\ Clusters \subseteq Nat \ {0}
  BY Sizes DEF Sectors, Clusters
<1>3. /\ fil.fptr \in Nat /\ fil.fptr <= MaxSize
      /\ fil.fsize \in Nat /\ fil.fsize <= MaxSize
  BY <1>1, Sizes DEF TypeOK
<1>4. /\ fil.clust \in Clusters \cup {0} /\ fil.dsect \in Sectors \cup {0}
      /\ fil.buf \in SectorBytes
      /\ fil.dirty \in BOOLEAN /\ fil.written \in BOOLEAN /\ fil.err \in BOOLEAN
  BY <1>1 DEF TypeOK
<1>5. /\ req.left \in Nat /\ req.n \in Nat /\ req.first \in Bytes
      /\ req.op \in {"none", "read", "write", "failed"}
      /\ medium \in [Sectors -> SectorBytes]
  <2>1. req \in [op : {"none", "read", "write", "failed"}, first : Bytes,
                n : Lengths \cup {0}, left : Nat, aligned : BOOLEAN]
    BY <1>1 DEF TypeOK
  <2>2. req.n \in Lengths \cup {0}
    BY <2>1
  <2>3. medium \in [Sectors -> SectorBytes]
    BY <1>1 DEF TypeOK
  <2>4. req.n \in Nat
    <3>1. Lengths \cup {0} \subseteq Nat
      BY Sizes
    <3>2. QED
      BY <2>2, <3>1
  <2>5. QED
    BY <2>1, <2>3, <2>4
<1>6. Len(chain) \in Nat
  BY <1>1
<1>7. QED
  BY <1>1, <1>2, <1>3, <1>4, <1>5, <1>6

(* The cluster that get_fat finds for a boundary is the one the offset     *)
(* names, or the chain ends just before it.                                *)
LEMMA FollowedIs ==
    ASSUME DataInv, ~fil.err, AtBoundary
    PROVE  /\ ClusterOf(fil.fptr) \in 1 .. Len(chain) + 1
           /\ Followed = IF ClusterOf(fil.fptr) <= Len(chain)
                         THEN {chain[ClusterOf(fil.fptr)]} ELSE {}
           /\ csect = SectorOf(fil.fptr) % csize
<1> DEFINE p == ClusterOf(fil.fptr)
<1>1. csect = SectorOf(fil.fptr) % csize
  BY DEF csect, SectorOf
<1>2. fil.fptr % SS = 0 /\ fil.fptr \in Nat
  BY Types DEF AtBoundary, offset
<1>3. p \in Nat \ {0}
  BY <1>2, Places, Zenon
<1>4. CASE fil.fptr = 0
  <2>1. SectorOf(fil.fptr) = 0 /\ SectorOf(fil.fptr) % csize = 0 /\ p = 1
    BY <1>4, Sizes DEF SectorOf, ClusterOf
  <2>2. Followed = {chain[i] : i \in DOMAIN chain \cap {1}}
    BY <1>1, <1>4, <2>1 DEF Followed
  <2>3. DOMAIN chain = 1 .. Len(chain) /\ Len(chain) \in Nat
    BY Types
  <2>4. QED
    BY <1>1, <2>1, <2>2, <2>3
<1>5. CASE fil.fptr # 0
  <2> DEFINE l == ClusterOf(fil.fptr - 1)
  <2>1. l \in 1 .. Len(chain) /\ fil.clust = chain[l]
    BY <1>2, <1>5 DEF DataInv, Standing
  <2>2. IF csect # 0 THEN l = p ELSE l = p - 1
    BY <1>1, <1>2, <1>5, ByteBefore
  <2>3. CASE csect # 0
    BY <1>1, <1>3, <2>1, <2>2, <2>3, Types DEF Followed
  <2>4. CASE csect = 0
    <3>1. Followed = After(fil.clust)
      BY <1>5, <2>4 DEF Followed
    <3>2. {j \in 1 .. Len(chain) - 1 : chain[j] = fil.clust} =
              IF l < Len(chain) THEN {l} ELSE {}
      BY <2>1, Types DEF DataInv, Chained, Distinct
    <3>3. l + 1 = p
      BY <1>3, <2>1, <2>2, <2>4
    <3> HIDE DEF l, p
    <3>4. After(fil.clust) = IF l < Len(chain) THEN {chain[l + 1]} ELSE {}
      BY <3>2 DEF After
    <3>5. /\ p \in 1 .. Len(chain) + 1
          /\ Followed = IF p <= Len(chain) THEN {chain[p]} ELSE {}
      <4>1. Len(chain) \in Nat
        BY Types
      <4>2. l \in 1 .. Len(chain)
        BY <2>1 DEF l
      <4>3. p = l + 1
        BY <3>3
      <4>4. QED
        BY <3>1, <3>4, <4>1, <4>2, <4>3
    <3>6. QED
      BY <1>1, <3>5 DEF p
  <2>5. QED
    BY <2>3, <2>4
<1>6. QED
  BY <1>4, <1>5

(* The chain while a turn of a loop takes cluster c.                       *)
LEMMA Turning ==
    ASSUME DataInv, ~fil.err, AtBoundary, NEW c \in Clusters,
           c \in Followed \cup Stretched, Takes(c)
    PROVE  /\ chain' \in Seq(Clusters) /\ Distinct(chain')
           /\ Len(chain') \in Nat /\ Len(chain) <= Len(chain')
           /\ \A i \in 1 .. Len(chain) : chain'[i] = chain[i]
           /\ ClusterOf(fil.fptr) \in 1 .. Len(chain')
           /\ chain'[ClusterOf(fil.fptr)] = c
           /\ InChain(c)'
<1> DEFINE p == ClusterOf(fil.fptr)
<1>1. /\ p \in 1 .. Len(chain) + 1
      /\ Followed = IF p <= Len(chain) THEN {chain[p]} ELSE {}
  BY FollowedIs
<1>2. chain \in Seq(Clusters) /\ Len(chain) \in Nat /\ Distinct(chain)
  BY Types DEF DataInv, Chained
<1>3. DOMAIN chain = 1 .. Len(chain)
  BY <1>2
<1> HIDE DEF p
<1>4. CASE c \in Followed
  <2>1. p \in 1 .. Len(chain) /\ c = chain[p]
    BY <1>1, <1>2, <1>4
  <2>2. chain' = chain
    BY <1>3, <2>1 DEF Takes, InChain
  <2>3. InChain(c)'
    BY <1>3, <2>1, <2>2 DEF InChain
  <2>4. QED
    BY <1>2, <2>1, <2>2, <2>3 DEF p
<1>5. CASE c \notin Followed
  <2>1. Followed = {} /\ ~InChain(c) /\ p = Len(chain) + 1
    BY <1>1, <1>2, <1>5 DEF Stretched
  <2>2. chain' = Append(chain, c)
    BY <2>1 DEF Takes
  <2>3. /\ chain' \in Seq(Clusters) /\ Len(chain') = Len(chain) + 1
        /\ \A i \in 1 .. Len(chain) : chain'[i] = chain[i]
        /\ chain'[p] = c
    BY <1>2, <2>1, <2>2
  <2>4. \A i \in 1 .. Len(chain) : chain[i] # c
    BY <1>3, <2>1 DEF InChain
  <2>5. Distinct(chain')
    BY <1>2, <2>1, <2>3, <2>4 DEF Distinct
  <2>6. InChain(c)'
    BY <1>2, <2>1, <2>3 DEF InChain
  <2>7. QED
    BY <1>2, <2>1, <2>3, <2>5, <2>6 DEF p
<1>6. QED
  BY <1>4, <1>5

LEMMA TurningSec ==
    ASSUME DataInv, ~fil.err, AtBoundary, NEW c \in Clusters,
           c \in Followed \cup Stretched, Takes(c)
    PROVE  Sect(c) = Sec(chain', fil.fptr)
BY Turning, FollowedIs DEF Sect, Sec

LEMMA SameSecs ==
    ASSUME NEW ch, NEW dh, Len(ch) \in Nat,
           \A i \in 1 .. Len(ch) : dh[i] = ch[i],
           NEW i \in Nat, ClusterOf(i) <= Len(ch)
    PROVE  Sec(dh, i) = Sec(ch, i)
<1>1. ClusterOf(i) \in Nat \ {0}
  BY Places, Zenon
<1>2. ClusterOf(i) \in 1 .. Len(ch)
  BY <1>1
<1>3. QED
  BY <1>2, Zenon DEF Sec

(* Bytes of a run of sectors.                                              *)
LEMMA Shorter ==
    ASSUME NEW j \in Nat, NEW k \in Nat
    PROVE  j < k * SS <=> j \div SS < k
<1> DEFINE q == j \div SS
           r == j % SS
<1>1. q \in Nat /\ r \in 0 .. SS - 1 /\ j = SS * q + r
  BY Division, Sizes, Zenon
<1> HIDE DEF q, r
<1>2. ASSUME q < k PROVE j < k * SS
  <2>1. SS * (q + 1) <= SS * k
    BY <1>1, <1>2, Sizes
  <2>2. QED
    BY <1>1, <2>1, Sizes
<1>3. ASSUME q >= k PROVE ~(j < k * SS)
  <2>1. SS * k <= SS * q
    BY <1>1, <1>3, Sizes
  <2>2. QED
    BY <1>1, <2>1, Sizes
<1>4. QED
  BY <1>1, <1>2, <1>3 DEF q

LEMMA RunFits ==
    ASSUME DataInv
    PROVE  /\ cc \in Nat /\ csect \in 0 .. csize - 1 /\ csect + cc <= csize
           /\ cc * SS \in Nat /\ cc * SS <= req.left
           /\ cc > 0 => cc * SS > 0
           /\ cc = 0 => req.left < SS
<1>1. /\ csect = SectorOf(fil.fptr) % csize /\ fil.fptr \in Nat
      /\ csect \in 0 .. csize - 1
  BY Types, Places, Zenon DEF csect, SectorOf
<1>2. /\ req.left \in Nat /\ Whole \in Nat /\ (req.left % SS) \in 0 .. SS - 1
      /\ req.left = SS * Whole + (req.left % SS)
  BY Types, Division, Sizes, Zenon DEF Whole
<1>3. /\ cc \in Nat /\ csect + cc <= csize /\ cc <= Whole
      /\ cc = 0 => Whole = 0
  BY <1>1, <1>2, Sizes DEF cc
<1> DEFINE w == Whole
           r == req.left % SS
<1>4. w \in Nat /\ r \in 0 .. SS - 1 /\ req.left = SS * w + r /\ cc <= w
  BY <1>2, <1>3, Zenon
<1> HIDE DEF w, r
<1>5. cc * SS \in Nat /\ cc * SS <= SS * w /\ SS * w \in Nat
  BY <1>3, <1>4, Sizes
<1>6. cc * SS <= req.left
  BY <1>4, <1>5, Sizes
<1>7. cc > 0 => cc * SS > 0
  BY <1>3, Sizes
<1>8. cc = 0 => req.left < SS
  BY <1>3, <1>4, Sizes DEF w
<1>9. QED
  BY <1>1, <1>3, <1>5, <1>6, <1>7, <1>8

LEMMA PartFits ==
    ASSUME DataInv, req.left > 0
    PROVE  /\ offset = fil.fptr % SS /\ offset \in 0 .. SS - 1
           /\ Part \in Nat \ {0} /\ Part <= req.left /\ offset + Part <= SS
<1>1. offset = fil.fptr % SS /\ offset \in 0 .. SS - 1
  BY Types, Places, Zenon DEF offset
<1>2. SS \in Nat /\ req.left \in Nat \ {0}
  BY Types, Sizes
<1>3. Part \in Nat \ {0} /\ Part <= req.left /\ offset + Part <= SS
  BY <1>1, <1>2 DEF Part
<1>4. QED
  BY <1>1, <1>3

(* The last byte of a run, and of a part, is in the cluster of its first.  *)
LEMMA RunEnd ==
    ASSUME DataInv, AtBoundary, cc > 0
    PROVE  /\ ClusterOf(fil.fptr + cc * SS - 1) = ClusterOf(fil.fptr)
           /\ (fil.fptr + cc * SS) % SS = 0
<1>1. /\ fil.fptr \in Nat /\ fil.fptr % SS = 0
      /\ cc \in Nat /\ cc * SS \in Nat /\ cc * SS > 0
  BY Types, RunFits DEF AtBoundary, offset
<1> DEFINE j == cc * SS - 1
<1>2. j \in Nat /\ fil.fptr + cc * SS - 1 = fil.fptr + j
  BY <1>1
<1>3. cc * SS = SS * (cc - 1) + SS
  BY <1>1, Sizes
<1>4. j = SS * (cc - 1) + (SS - 1) /\ SS - 1 \in 0 .. SS - 1 /\ cc - 1 \in Nat
  BY <1>1, <1>3, Sizes
<1> HIDE DEF j
<1>5. j \div SS = cc - 1
  <2>1. cc - 1 \in Int
    BY <1>1
  <2>2. (SS * (cc - 1) + (SS - 1)) \div SS = cc - 1
    BY <1>4, <2>1, Quotient, Sizes, Zenon
  <2>3. QED
    BY <1>4, <2>2, Zenon
<1>6. SectorOf(fil.fptr + j) = SectorOf(fil.fptr) + (cc - 1)
  BY <1>1, <1>2, <1>5, FromBoundary, Zenon
<1>7. (SectorOf(fil.fptr) % csize) + (cc - 1) < csize
  <2>1. csect = SectorOf(fil.fptr) % csize
    BY DEF csect, SectorOf
  <2>2. csect + (cc - 1) < csize
    BY <1>1, RunFits, Sizes
  <2>3. QED
    BY <2>1, <2>2, Zenon
<1>8. fil.fptr + j \in Nat
  BY <1>1, <1>2
<1>9. ClusterOf(fil.fptr + j) = ClusterOf(fil.fptr)
  BY <1>1, <1>4, <1>6, <1>7, <1>8, SameCluster, Zenon
<1>10. (fil.fptr + cc * SS) % SS = 0
  <2>1. cc * SS = SS * cc + 0 /\ 0 \in 0 .. SS - 1
    BY <1>1, Sizes
  <2>2. (SS * cc + 0) % SS = 0
    <3>1. cc \in Int
      BY <1>1
    <3>2. QED
      BY <2>1, <3>1, Quotient, Sizes, Zenon
  <2>3. (cc * SS) % SS = 0
    BY <2>1, <2>2, Zenon
  <2>4. QED
    BY <1>1, <2>3, FromBoundary, Zenon
<1>11. QED
  BY <1>2, <1>9, <1>10, Zenon

LEMMA PartEnd ==
    ASSUME DataInv, req.left > 0
    PROVE  /\ ClusterOf(fil.fptr + Part - 1) = ClusterOf(fil.fptr)
           /\ (fil.fptr + Part) % SS # 0 =>
                 /\ ClusterOf(fil.fptr + Part) = ClusterOf(fil.fptr)
                 /\ SectorOf(fil.fptr + Part) = SectorOf(fil.fptr)
<1>1. /\ fil.fptr \in Nat /\ offset = fil.fptr % SS /\ offset \in 0 .. SS - 1
      /\ Part \in Nat \ {0} /\ offset + Part <= SS
  BY Types, PartFits
<1>2. Part - 1 \in Nat /\ offset + (Part - 1) < SS
      /\ fil.fptr + Part - 1 = fil.fptr + (Part - 1)
  BY <1>1, Sizes
<1>3. SectorOf(fil.fptr + (Part - 1)) = SectorOf(fil.fptr)
  BY <1>1, <1>2, SameSector, Zenon
<1>4. /\ fil.fptr + (Part - 1) \in Nat /\ fil.fptr + Part \in Nat
      /\ fil.fptr + Part \in Nat \ {0}
  BY <1>1
<1>5. ClusterOf(fil.fptr + (Part - 1)) = ClusterOf(fil.fptr)
  BY <1>1, <1>3, <1>4, Places, Zenon
<1>6. ASSUME (fil.fptr + Part) % SS # 0
      PROVE  /\ ClusterOf(fil.fptr + Part) = ClusterOf(fil.fptr)
             /\ SectorOf(fil.fptr + Part) = SectorOf(fil.fptr)
  <2>1. PICK n \in Nat \ {0} : n = fil.fptr + Part
    BY <1>4
  <2>2. SectorOf(n - 1) = SectorOf(n) /\ ClusterOf(n - 1) = ClusterOf(n)
    BY <1>6, <2>1, ByteBefore
  <2>3. n - 1 = fil.fptr + (Part - 1)
    BY <1>1, <2>1
  <2>4. QED
    BY <1>3, <1>5, <2>1, <2>2, <2>3, Zenon
<1>7. QED
  BY <1>2, <1>5, <1>6, Zenon

-----------------------------------------------------------------------------
(* DataInv is inductive.                                                   *)

LEMMA Longer ==
    ASSUME NEW a \in Nat, NEW b \in Nat, a <= b
    PROVE  a * bcs <= b * bcs
BY Sizes

(* Where an offset within the chain stands.                                *)
LEMMA TurnStands ==
    ASSUME DataInv, ~fil.err, AtBoundary, NEW c \in Clusters,
           c \in Followed \cup Stretched, Takes(c),
           NEW m \in Nat \ {0}, ClusterOf(fil.fptr + m - 1) = ClusterOf(fil.fptr),
           fil'.fptr = fil.fptr + m, fil'.clust = c, fil'.fsize = fil.fsize,
           (fil.fptr + m) % SS # 0 =>
               /\ fil'.dsect = Sect(c)
               /\ SectorOf(fil.fptr + m) = SectorOf(fil.fptr)
               /\ ClusterOf(fil.fptr + m) = ClusterOf(fil.fptr)
    PROVE  Chained' /\ Standing'
<1>1. /\ chain' \in Seq(Clusters) /\ Distinct(chain')
      /\ Len(chain') \in Nat /\ Len(chain) <= Len(chain')
      /\ ClusterOf(fil.fptr) \in 1 .. Len(chain')
      /\ chain'[ClusterOf(fil.fptr)] = c
  BY Turning
<1>2. fil.fsize <= Len(chain') * bcs
  <2>1. Len(chain) * bcs <= Len(chain') * bcs
    BY <1>1, Types, Longer
  <2>2. fil.fsize <= Len(chain) * bcs
    BY DEF DataInv, Chained
  <2>3. fil.fsize \in Int /\ Len(chain) * bcs \in Int /\ Len(chain') * bcs \in Int
    BY <1>1, Types, Sizes
  <2>4. QED
    BY <2>1, <2>2, <2>3
<1>3. Chained'
  BY <1>1, <1>2 DEF Chained
<1>4. ASSUME (fil.fptr + m) % SS # 0
      PROVE  fil'.dsect = Sec(chain', fil.fptr + m)
  BY <1>4, TurningSec, Zenon DEF Sec
<1>5. Standing'
  <2>1. (fil.fptr > 0)' => /\ ClusterOf(fil'.fptr - 1) \in 1 .. Len(chain')
                           /\ fil'.clust = chain'[ClusterOf(fil'.fptr - 1)]
    <3>1. fil'.fptr - 1 = fil.fptr + m - 1
      BY Types
    <3>2. QED
      BY <1>1, <3>1
  <2>2. fil'.fptr % SS # 0 => fil'.dsect = Sec(chain', fil'.fptr)
    BY <1>4
  <2>3. QED
    BY <2>1, <2>2 DEF Standing, AtBoundary, offset
<1>6. QED
  BY <1>3, <1>5

LEMMA FlushedIs ==
    ASSUME DataInv
    PROVE  /\ Flushed \in [Sectors -> SectorBytes]
           /\ \A s \in Sectors : Flushed[s] = IF fil.dirty /\ s = fil.dsect
                                              THEN fil.buf ELSE medium[s]
BY Types DEF Flushed

LEMMA DatumTyped ==
    ASSUME DataInv, NEW i \in Int
    PROVE  Datum(i) \in Bytes
<1>1. req.first \in {0, 1} /\ i \div 2 \in Int
  BY Types DEF Bytes
<1>2. QED
  BY <1>1 DEF Datum, Bytes

LEMMA SentTyped ==
    ASSUME DataInv, NEW i \in Int
    PROVE  Sent(i) \in SectorBytes
<1>1. Rest \in Int /\ \A b \in 0 .. SS - 1 : Rest + i * SS + b \in Int
  BY Types, Sizes DEF Rest
<1>2. QED
  BY <1>1, DatumTyped DEF Sent, SectorBytes

LEMMA PutTyped ==
    ASSUME DataInv, NEW buf \in SectorBytes
    PROVE  Put(buf) \in SectorBytes
<1>1. Rest \in Int /\ offset \in Int
  BY Types, Sizes DEF Rest, offset
<1>2. \A b \in 0 .. SS - 1 : b - offset \in Int /\ Rest + (b - offset) \in Int
  BY <1>1, Sizes
<1>3. QED
  BY <1>2, DatumTyped DEF Put, SectorBytes

FilType == [dirty : BOOLEAN, written : BOOLEAN,
            err : BOOLEAN, fptr : 0 .. MaxSize, fsize : 0 .. MaxSize,
            clust : Clusters \cup {0}, dsect : Sectors \cup {0},
            buf : SectorBytes]

ReqType == [op : {"none", "read", "write", "failed"}, first : Bytes,
            n : Lengths \cup {0}, left : Nat, aligned : BOOLEAN]

(* The chain has no more clusters than there are.                          *)
LEMMA TypesAgain ==
    ASSUME medium' \in [Sectors -> SectorBytes], Chained', fil' \in FilType,
           req' \in ReqType, \A i \in DOMAIN rbuff' : rbuff'[i] \in Bytes
    PROVE  TypeOK'
<1>1. chain' \in Seq(Clusters) /\ Distinct(chain')
  BY DEF Chained
<1>2. Len(chain') <= NumClusters
  BY <1>1, ChainLength
<1>3. QED
  BY <1>1, <1>2 DEF TypeOK, FilType, ReqType

Has(ch, c) == \E i \in DOMAIN ch : ch[i] = c

LEMMA Numbers ==
    ASSUME DataInv
    PROVE  /\ fil.fptr \in Nat /\ fil.fptr <= MaxSize
           /\ fil.fsize \in Nat /\ fil.fsize <= MaxSize
           /\ req.left \in Nat /\ req.n \in Nat /\ MaxSize \in Nat
BY Types, Sizes

LEMMA FollowedInChain ==
    ASSUME DataInv, ~fil.err, AtBoundary, NEW c \in Followed
    PROVE  InChain(c) /\ c \in Clusters
BY FollowedIs, Types DEF InChain

(* What keeps the object marked with its clusters.                         *)
LEMMA OwnedSec ==
    ASSUME DataInv, ~fil.err, AtBoundary, NEW c \in Clusters,
           c \in Followed \cup Stretched, Takes(c), NEW k \in 0 .. csize - 1,
           csect + k < csize
    PROVE  /\ Sect(c) + k \in Sectors /\ (Sect(c) + k) \div csize = c
           /\ Has(chain', (Sect(c) + k) \div csize)
<1>1. csect \in 0 .. csize - 1
  BY RunFits
<1>2. csect + k \in 0 .. csize - 1
  BY <1>1, Sizes
<1>3. Sect(c) + k = c * csize + (csect + k)
  BY <1>1, Types, Sizes DEF Sect
<1>4. Sect(c) + k \in Sectors /\ (Sect(c) + k) \div csize = c
  BY <1>2, <1>3, InCluster, Zenon
<1>5. Has(chain', c)
  BY Turning DEF InChain, Has
<1>6. QED
  BY <1>4, <1>5, Zenon

LEMMA SectOwned ==
    ASSUME DataInv, ~fil.err, AtBoundary, NEW c \in Clusters,
           c \in Followed \cup Stretched, Takes(c)
    PROVE  /\ Sect(c) \in Sectors /\ Sect(c) # 0
           /\ Has(chain', Sect(c) \div csize)
<1>1. /\ Sect(c) + 0 \in Sectors /\ (Sect(c) + 0) \div csize = c
      /\ Has(chain', (Sect(c) + 0) \div csize)
  BY OwnedSec, RunFits, Sizes
<1>2. Sect(c) + 0 = Sect(c)
  BY <1>1, RunFits, Types, Sizes DEF Sect
<1>3. 0 \notin Sectors
  BY Types
<1>4. QED
  BY <1>1, <1>2, <1>3, Zenon

LEMMA StillOwned ==
    ASSUME DataInv, ~fil.err, AtBoundary, NEW c \in Clusters,
           c \in Followed \cup Stretched, Takes(c), NEW d, Has(chain, d)
    PROVE  Has(chain', d)
<1>1. /\ DOMAIN chain = 1 .. Len(chain) /\ DOMAIN chain' = 1 .. Len(chain')
      /\ Len(chain) \in Nat /\ Len(chain') \in Nat /\ Len(chain) <= Len(chain')
      /\ \A i \in 1 .. Len(chain) : chain'[i] = chain[i]
  BY Turning, Types
<1>2. QED
  BY <1>1 DEF Has

(* A dirty buffer keeps its sector, and the file its clusters.             *)
LEMMA StaysOwned ==
    ASSUME DataInv, ~fil.err,
           fil'.dirty => fil.dirty /\ fil'.dsect = fil.dsect,
           \A d : Has(chain, d) => Has(chain', d)
    PROVE  Owned'
<1>1. fil.dirty => fil.dsect # 0 /\ Has(chain, fil.dsect \div csize)
  BY DEF DataInv, Owned, TruncateFailed, InChain, Has
<1>2. QED
  BY <1>1 DEF Owned, InChain, Has

LEMMA WriteDirectKeeps ==
    ASSUME DataInv, NEW c \in Clusters, WriteDirect(c)
    PROVE  DataInv'
<1> DEFINE m == cc * SS
<1>1. /\ req.op = "write" /\ AtBoundary /\ cc > 0 /\ c \in Followed \cup Stretched
      /\ Takes(c) /\ ~fil.err /\ fil.fptr + req.left <= MaxSize
      /\ req.left <= req.n /\ req.n > 0
      /\ fil.fptr - Rest \in 0 .. fil.fsize /\ rbuff = <<>>
  BY DEF WriteDirect, DataInv, Requested
<1>2. /\ m \in Nat \ {0} /\ m <= req.left
      /\ ClusterOf(fil.fptr + m - 1) = ClusterOf(fil.fptr)
      /\ (fil.fptr + m) % SS = 0
  BY <1>1, RunFits, RunEnd
<1>3. /\ fil' = [fil EXCEPT !.clust = c, !.dirty = FALSE, !.fptr = fil.fptr + m,
                    !.buf = fil'.buf]
      /\ fil'.buf \in {fil.buf, Sent(fil.dsect - Sect(c)), Sent(cc - 1)}
  BY Types DEF WriteDirect, DataInv, TypeOK
<1>4. /\ req' = [req EXCEPT !.left = req.left - m] /\ rbuff' = rbuff
  BY DEF WriteDirect, Moved
<1> HIDE DEF m
<1>5. Chained' /\ Standing'
  BY <1>1, <1>2, <1>3, TurnStands, Types DEF DataInv, TypeOK
<1>6. medium' \in [Sectors -> SectorBytes]
  <2>1. \A s \in Sectors : s - Sect(c) \in Int
    BY <1>1, SectOwned, Sizes DEF Sectors
  <2>2. \A s \in Sectors : Sent(s - Sect(c)) \in SectorBytes
    BY <2>1, SentTyped
  <2>3. QED
    BY <2>2, FlushedIs DEF WriteDirect
<1>7. fil'.buf \in SectorBytes
  <2>0. fil.dsect \in Sectors \cup {0} /\ Sect(c) \in Sectors /\ \A s \in Sectors : s \in Int
    BY <1>1, SectOwned, Types, Sizes DEF Sectors
  <2>a. cc \in Nat
    BY RunFits
  <2>b. fil.dsect \in Int /\ Sect(c) \in Int
    BY <2>0
  <2>1. fil.dsect - Sect(c) \in Int /\ cc - 1 \in Int
    BY <2>a, <2>b
  <2>2. QED
    BY <1>3, <2>1, SentTyped, Types
<1>8. fil' \in FilType
  <2>1. fil.fptr + m \in 0 .. MaxSize
    BY <1>1, <1>2, Numbers
  <2>2. QED
    BY <1>3, <1>7, <2>1 DEF FilType, DataInv, TypeOK
<1>9. req' \in ReqType
  <2>1. req.left - m \in Nat
    BY <1>2, Numbers
  <2>2. QED
    BY <1>4, <2>1 DEF ReqType, DataInv, TypeOK
<1>10. TypeOK'
  BY <1>4, <1>5, <1>6, <1>8, <1>9, TypesAgain DEF DataInv, TypeOK
<1>11. Owned'
  BY <1>3, <1>8 DEF Owned, FilType
<1>12. Requested'
  <2>1. /\ fil'.fptr = fil.fptr + m /\ fil'.fsize = fil.fsize /\ fil'.err = fil.err
    BY <1>3 DEF DataInv, TypeOK
  <2>2. /\ req'.op = "write" /\ req'.left = req.left - m /\ req'.n = req.n
    BY <1>1, <1>4 DEF DataInv, TypeOK
  <2>3. fil'.fptr - Rest' = fil.fptr - Rest /\ fil'.fptr + req'.left <= MaxSize
    BY <1>1, <1>2, <2>1, <2>2, Numbers DEF Rest
  <2>4. QED
    BY <1>1, <1>2, <1>4, <2>1, <2>2, <2>3, Numbers DEF Requested
<1>13. QED
  BY <1>5, <1>10, <1>11, <1>12 DEF DataInv

LEMMA WriteSectorKeeps ==
    ASSUME DataInv, NEW c \in Clusters, WriteSector(c)
    PROVE  DataInv'
<1>1. /\ req.op = "write" /\ AtBoundary /\ req.left > 0 /\ c \in Followed \cup Stretched
      /\ Takes(c) /\ ~fil.err /\ fil.fptr + req.left <= MaxSize
      /\ req.left <= req.n /\ req.n > 0
      /\ fil.fptr - Rest \in 0 .. fil.fsize /\ rbuff = <<>>
  BY DEF WriteSector, DataInv, Requested
<1>2. /\ Part \in Nat \ {0} /\ Part <= req.left
      /\ ClusterOf(fil.fptr + Part - 1) = ClusterOf(fil.fptr)
      /\ (fil.fptr + Part) % SS # 0 =>
            /\ ClusterOf(fil.fptr + Part) = ClusterOf(fil.fptr)
            /\ SectorOf(fil.fptr + Part) = SectorOf(fil.fptr)
  BY <1>1, PartFits, PartEnd
<1>3. Sect(c) \in Sectors /\ Sect(c) # 0 /\ Has(chain', Sect(c) \div csize)
  BY <1>1, SectOwned
<1>4. \E buf \in SectorBytes :
          fil' = [fil EXCEPT !.clust = c, !.dirty = TRUE, !.fptr = fil.fptr + Part,
                    !.dsect = Sect(c), !.buf = Put(buf)]
  <2>1. Flushed[Sect(c)] \in SectorBytes /\ fil.buf \in SectorBytes
    BY <1>3, FlushedIs, Types
  <2>2. QED
    BY <2>1 DEF WriteSector
<1>5. PICK new \in SectorBytes :
          fil' = [fil EXCEPT !.clust = c, !.dirty = TRUE, !.fptr = fil.fptr + Part,
                    !.dsect = Sect(c), !.buf = new]
  BY <1>4, PutTyped
<1>6. /\ req' = [req EXCEPT !.left = req.left - Part] /\ rbuff' = rbuff
      /\ medium' = Flushed
  BY DEF WriteSector, Moved
<1>7. /\ fil'.fptr = fil.fptr + Part /\ fil'.fsize = fil.fsize
      /\ fil'.err = fil.err /\ fil'.clust = c /\ fil'.dsect = Sect(c)
  BY <1>5 DEF DataInv, TypeOK
<1>8. Chained' /\ Standing'
  BY <1>1, <1>2, <1>7, TurnStands
<1>9. fil' \in FilType
  <2>1. fil.fptr + Part \in 0 .. MaxSize
    BY <1>1, <1>2, Numbers
  <2>2. QED
    BY <1>3, <1>5, <2>1 DEF FilType, DataInv, TypeOK
<1>10. req' \in ReqType
  <2>1. req.left - Part \in Nat
    BY <1>2, Numbers
  <2>2. QED
    BY <1>6, <2>1 DEF ReqType, DataInv, TypeOK
<1>11. TypeOK'
  BY <1>6, <1>8, <1>9, <1>10, FlushedIs, TypesAgain DEF DataInv, TypeOK
<1>12. Owned'
  BY <1>3, <1>7 DEF Owned, InChain, Has
<1>13. Requested'
  <2>1. /\ req'.op = "write" /\ req'.left = req.left - Part /\ req'.n = req.n
    BY <1>1, <1>6 DEF DataInv, TypeOK
  <2>2. fil'.fptr - Rest' = fil.fptr - Rest /\ fil'.fptr + req'.left <= MaxSize
    BY <1>1, <1>2, <1>7, <2>1, Numbers DEF Rest
  <2>3. QED
    BY <1>1, <1>2, <1>6, <1>7, <2>1, <2>2, Numbers DEF Requested
<1>14. QED
  BY <1>8, <1>11, <1>12, <1>13 DEF DataInv

(* A part of the sector at the offset.                                     *)
LEMMA InsideStands ==
    ASSUME DataInv, ~fil.err, ~AtBoundary, req.left > 0, UNCHANGED chain,
           fil'.fptr = fil.fptr + Part, fil'.clust = fil.clust,
           fil'.fsize = fil.fsize, fil'.dsect = fil.dsect
    PROVE  Chained' /\ Standing'
<1>1. /\ Part \in Nat \ {0} /\ fil.fptr \in Nat
      /\ ClusterOf(fil.fptr + Part - 1) = ClusterOf(fil.fptr)
      /\ (fil.fptr + Part) % SS # 0 =>
            /\ ClusterOf(fil.fptr + Part) = ClusterOf(fil.fptr)
            /\ SectorOf(fil.fptr + Part) = SectorOf(fil.fptr)
  BY PartFits, PartEnd, Numbers
<1>2. fil.fptr % SS # 0 /\ fil.fptr # 0
  BY Sizes DEF AtBoundary, offset
<1>3. /\ ClusterOf(fil.fptr - 1) \in 1 .. Len(chain)
      /\ fil.clust = chain[ClusterOf(fil.fptr - 1)]
      /\ fil.dsect = Sec(chain, fil.fptr)
  BY <1>1, <1>2 DEF DataInv, Standing
<1>4. ClusterOf(fil.fptr - 1) = ClusterOf(fil.fptr)
  BY <1>1, <1>2, ByteBefore
<1>5. Chained'
  BY DEF DataInv, Chained
<1>6. Standing'
  <2>1. fil'.fptr - 1 = fil.fptr + Part - 1
    BY <1>1
  <2>2. /\ ClusterOf(fil'.fptr - 1) \in 1 .. Len(chain')
        /\ fil'.clust = chain'[ClusterOf(fil'.fptr - 1)]
    BY <1>1, <1>3, <1>4, <2>1
  <2>3. fil'.fptr % SS # 0 => fil'.dsect = Sec(chain', fil'.fptr)
    BY <1>1, <1>3, Zenon DEF Sec
  <2>4. QED
    BY <2>2, <2>3 DEF Standing, AtBoundary, offset
<1>7. QED
  BY <1>5, <1>6

LEMMA StandsInside ==
    ASSUME DataInv, ~fil.err, ~AtBoundary
    PROVE  /\ ClusterOf(fil.fptr) \in 1 .. Len(chain)
           /\ fil.dsect = Sec(chain, fil.fptr)
           /\ fil.dsect \in Sectors /\ fil.dsect # 0
           /\ Has(chain, fil.dsect \div csize)
<1>1. fil.fptr % SS # 0 /\ fil.fptr # 0 /\ fil.fptr \in Nat
  BY Sizes, Numbers DEF AtBoundary, offset
<1>2. /\ ClusterOf(fil.fptr - 1) \in 1 .. Len(chain)
      /\ fil.dsect = Sec(chain, fil.fptr)
  BY <1>1 DEF DataInv, Standing
<1>3. ClusterOf(fil.fptr - 1) = ClusterOf(fil.fptr)
  BY <1>1, ByteBefore
<1>4. chain \in Seq(Clusters) /\ ClusterOf(fil.fptr) <= Len(chain) /\ 0 \notin Sectors
  BY <1>2, <1>3, Types
<1>5. /\ Sec(chain, fil.fptr) \in Sectors
      /\ Sec(chain, fil.fptr) \div csize = chain[ClusterOf(fil.fptr)]
  BY <1>1, <1>4, SecFacts, Zenon
<1>6. ClusterOf(fil.fptr) \in DOMAIN chain
  BY <1>2, <1>3, <1>4
<1>7. QED
  BY <1>2, <1>3, <1>4, <1>5, <1>6, Zenon DEF Has

LEMMA WriteInsideKeeps ==
    ASSUME DataInv, WriteInside
    PROVE  DataInv'
<1>1. /\ req.op = "write" /\ ~AtBoundary /\ req.left > 0
      /\ ~fil.err /\ fil.fptr + req.left <= MaxSize
      /\ req.left <= req.n /\ req.n > 0
      /\ fil.fptr - Rest \in 0 .. fil.fsize /\ rbuff = <<>>
  BY DEF WriteInside, DataInv, Requested
<1>2. Part \in Nat \ {0} /\ Part <= req.left
  BY <1>1, PartFits
<1>3. PICK new \in SectorBytes :
          fil' = [fil EXCEPT !.dirty = TRUE, !.fptr = fil.fptr + Part, !.buf = new]
  BY PutTyped, Types DEF WriteInside
<1>4. /\ req' = [req EXCEPT !.left = req.left - Part] /\ rbuff' = rbuff
      /\ UNCHANGED <<medium, chain>>
  BY DEF WriteInside, Moved
<1>5. /\ fil'.fptr = fil.fptr + Part /\ fil'.fsize = fil.fsize
      /\ fil'.err = fil.err /\ fil'.clust = fil.clust /\ fil'.dsect = fil.dsect
  BY <1>3 DEF DataInv, TypeOK
<1>6. Chained' /\ Standing'
  BY <1>1, <1>4, <1>5, InsideStands
<1>7. fil' \in FilType
  <2>1. fil.fptr + Part \in 0 .. MaxSize
    BY <1>1, <1>2, Numbers
  <2>2. QED
    BY <1>3, <2>1 DEF FilType, DataInv, TypeOK
<1>8. req' \in ReqType
  <2>1. req.left - Part \in Nat
    BY <1>2, Numbers
  <2>2. QED
    BY <1>4, <2>1 DEF ReqType, DataInv, TypeOK
<1>9. TypeOK'
  BY <1>4, <1>6, <1>7, <1>8, TypesAgain DEF DataInv, TypeOK
<1>10. Owned'
  BY <1>1, <1>4, <1>5, StandsInside DEF Owned, InChain, Has
<1>11. Requested'
  <2>1. /\ req'.op = "write" /\ req'.left = req.left - Part /\ req'.n = req.n
    BY <1>1, <1>4 DEF DataInv, TypeOK
  <2>2. fil'.fptr - Rest' = fil.fptr - Rest /\ fil'.fptr + req'.left <= MaxSize
    BY <1>1, <1>2, <1>5, <2>1, Numbers DEF Rest
  <2>3. QED
    BY <1>1, <1>2, <1>4, <1>5, <2>1, <2>2, Numbers DEF Requested
<1>12. QED
  BY <1>6, <1>9, <1>10, <1>11 DEF DataInv

LEMMA OffsetInside ==
    ASSUME DataInv, ~fil.err
    PROVE  fil.fptr <= Len(chain) * bcs
<1>1. fil.fptr \in Nat /\ Len(chain) \in Nat /\ Len(chain) * bcs \in Nat
  BY Types, Sizes
<1>2. CASE fil.fptr = 0
  BY <1>1, <1>2
<1>3. CASE fil.fptr # 0
  <2>1. ClusterOf(fil.fptr - 1) \in 1 .. Len(chain)
    BY <1>1, <1>3 DEF DataInv, Standing
  <2>2. ClusterOf(fil.fptr - 1) <= Len(chain) /\ fil.fptr - 1 \in Nat
    BY <1>1, <1>3, <2>1
  <2>3. fil.fptr - 1 < Len(chain) * bcs
    BY <1>1, <2>2, Inside
  <2>4. QED
    BY <1>1, <2>3
<1>4. QED
  BY <1>2, <1>3

LEMMA WriteEndsKeeps ==
    ASSUME DataInv, WriteEnds
    PROVE  DataInv'
<1>1. ~fil.err /\ rbuff = <<>> /\ req.op = "write"
  BY DEF WriteEnds, DataInv, Requested
<1> DEFINE z == IF fil.fptr > fil.fsize THEN fil.fptr ELSE fil.fsize
<1>2. /\ z \in {fil.fptr, fil.fsize} /\ z >= fil.fptr /\ z >= fil.fsize
      /\ fil' = [fil EXCEPT !.fsize = z, !.written = TRUE]
  BY Numbers DEF WriteEnds
<1> HIDE DEF z
<1>3. req' = NoRequest /\ UNCHANGED <<medium, chain, rbuff>>
  BY DEF WriteEnds
<1>4. /\ fil'.fptr = fil.fptr /\ fil'.fsize = z /\ fil'.err = fil.err
      /\ fil'.clust = fil.clust /\ fil'.dsect = fil.dsect /\ fil'.dirty = fil.dirty
  BY <1>2 DEF DataInv, TypeOK
<1>5. z \in 0 .. MaxSize /\ z <= Len(chain) * bcs
  BY <1>1, <1>2, OffsetInside, Numbers DEF DataInv, Chained
<1>6. Chained'
  BY <1>3, <1>4, <1>5 DEF DataInv, Chained
<1>7. Standing'
  BY <1>3, <1>4 DEF DataInv, Standing, AtBoundary, offset
<1>8. fil' \in FilType /\ req' \in ReqType
  BY <1>2, <1>3, <1>5 DEF FilType, ReqType, DataInv, TypeOK, NoRequest, Bytes
<1>9. TypeOK'
  BY <1>3, <1>6, <1>8, TypesAgain DEF DataInv, TypeOK
<1>10. Owned'
  BY <1>1, <1>3, <1>4, StaysOwned
<1>11. Requested'
  BY <1>1, <1>2, <1>3, <1>4, Numbers DEF Requested, NoRequest
<1>12. QED
  BY <1>6, <1>7, <1>9, <1>10, <1>11 DEF DataInv

LEMMA StartsKeeps ==
    ASSUME DataInv, NEW o \in {"read", "write"}, NEW n \in Lengths,
           NEW first \in Bytes, NEW aligned \in Aligned,
           StartRequest(o, n, first, aligned),
           o = "read" => n <= fil.fsize - fil.fptr
    PROVE  DataInv'
<1>1. /\ req.op = "none" /\ ~fil.err /\ fil.fptr + n <= MaxSize
      /\ fil.fptr <= fil.fsize /\ rbuff' = <<>> /\ UNCHANGED <<medium, chain, fil>>
  BY DEF StartRequest, DataInv, Requested
<1>2. n \in Nat \ {0} /\ aligned \in BOOLEAN
  BY Sizes
<1>3. req' \in ReqType /\ req'.op = o /\ req'.n = n /\ req'.left = n
  BY <1>2 DEF StartRequest, ReqType
<1>4. Chained' /\ Standing' /\ Owned'
  BY <1>1, StaysOwned DEF DataInv, Chained, Standing, AtBoundary, offset
<1>5. TypeOK'
  BY <1>1, <1>3, <1>4, TypesAgain DEF DataInv, TypeOK, FilType
<1>6. Requested'
  BY <1>1, <1>2, <1>3, Numbers DEF Requested, Rest
<1>7. QED
  BY <1>4, <1>5, <1>6 DEF DataInv

LEMMA ReadDirectKeeps ==
    ASSUME DataInv, NEW c \in Clusters, ReadDirect(c)
    PROVE  DataInv'
<1> DEFINE m == cc * SS
<1>1. /\ req.op = "read" /\ AtBoundary /\ cc > 0 /\ c \in Followed
      /\ ~fil.err /\ fil.fptr + req.left <= MaxSize
      /\ req.left <= req.n /\ req.n > 0 /\ fil.fptr + req.left <= fil.fsize
  BY DEF ReadDirect, DataInv, Requested
<1>2. /\ m \in Nat \ {0} /\ m <= req.left
      /\ ClusterOf(fil.fptr + m - 1) = ClusterOf(fil.fptr)
      /\ (fil.fptr + m) % SS = 0
  BY <1>1, RunFits, RunEnd
<1>3. Takes(c) /\ UNCHANGED <<medium, chain>>
  BY <1>1, FollowedInChain DEF Takes, ReadDirect
(* What is in a sector of the run.                                         *)
<1>4. \A j \in 0 .. cc - 1 : Sect(c) + j \in Sectors
  <2>1. cc \in Nat /\ csect \in 0 .. csize - 1 /\ csect + cc <= csize
    BY RunFits
  <2>2. ASSUME NEW j \in 0 .. cc - 1 PROVE Sect(c) + j \in Sectors
    <3>1. j \in 0 .. csize - 1 /\ csect + j < csize
      BY <2>1, <2>2, Sizes
    <3>2. QED
      BY <1>1, <1>3, <3>1, OwnedSec
  <2>3. QED
    BY <2>2
<1>5. cc \in Nat /\ cc - 1 \in 0 .. cc - 1
  BY <1>1, RunFits
<1>6. Sect(c) + cc - 1 = Sect(c) + (cc - 1)
  BY <1>1, <1>3, <1>5, SectOwned, Sizes DEF Sectors
<1>7. medium[Sect(c) + cc - 1] \in SectorBytes
  BY <1>4, <1>5, <1>6, Types
<1>8. PICK new \in SectorBytes :
          /\ fil' = [fil EXCEPT !.clust = c, !.fptr = fil.fptr + m, !.buf = new]
          /\ rbuff' = [i \in 1 .. m |->
                (IF fil.dirty /\ Sect(c) + (i - 1) \div SS = fil.dsect THEN new
                 ELSE medium[Sect(c) + (i - 1) \div SS])[(i - 1) % SS]]
  BY <1>7, Types DEF ReadDirect
<1>9. \A i \in DOMAIN rbuff' : rbuff'[i] \in Bytes
  <2> SUFFICES ASSUME NEW i \in 1 .. m
               PROVE  rbuff'[i] \in Bytes
    BY <1>8
  <2> DEFINE q == (i - 1) \div SS
             r == (i - 1) % SS
  <2>1. q \in Nat /\ r \in 0 .. SS - 1 /\ i - 1 \in Nat /\ i - 1 < cc * SS
    <3>1. i - 1 \in Nat /\ i - 1 < cc * SS
      BY <1>2
    <3>2. QED
      BY <3>1, Division, Sizes, Zenon
  <2>2. q < cc
    BY <1>5, <2>1, Shorter
  <2> HIDE DEF q, r
  <2>3. Sect(c) + q \in Sectors
    BY <1>4, <1>5, <2>1, <2>2
  <2>4. rbuff'[i] = (IF fil.dirty /\ Sect(c) + q = fil.dsect THEN new
                     ELSE medium[Sect(c) + q])[r]
    BY <1>8, Zenon DEF q, r
  <2>5. new[r] \in Bytes /\ medium[Sect(c) + q][r] \in Bytes
    BY <2>1, <2>3, Types DEF SectorBytes
  <2>6. QED
    BY <2>4, <2>5
<1>10. req' = [req EXCEPT !.left = req.left - m]
  BY DEF ReadDirect, Moved
<1> HIDE DEF m
<1>11. /\ fil'.fptr = fil.fptr + m /\ fil'.fsize = fil.fsize /\ fil'.dirty = fil.dirty
       /\ fil'.err = fil.err /\ fil'.clust = c /\ fil'.dsect = fil.dsect
  BY <1>8 DEF DataInv, TypeOK
<1>12. Chained' /\ Standing'
  BY <1>1, <1>2, <1>3, <1>11, TurnStands
<1>13. fil' \in FilType
  <2>1. fil.fptr + m \in 0 .. MaxSize
    BY <1>1, <1>2, Numbers
  <2>2. QED
    BY <1>8, <2>1 DEF FilType, DataInv, TypeOK
<1>14. req' \in ReqType
  <2>1. req.left - m \in Nat
    BY <1>2, Numbers
  <2>2. QED
    BY <1>10, <2>1 DEF ReqType, DataInv, TypeOK
<1>15. TypeOK'
  BY <1>3, <1>9, <1>12, <1>13, <1>14, TypesAgain DEF DataInv, TypeOK
<1>16. Owned'
  BY <1>1, <1>3, <1>11, StaysOwned
<1>17. Requested'
  <2>1. /\ req'.op = "read" /\ req'.left = req.left - m /\ req'.n = req.n
    BY <1>1, <1>10 DEF DataInv, TypeOK
  <2>2. fil'.fptr + req'.left = fil.fptr + req.left
    BY <1>2, <1>11, <2>1, Numbers
  <2>3. QED
    BY <1>1, <1>2, <1>11, <2>1, <2>2, Numbers DEF Requested
<1>18. QED
  BY <1>12, <1>15, <1>16, <1>17 DEF DataInv

LEMMA GottenTyped ==
    ASSUME DataInv, req.left > 0, NEW buf \in SectorBytes
    PROVE  \A i \in DOMAIN Gotten(buf) : Gotten(buf)[i] \in Bytes
<1>1. /\ Part \in Nat \ {0} /\ offset \in 0 .. SS - 1 /\ offset + Part <= SS
  BY PartFits
<1>2. \A i \in 1 .. Part : offset + i - 1 \in 0 .. SS - 1
  BY <1>1, Sizes
<1>3. QED
  BY <1>2 DEF Gotten, SectorBytes

LEMMA ReadSectorKeeps ==
    ASSUME DataInv, NEW c \in Clusters, ReadSector(c)
    PROVE  DataInv'
<1>1. /\ req.op = "read" /\ AtBoundary /\ req.left > 0 /\ c \in Followed
      /\ ~fil.err /\ fil.fptr + req.left <= MaxSize
      /\ req.left <= req.n /\ req.n > 0 /\ fil.fptr + req.left <= fil.fsize
  BY DEF ReadSector, DataInv, Requested
<1>2. /\ Part \in Nat \ {0} /\ Part <= req.left
      /\ ClusterOf(fil.fptr + Part - 1) = ClusterOf(fil.fptr)
      /\ (fil.fptr + Part) % SS # 0 =>
            /\ ClusterOf(fil.fptr + Part) = ClusterOf(fil.fptr)
            /\ SectorOf(fil.fptr + Part) = SectorOf(fil.fptr)
  BY <1>1, PartFits, PartEnd
<1>3. Takes(c) /\ UNCHANGED chain
  BY <1>1, FollowedInChain DEF Takes, ReadSector
<1>4. Sect(c) \in Sectors /\ Sect(c) # 0 /\ Has(chain', Sect(c) \div csize)
  BY <1>1, <1>3, SectOwned
<1>5. PICK new \in SectorBytes, dirty \in BOOLEAN :
          /\ fil' = [fil EXCEPT !.clust = c, !.dirty = dirty, !.dsect = Sect(c),
                           !.buf = new, !.fptr = fil.fptr + Part]
          /\ rbuff' = Gotten(new)
  <2>1. Flushed[Sect(c)] \in SectorBytes /\ fil.buf \in SectorBytes
    BY <1>4, FlushedIs, Types
  <2>2. QED
    BY <2>1, Types DEF ReadSector
<1>6. /\ req' = [req EXCEPT !.left = req.left - Part]
      /\ medium' \in {medium, Flushed}
  BY DEF ReadSector, Moved
<1>7. /\ fil'.fptr = fil.fptr + Part /\ fil'.fsize = fil.fsize
      /\ fil'.err = fil.err /\ fil'.clust = c /\ fil'.dsect = Sect(c)
  BY <1>5 DEF DataInv, TypeOK
<1>8. Chained' /\ Standing'
  BY <1>1, <1>2, <1>3, <1>7, TurnStands
<1>9. fil' \in FilType
  <2>1. fil.fptr + Part \in 0 .. MaxSize
    BY <1>1, <1>2, Numbers
  <2>2. QED
    BY <1>4, <1>5, <2>1 DEF FilType, DataInv, TypeOK
<1>10. req' \in ReqType
  <2>1. req.left - Part \in Nat
    BY <1>2, Numbers
  <2>2. QED
    BY <1>6, <2>1 DEF ReqType, DataInv, TypeOK
<1>11. TypeOK'
  <2>1. \A i \in DOMAIN rbuff' : rbuff'[i] \in Bytes
    BY <1>1, <1>5, GottenTyped
  <2>2. medium' \in [Sectors -> SectorBytes]
    BY <1>6, FlushedIs, Types
  <2>3. QED
    BY <1>8, <1>9, <1>10, <2>1, <2>2, TypesAgain
<1>12. Owned'
  BY <1>4, <1>7 DEF Owned, InChain, Has
<1>13. Requested'
  <2>1. /\ req'.op = "read" /\ req'.left = req.left - Part /\ req'.n = req.n
    BY <1>1, <1>6 DEF DataInv, TypeOK
  <2>2. fil'.fptr + req'.left = fil.fptr + req.left
    BY <1>2, <1>7, <2>1, Numbers
  <2>3. QED
    BY <1>1, <1>2, <1>7, <2>1, <2>2, Numbers DEF Requested
<1>14. QED
  BY <1>8, <1>11, <1>12, <1>13 DEF DataInv

LEMMA ReadInsideKeeps ==
    ASSUME DataInv, ReadInside
    PROVE  DataInv'
<1>1. /\ req.op = "read" /\ ~AtBoundary /\ req.left > 0
      /\ ~fil.err /\ fil.fptr + req.left <= MaxSize
      /\ req.left <= req.n /\ req.n > 0 /\ fil.fptr + req.left <= fil.fsize
  BY DEF ReadInside, DataInv, Requested
<1>2. Part \in Nat \ {0} /\ Part <= req.left
  BY <1>1, PartFits
<1>3. /\ fil' = [fil EXCEPT !.fptr = fil.fptr + Part] /\ UNCHANGED <<medium, chain>>
      /\ req' = [req EXCEPT !.left = req.left - Part] /\ rbuff' = Gotten(fil.buf)
  BY DEF ReadInside, Moved
<1>4. /\ fil'.fptr = fil.fptr + Part /\ fil'.fsize = fil.fsize /\ fil'.dirty = fil.dirty
      /\ fil'.err = fil.err /\ fil'.clust = fil.clust /\ fil'.dsect = fil.dsect
  BY <1>3 DEF DataInv, TypeOK
<1>5. Chained' /\ Standing'
  BY <1>1, <1>3, <1>4, InsideStands
<1>6. fil' \in FilType
  <2>1. fil.fptr + Part \in 0 .. MaxSize
    BY <1>1, <1>2, Numbers
  <2>2. QED
    BY <1>3, <2>1 DEF FilType, DataInv, TypeOK
<1>7. req' \in ReqType
  <2>1. req.left - Part \in Nat
    BY <1>2, Numbers
  <2>2. QED
    BY <1>3, <2>1 DEF ReqType, DataInv, TypeOK
<1>8. TypeOK'
  <2>1. \A i \in DOMAIN rbuff' : rbuff'[i] \in Bytes
    BY <1>1, <1>3, Types, GottenTyped
  <2>2. QED
    BY <1>3, <1>5, <1>6, <1>7, <2>1, TypesAgain DEF DataInv, TypeOK
<1>9. Owned'
  BY <1>1, <1>3, <1>4, StaysOwned
<1>10. Requested'
  <2>1. /\ req'.op = "read" /\ req'.left = req.left - Part /\ req'.n = req.n
    BY <1>1, <1>3 DEF DataInv, TypeOK
  <2>2. fil'.fptr + req'.left = fil.fptr + req.left
    BY <1>2, <1>4, <2>1, Numbers
  <2>3. QED
    BY <1>1, <1>2, <1>4, <2>1, <2>2, Numbers DEF Requested
<1>11. QED
  BY <1>5, <1>8, <1>9, <1>10 DEF DataInv

LEMMA ReadEndsKeeps ==
    ASSUME DataInv, ReadEnds
    PROVE  DataInv'
<1>1. /\ ~fil.err /\ fil.fptr + req.left <= fil.fsize
      /\ req' = NoRequest /\ rbuff' = <<>> /\ UNCHANGED <<medium, chain, fil>>
  BY DEF ReadEnds, DataInv, Requested
<1>2. Chained' /\ Standing' /\ Owned'
  BY <1>1, StaysOwned DEF DataInv, Chained, Standing, AtBoundary, offset
<1>3. TypeOK'
  BY <1>1, <1>2, TypesAgain DEF DataInv, TypeOK, FilType, ReqType, NoRequest, Bytes
<1>4. Requested'
  BY <1>1, Numbers DEF Requested, NoRequest
<1>5. QED
  BY <1>2, <1>3, <1>4 DEF DataInv

LEMMA WriteFailsIs ==
    ASSUME DataInv, NEW c \in Clusters, ~fil.err, AtBoundary,
           c \in Followed \cup Stretched, Takes(c), WriteFails(c)
    PROVE  /\ medium' \in [Sectors -> SectorBytes]
           /\ \E buf \in SectorBytes :
                 fil' = [fil EXCEPT !.err = TRUE, !.clust = c, !.dirty = FALSE,
                                    !.buf = buf]
<1>1. cc \in Nat /\ Sect(c) \in Sectors /\ \A s \in Sectors : s \in Int
  BY RunFits, SectOwned, Sizes DEF Sectors
<1>2. medium' \in [Sectors -> SectorBytes]
  <2>1. PICK k \in 0 .. cc :
          medium' = [s \in Sectors |-> IF s - Sect(c) \in 0 .. k - 1
                                       THEN Sent(s - Sect(c)) ELSE Flushed[s]]
    BY DEF WriteFails
  <2>2. \A s \in Sectors : s - Sect(c) \in Int
    BY <1>1
  <2>3. \A s \in Sectors : Sent(s - Sect(c)) \in SectorBytes
    BY <2>2, SentTyped
  <2>4. QED
    BY <2>1, <2>3, FlushedIs
<1>3. \A i \in 0 .. cc - 1 : Sent(i) \in SectorBytes
  BY <1>1, SentTyped
<1>4. Flushed[Sect(c)] \in SectorBytes /\ fil.buf \in SectorBytes
  BY <1>1, FlushedIs, Types
<1>5. \E buf \in SectorBytes :
          fil' = [Aborted(c) EXCEPT !.dirty = FALSE, !.buf = buf]
  BY <1>3, <1>4 DEF WriteFails, Clobbered
<1>6. QED
  BY <1>2, <1>5 DEF Aborted, DataInv, TypeOK

LEMMA LongEnough ==
    ASSUME DataInv, NEW ch \in Seq(Clusters), Len(chain) <= Len(ch)
    PROVE  fil.fsize <= Len(ch) * bcs
<1>1. /\ Len(chain) \in Nat /\ Len(ch) \in Nat /\ fil.fsize \in Nat
      /\ fil.fsize <= Len(chain) * bcs
  BY Types DEF DataInv, Chained
<1>2. Len(chain) * bcs <= Len(ch) * bcs
  BY <1>1, Longer
<1>3. Len(chain) * bcs \in Int /\ Len(ch) * bcs \in Int
  BY <1>1, Sizes
<1>4. QED
  BY <1>1, <1>2, <1>3

LEMMA WriteAbortsKeeps ==
    ASSUME DataInv, WriteAborts
    PROVE  DataInv'
<1>1. /\ req.op = "write" /\ AtBoundary /\ ~fil.err /\ req.left <= req.n /\ req.n > 0
      /\ fil.fptr - Rest \in 0 .. fil.fsize /\ rbuff = <<>>
      /\ req' = [req EXCEPT !.op = "failed", !.first = 0] /\ rbuff' = <<>>
  BY DEF WriteAborts, DataInv, Requested
<1>2. \E c \in Clusters \cup {0}, dirty \in BOOLEAN, buf \in SectorBytes :
        /\ dirty => fil.dirty
        /\ fil' = [fil EXCEPT !.err = TRUE, !.clust = c, !.dirty = dirty, !.buf = buf]
        /\ medium' \in [Sectors -> SectorBytes]
        /\ chain' \in Seq(Clusters) /\ Distinct(chain')
        /\ Len(chain) <= Len(chain') /\ \A d : Has(chain, d) => Has(chain', d)
  <2>1. CASE fil' = Aborted(fil.clust) /\ UNCHANGED <<medium, chain>>
    <3>1. fil' = [fil EXCEPT !.err = TRUE, !.clust = fil.clust, !.dirty = fil.dirty,
                             !.buf = fil.buf]
      BY <2>1 DEF Aborted, DataInv, TypeOK
    <3>2. chain \in Seq(Clusters) /\ Distinct(chain) /\ Len(chain) \in Nat
      BY Types DEF DataInv, Chained
    <3>3. /\ fil.clust \in Clusters \cup {0} /\ fil.dirty \in BOOLEAN
          /\ fil.buf \in SectorBytes /\ medium' \in [Sectors -> SectorBytes]
          /\ chain' \in Seq(Clusters) /\ Distinct(chain') /\ Len(chain) <= Len(chain')
          /\ \A d : Has(chain, d) => Has(chain', d)
      BY <2>1, <3>2, Types
    <3>4. QED
      BY <3>1, <3>3
  <2>2. ASSUME NEW c \in Followed \cup Stretched, Takes(c),
               FlushFails(c) \/ WriteFails(c)
        PROVE  \E k \in Clusters \cup {0}, dirty \in BOOLEAN, buf \in SectorBytes :
                /\ dirty => fil.dirty
                /\ fil' = [fil EXCEPT !.err = TRUE, !.clust = k, !.dirty = dirty,
                                      !.buf = buf]
                /\ medium' \in [Sectors -> SectorBytes]
                /\ chain' \in Seq(Clusters) /\ Distinct(chain')
                /\ Len(chain) <= Len(chain')
                /\ \A d : Has(chain, d) => Has(chain', d)
    <3>1. c \in Clusters
      BY <1>1, <2>2, FollowedInChain DEF Stretched
    <3>2. /\ chain' \in Seq(Clusters) /\ Distinct(chain') /\ Len(chain) <= Len(chain')
          /\ \A d : Has(chain, d) => Has(chain', d)
      BY <1>1, <2>2, <3>1, Turning, StillOwned
    <3>3. CASE FlushFails(c)
      <4>1. fil' = [fil EXCEPT !.err = TRUE, !.clust = c, !.dirty = fil.dirty,
                               !.buf = fil.buf]
        BY <3>3 DEF FlushFails, Aborted, DataInv, TypeOK
      <4>2. medium' \in [Sectors -> SectorBytes]
        BY <3>3, FlushedIs, Types DEF FlushFails
      <4>3. QED
        BY <3>1, <3>2, <4>1, <4>2, Types
    <3>4. CASE WriteFails(c)
      BY <1>1, <2>2, <3>1, <3>2, <3>4, WriteFailsIs
    <3>5. QED
      BY <2>2, <3>3, <3>4
  <2>3. QED
    BY <2>1, <2>2 DEF WriteAborts
<1>3. PICK c \in Clusters \cup {0}, dirty \in BOOLEAN, buf \in SectorBytes :
        /\ dirty => fil.dirty
        /\ fil' = [fil EXCEPT !.err = TRUE, !.clust = c, !.dirty = dirty, !.buf = buf]
        /\ medium' \in [Sectors -> SectorBytes]
        /\ chain' \in Seq(Clusters) /\ Distinct(chain')
        /\ Len(chain) <= Len(chain') /\ \A d : Has(chain, d) => Has(chain', d)
  BY <1>2
<1>6. /\ Chained' /\ Standing' /\ Owned'
      /\ fil'.err /\ fil'.fptr = fil.fptr /\ fil'.fsize = fil.fsize /\ fil' \in FilType
  <2>1. fil.fsize <= Len(chain') * bcs
    BY <1>3, LongEnough
  <2>2. /\ fil'.err /\ fil'.dirty = dirty /\ fil'.dsect = fil.dsect
        /\ fil'.fptr = fil.fptr /\ fil'.fsize = fil.fsize /\ fil' \in FilType
    BY <1>3 DEF FilType, DataInv, TypeOK
  <2>3. QED
    BY <1>1, <1>3, <2>1, <2>2, StaysOwned DEF Chained, Standing
<1>7. req' \in ReqType
  BY <1>1 DEF ReqType, Bytes, DataInv, TypeOK
<1>8. TypeOK'
  BY <1>1, <1>3, <1>6, <1>7, TypesAgain
<1>9. Requested'
  <2>1. req'.op = "failed" /\ req'.left = req.left /\ req'.n = req.n
    BY <1>1 DEF DataInv, TypeOK
  <2>2. QED
    BY <1>1, <1>6, <2>1 DEF Requested, Rest
<1>10. QED
  BY <1>6, <1>8, <1>9 DEF DataInv

LEMMA ReadFailsIs ==
    ASSUME DataInv, NEW c \in Followed, ~fil.err, AtBoundary,
           ReadFails(c) \/ FlushFails(c)
    PROVE  /\ medium' \in {medium, Flushed}
           /\ \E buf \in SectorBytes, dirty \in BOOLEAN :
                 /\ dirty => fil.dirty
                 /\ fil' = [fil EXCEPT !.err = TRUE, !.clust = c, !.dirty = dirty,
                                       !.buf = buf]
<1>1. Sect(c) \in Sectors
  <2>1. c \in Clusters /\ csect \in 0 .. csize - 1
    BY FollowedInChain, RunFits
  <2>2. QED
    BY <2>1, InCluster DEF Sect
<1>2. /\ Flushed[Sect(c)] \in SectorBytes /\ fil.buf \in SectorBytes
      /\ \A s \in Sectors : medium[s] \in SectorBytes
      /\ fil.dirty \in BOOLEAN
  BY <1>1, FlushedIs, Types
<1>3. CASE FlushFails(c)
  <2>1. fil' = [fil EXCEPT !.err = TRUE, !.clust = c, !.dirty = fil.dirty,
                           !.buf = fil.buf]
    BY <1>3 DEF FlushFails, Aborted, DataInv, TypeOK
  <2>2. QED
    BY <1>2, <1>3, <2>1 DEF FlushFails
<1>4. CASE ReadFails(c)
  <2> DEFINE read == {medium[s] : s \in {x \in Sectors : InRun(x, Sect(c))}}
                         \cup (IF cc > 0 THEN {} ELSE {Flushed[Sect(c)]})
  <2>0. Clobbered(read) \subseteq SectorBytes
    BY <1>2 DEF Clobbered
  <2>1. PICK buf \in SectorBytes :
          fil' = [Aborted(c) EXCEPT !.dirty = @ /\ cc > 0, !.buf = buf]
    <3>1. \E buf \in Clobbered(read) :
              fil' = [Aborted(c) EXCEPT !.dirty = @ /\ cc > 0, !.buf = buf]
      BY <1>4 DEF ReadFails
    <3> HIDE DEF read
    <3>2. QED
      BY <2>0, <3>1
  <2>2. PICK dirty \in BOOLEAN : dirty = (fil.dirty /\ cc > 0)
    OBVIOUS
  <2>3. fil' = [fil EXCEPT !.err = TRUE, !.clust = c, !.dirty = dirty, !.buf = buf]
    BY <2>1, <2>2 DEF Aborted, DataInv, TypeOK
  <2>4. QED
    BY <1>4, <2>2, <2>3 DEF ReadFails
<1>5. QED
  BY <1>3, <1>4

LEMMA ReadAbortsKeeps ==
    ASSUME DataInv, ReadAborts
    PROVE  DataInv'
<1>1. /\ AtBoundary /\ ~fil.err
      /\ req' = NoRequest /\ rbuff' = <<>> /\ UNCHANGED chain
  BY DEF ReadAborts, DataInv, Requested
<1>2. \E c \in Clusters \cup {0}, dirty \in BOOLEAN, buf \in SectorBytes :
        /\ dirty => fil.dirty
        /\ fil' = [fil EXCEPT !.err = TRUE, !.clust = c, !.dirty = dirty, !.buf = buf]
        /\ medium' \in {medium, Flushed}
  <2>1. CASE fil' = Aborted(fil.clust) /\ UNCHANGED medium
    <3>1. fil' = [fil EXCEPT !.err = TRUE, !.clust = fil.clust, !.dirty = fil.dirty,
                             !.buf = fil.buf]
      BY <2>1 DEF Aborted, DataInv, TypeOK
    <3>2. /\ fil.clust \in Clusters \cup {0} /\ fil.dirty \in BOOLEAN
          /\ fil.buf \in SectorBytes
      BY Types
    <3>3. QED
      BY <2>1, <3>1, <3>2
  <2>2. ASSUME NEW c \in Followed, ReadFails(c) \/ FlushFails(c)
        PROVE  \E k \in Clusters \cup {0}, dirty \in BOOLEAN, buf \in SectorBytes :
                /\ dirty => fil.dirty
                /\ fil' = [fil EXCEPT !.err = TRUE, !.clust = k, !.dirty = dirty,
                                      !.buf = buf]
                /\ medium' \in {medium, Flushed}
    BY <1>1, <2>2, FollowedInChain, ReadFailsIs
  <2>3. QED
    BY <2>1, <2>2 DEF ReadAborts
<1>3. PICK c \in Clusters \cup {0}, dirty \in BOOLEAN, buf \in SectorBytes :
        /\ dirty => fil.dirty
        /\ fil' = [fil EXCEPT !.err = TRUE, !.clust = c, !.dirty = dirty, !.buf = buf]
        /\ medium' \in {medium, Flushed}
  BY <1>2
<1>4. /\ fil'.err /\ fil'.dirty = dirty /\ fil'.dsect = fil.dsect
      /\ fil'.fptr = fil.fptr /\ fil'.fsize = fil.fsize /\ fil' \in FilType
  BY <1>3 DEF FilType, DataInv, TypeOK
<1>5. medium' \in [Sectors -> SectorBytes]
  BY <1>3, FlushedIs, Types
<1>6. Chained'
  BY <1>1, <1>4 DEF Chained, DataInv
<1>7. Standing' /\ Owned'
  BY <1>1, <1>3, <1>4, StaysOwned DEF Standing
<1>8. req' \in ReqType
  BY <1>1 DEF ReqType, NoRequest, Bytes
<1>9. TypeOK'
  BY <1>1, <1>4, <1>5, <1>6, <1>8, TypesAgain
<1>10. Requested'
  BY <1>1, <1>4 DEF Requested, NoRequest
<1>11. QED
  BY <1>6, <1>7, <1>9, <1>10 DEF DataInv

(* The place of the current cluster in the chain.                          *)
LEMMA PositionIs ==
    ASSUME DataInv, ~fil.err, fil.fptr > 0
    PROVE  /\ Position(fil.clust) = ClusterOf(fil.fptr - 1)
           /\ ClusterOf(fil.fptr - 1) \in 1 .. Len(chain)
<1>1. /\ ClusterOf(fil.fptr - 1) \in 1 .. Len(chain)
      /\ fil.clust = chain[ClusterOf(fil.fptr - 1)]
  BY DEF DataInv, Standing
<1>2. DOMAIN chain = 1 .. Len(chain) /\ Distinct(chain)
  BY Types DEF DataInv, Chained
<1>3. \A i \in DOMAIN chain : chain[i] = fil.clust <=> i = ClusterOf(fil.fptr - 1)
  BY <1>1, <1>2 DEF Distinct
<1>4. QED
  BY <1>1, <1>2, <1>3 DEF Position

LEMMA KeptIs ==
    ASSUME DataInv, ~fil.err
    PROVE  /\ Kept \in Seq(Clusters) /\ Distinct(Kept) /\ Len(Kept) \in Nat
           /\ Len(Kept) <= Len(chain)
           /\ \A i \in 1 .. Len(Kept) : Kept[i] = chain[i]
           /\ fil.fptr <= Len(Kept) * bcs
           /\ fil.fptr > 0 => Len(Kept) = ClusterOf(fil.fptr - 1)
<1>1. /\ chain \in Seq(Clusters) /\ Len(chain) \in Nat /\ Distinct(chain)
      /\ fil.fptr \in Nat
  BY Types DEF DataInv, Chained
<1>2. CASE fil.fptr = 0
  <2>1. Kept = <<>>
    BY <1>2 DEF Kept
  <2>2. QED
    BY <1>1, <1>2, <2>1, Sizes DEF Distinct
<1>3. CASE fil.fptr > 0
  <2> DEFINE p == ClusterOf(fil.fptr - 1)
  <2>1. p \in 1 .. Len(chain) /\ Kept = SubSeq(chain, 1, p)
    BY <1>3, PositionIs DEF Kept
  <2>2. /\ Kept \in Seq(Clusters) /\ Len(Kept) = p
        /\ \A i \in 1 .. p : Kept[i] = chain[i]
    <3> HIDE DEF p
    <3>1. \A i \in 1 .. p : chain[i] \in Clusters
      BY <1>1, <2>1
    <3>2. QED
      BY <1>1, <2>1, <3>1, SubSeqProperties
  <2>3. fil.fptr - 1 < p * bcs
    <3>1. fil.fptr - 1 \in Nat /\ p \in Nat /\ p <= p
      BY <1>1, <1>3, <2>1
    <3>2. QED
      BY <3>1, Inside, Zenon
  <2> HIDE DEF p
  <2>4. fil.fptr <= p * bcs
    BY <1>1, <2>1, <2>3, Sizes
  <2>5. Distinct(Kept)
    BY <1>1, <2>1, <2>2 DEF Distinct
  <2>6. QED
    BY <1>1, <2>1, <2>2, <2>4, <2>5 DEF p
<1>4. QED
  BY <1>1, <1>2, <1>3

(* A chain that a seek has stretched.                                      *)
LEMMA StretchIs ==
    ASSUME DataInv, NEW n \in Nat, NEW ch \in Stretch(n)
    PROVE  /\ ch \in Seq(Clusters) /\ Distinct(ch)
           /\ Len(ch) \in Nat /\ Len(chain) <= Len(ch)
           /\ \A i \in 1 .. Len(chain) : ch[i] = chain[i]
<1>1. chain \in Seq(Clusters) /\ Len(chain) \in Nat /\ DOMAIN chain = 1 .. Len(chain)
  BY Types
<1>2. PICK m \in Len(chain) .. (IF n > Len(chain) THEN n ELSE Len(chain)) :
          /\ ch \in [1 .. m -> Clusters]
          /\ \A i \in DOMAIN chain : ch[i] = chain[i]
          /\ \A i, j \in DOMAIN ch : ch[i] = ch[j] => i = j
  BY DEF Stretch
<1>3. m \in Nat /\ Len(chain) <= m
  BY <1>1, <1>2
<1>4. ch \in Seq(Clusters) /\ Len(ch) = m /\ DOMAIN ch = 1 .. m
  BY <1>2, <1>3
<1>5. QED
  BY <1>1, <1>2, <1>3, <1>4 DEF Distinct

(* The turns of the loop in f_lseek lead to the cluster of the byte before *)
(* the new offset.                                                         *)
LEMMA HopIs ==
    ASSUME DataInv, ~fil.err, NEW ofs \in Nat \ {0}
    PROVE  Hop(ofs) = ClusterOf(ofs - 1) /\ ClusterOf(ofs - 1) \in Nat \ {0}
<1> DEFINE a == (ofs - 1) \div bcs
           b == (fil.fptr - 1) \div bcs
<1>1. ofs - 1 \in Nat /\ fil.fptr \in Nat
  BY Numbers
<1>2. a \in Nat /\ ClusterOf(ofs - 1) = a + 1
  BY <1>1, Division, Sizes, Zenon DEF ClusterOf
<1>3. Hop(ofs) = a + (IF Forward(ofs) THEN Position(fil.clust) - b ELSE 1)
  BY DEF Hop
<1>4. CASE Forward(ofs)
  <2>1. fil.fptr > 0 /\ fil.fptr - 1 \in Nat
    BY <1>1, <1>4 DEF Forward
  <2>2. Position(fil.clust) = b + 1
    BY <2>1, PositionIs, Zenon DEF ClusterOf
  <2>3. b \in Nat
    BY <2>1, Division, Sizes, Zenon
  <2> HIDE DEF a, b
  <2>4. QED
    BY <1>2, <1>3, <1>4, <2>2, <2>3
<1>5. CASE ~Forward(ofs)
  <2> HIDE DEF a, b
  <2>1. QED
    BY <1>2, <1>3, <1>5
<1>6. QED
  BY <1>4, <1>5

(* The end of a cluster.                                                   *)
LEMMA ClusterEnd ==
    ASSUME NEW k \in Nat \ {0}
    PROVE  /\ k * bcs \in Nat \ {0} /\ (k * bcs) % SS = 0
           /\ ClusterOf(k * bcs - 1) = k
<1>1. k * bcs \in Nat \ {0}
  BY Sizes
<1>2. (k * bcs) % SS = 0
  <2>1. k * bcs = SS * (csize * k) + 0 /\ csize * k \in Int /\ 0 \in 0 .. SS - 1
    BY Sizes DEF bcs
  <2>2. (SS * (csize * k) + 0) % SS = 0
    BY <2>1, Quotient, Sizes, Zenon
  <2>3. QED
    BY <2>1, <2>2, Zenon
<1>3. ClusterOf(k * bcs - 1) = k
  <2>1. k * bcs - 1 = bcs * (k - 1) + (bcs - 1) /\ k - 1 \in Int
        /\ bcs - 1 \in 0 .. bcs - 1
    BY Sizes
  <2>2. (bcs * (k - 1) + (bcs - 1)) \div bcs = k - 1
    BY <2>1, Quotient, Sizes, Zenon
  <2>3. ClusterOf(k * bcs - 1) = k - 1 + 1
    BY <2>1, <2>2, Zenon DEF ClusterOf
  <2>4. QED
    BY <2>3
<1>4. QED
  BY <1>1, <1>2, <1>3

(* f_lseek goes to offset p in cluster k, and fills the buffer or does not. *)
SeekTo(p, k, fills) ==
    /\ p > 0 => /\ ClusterOf(p - 1) \in 1 .. Len(chain')
                /\ k = chain'[ClusterOf(p - 1)]
    /\ p % SS # 0 => ClusterOf(p) \in 1 .. Len(chain')
    /\ fills <=> p % SS # 0 /\ Sec(chain', p) # fil.dsect
    /\ medium' = IF fills THEN Flushed ELSE medium
    /\ fil' = [fil EXCEPT !.fptr = p, !.clust = k,
                 !.dirty = @ /\ ~fills,
                 !.dsect = IF fills THEN Sec(chain', p) ELSE @,
                 !.buf = IF fills THEN Flushed[Sec(chain', p)] ELSE @,
                 !.fsize = IF p > @ THEN p ELSE @,
                 !.written = @ \/ p > fil.fsize]

(* What f_lseek does.                                                      *)
LEMMA SeekIs ==
    ASSUME DataInv, NEW ofs \in 0 .. MaxSize, Seek(ofs)
    PROVE  /\ req.op = "none" /\ ~fil.err /\ UNCHANGED <<req, rbuff>>
           /\ chain' \in Seq(Clusters) /\ Distinct(chain')
           /\ Len(chain') \in Nat /\ Len(chain) <= Len(chain')
           /\ \A i \in 1 .. Len(chain) : chain'[i] = chain[i]
           /\ \E p \in 0 .. MaxSize, k \in Clusters \cup {0}, fills \in BOOLEAN :
                 SeekTo(p, k, fills)
<1> DEFINE hop == IF ofs = 0 THEN 0 ELSE Hop(ofs)
           reached == IF hop <= Len(chain') THEN hop ELSE Len(chain')
           p == IF reached < hop THEN reached * bcs ELSE ofs
           k == IF hop = 0 THEN fil.clust
                ELSE IF reached = 0 THEN 0 ELSE chain'[reached]
           nsect == k * csize + ((p \div SS) % csize)
           fills == p % SS # 0 /\ nsect # fil.dsect
<1>1. /\ req.op = "none" /\ ~fil.err /\ UNCHANGED <<req, rbuff>>
      /\ chain' \in Stretch(hop)
      /\ medium' = IF fills THEN Flushed ELSE medium
      /\ fil' = [fil EXCEPT !.fptr = p, !.clust = k,
                        !.dirty = @ /\ ~fills,
                        !.dsect = IF fills THEN nsect ELSE @,
                        !.buf = IF fills THEN Flushed[nsect] ELSE @,
                        !.fsize = IF p > @ THEN p ELSE @,
                        !.written = @ \/ p > fil.fsize]
  BY DEF Seek
<1>2. ofs \in Nat /\ ofs <= MaxSize /\ MaxSize \in Nat
  BY Numbers
<1>3. hop \in Nat /\ (ofs > 0 => hop = ClusterOf(ofs - 1) /\ hop > 0)
  BY <1>1, <1>2, HopIs
<1>4. /\ chain' \in Seq(Clusters) /\ Distinct(chain')
      /\ Len(chain') \in Nat /\ Len(chain) <= Len(chain')
      /\ \A i \in 1 .. Len(chain) : chain'[i] = chain[i]
  BY <1>1, <1>3, StretchIs
<1>5. reached \in Nat /\ reached <= Len(chain') /\ reached <= hop
      /\ (reached < hop => reached = Len(chain')) /\ (ofs = 0 => hop = 0)
  BY <1>3, <1>4
<1>6. /\ p \in 0 .. MaxSize
      /\ p > 0 => /\ ClusterOf(p - 1) = reached /\ reached > 0
      /\ p % SS # 0 => p > 0 /\ reached = hop
  <2>1. CASE reached < hop
    <3>1. p = reached * bcs /\ p \in Nat
      BY <1>5, <2>1, Sizes
    <3>2. ofs > 0
      BY <1>2, <1>5, <2>1
    <3>3. ~(ofs - 1 < reached * bcs)
      <4>1. ofs - 1 \in Nat /\ ~(ClusterOf(ofs - 1) <= reached)
        BY <1>2, <1>3, <1>5, <2>1, <3>2
      <4>2. QED
        BY <1>5, <4>1, Inside
    <3>4. CASE reached = 0
      <4>1. p = 0
        BY <3>1, <3>4, Sizes
      <4>2. QED
        BY <1>2, <4>1, Sizes
    <3>5. CASE reached > 0
      <4>1. /\ (reached * bcs) % SS = 0 /\ ClusterOf(reached * bcs - 1) = reached
        BY <1>5, <3>5, ClusterEnd
      <4> HIDE DEF reached, hop
      <4>2. p % SS = 0 /\ ClusterOf(p - 1) = reached
        BY <3>1, <4>1, Zenon
      <4>3. p \in 0 .. MaxSize
        BY <1>2, <3>1, <3>3
      <4>4. QED
        BY <3>5, <4>2, <4>3
    <3>6. QED
      BY <1>5, <3>4, <3>5
  <2>2. CASE ~(reached < hop)
    <3>1. p = ofs /\ reached = hop
      BY <1>3, <1>5, <2>2
    <3>2. 0 % SS = 0
      BY Sizes
    <3> HIDE DEF p, reached, hop
    <3>3. QED
      BY <1>2, <1>3, <3>1, <3>2
  <2>3. QED
    BY <2>1, <2>2
<1> HIDE DEF hop, reached, p
<1>7. p > 0 => /\ ClusterOf(p - 1) \in 1 .. Len(chain')
               /\ k = chain'[ClusterOf(p - 1)]
  BY <1>3, <1>5, <1>6
<1>8. k \in Clusters \cup {0}
  BY <1>4, <1>5, Types
<1>9. ASSUME p % SS # 0
      PROVE  ClusterOf(p) \in 1 .. Len(chain') /\ nsect = Sec(chain', p)
  <2>1. p \in Nat \ {0} /\ k = chain'[ClusterOf(p - 1)]
        /\ ClusterOf(p - 1) \in 1 .. Len(chain')
    BY <1>2, <1>6, <1>7, <1>9
  <2>2. ClusterOf(p) = ClusterOf(p - 1)
    BY <1>9, <2>1, ByteBefore
  <2> HIDE DEF k
  <2>3. QED
    BY <2>1, <2>2, Zenon DEF Sec, SectorOf
<1> HIDE DEF k, nsect
<1>10. fills \in BOOLEAN /\ (fills <=> p % SS # 0 /\ Sec(chain', p) # fil.dsect)
  BY <1>9
<1>11. fills => nsect = Sec(chain', p)
  BY <1>9
<1> HIDE DEF fills
<1>12. fil' = [fil EXCEPT !.fptr = p, !.clust = k,
                        !.dirty = @ /\ ~fills,
                        !.dsect = IF fills THEN Sec(chain', p) ELSE @,
                        !.buf = IF fills THEN Flushed[Sec(chain', p)] ELSE @,
                        !.fsize = IF p > @ THEN p ELSE @,
                        !.written = @ \/ p > fil.fsize]
  BY <1>1, <1>11
<1>13. SeekTo(p, k, fills)
  BY <1>1, <1>7, <1>9, <1>10, <1>12 DEF SeekTo
<1>14. p \in 0 .. MaxSize /\ k \in Clusters \cup {0} /\ fills \in BOOLEAN
  BY <1>6, <1>8, <1>10
<1>15. QED
  BY <1>1, <1>4, <1>13, <1>14, Zenon

LEMMA SeekKeeps ==
    ASSUME DataInv, NEW ofs \in 0 .. MaxSize, Seek(ofs)
    PROVE  DataInv'
<1>1. /\ req.op = "none" /\ ~fil.err /\ UNCHANGED <<req, rbuff>>
      /\ chain' \in Seq(Clusters) /\ Distinct(chain')
      /\ Len(chain') \in Nat /\ Len(chain) <= Len(chain')
      /\ \A i \in 1 .. Len(chain) : chain'[i] = chain[i]
  BY SeekIs
<1>2. PICK p \in 0 .. MaxSize, k \in Clusters \cup {0}, fills \in BOOLEAN :
          SeekTo(p, k, fills)
  BY SeekIs
<1> DEFINE z == IF p > fil.fsize THEN p ELSE fil.fsize
           nsect == Sec(chain', p)
<1>3. /\ p > 0 => /\ ClusterOf(p - 1) \in 1 .. Len(chain')
                  /\ k = chain'[ClusterOf(p - 1)]
      /\ p % SS # 0 => ClusterOf(p) \in 1 .. Len(chain')
      /\ fills <=> p % SS # 0 /\ nsect # fil.dsect
      /\ medium' = IF fills THEN Flushed ELSE medium
      /\ p \in Nat /\ p <= MaxSize
  BY <1>2, Numbers DEF SeekTo
<1>4. p % SS # 0 => /\ nsect \in Sectors /\ nsect # 0
                    /\ nsect \div csize = chain'[ClusterOf(p)]
                    /\ Has(chain', nsect \div csize)
  <2> SUFFICES ASSUME p % SS # 0
               PROVE  /\ nsect \in Sectors /\ nsect # 0
                      /\ nsect \div csize = chain'[ClusterOf(p)]
                      /\ Has(chain', nsect \div csize)
    OBVIOUS
  <2>1. ClusterOf(p) \in 1 .. Len(chain') /\ ClusterOf(p) <= Len(chain')
    BY <1>1, <1>3
  <2>2. nsect \in Sectors /\ nsect \div csize = chain'[ClusterOf(p)]
    BY <1>1, <1>3, <2>1, SecFacts, Zenon
  <2>3. ClusterOf(p) \in DOMAIN chain' /\ 0 \notin Sectors
    BY <1>1, <2>1, Types
  <2>4. QED
    BY <2>2, <2>3, Zenon DEF Has
<1> HIDE DEF nsect, z
<1>5. /\ fil'.fptr = p /\ fil'.clust = k /\ fil'.err = fil.err /\ fil'.fsize = z
      /\ fil'.dsect = IF fills THEN nsect ELSE fil.dsect
      /\ fil'.dirty = (fil.dirty /\ ~fills)
  BY <1>2 DEF SeekTo, DataInv, TypeOK, nsect, z
<1>6. z \in 0 .. MaxSize /\ p <= z /\ (z = p \/ z = fil.fsize) /\ fil.fsize <= z
  BY <1>3, Numbers DEF z
<1>7. p <= Len(chain') * bcs
  <2>1. CASE p = 0
    BY <1>1, <2>1, Sizes
  <2>2. CASE p > 0
    <3>1. p - 1 \in Nat /\ ClusterOf(p - 1) <= Len(chain')
      BY <1>1, <1>3, <2>2
    <3>2. p - 1 < Len(chain') * bcs
      BY <1>1, <3>1, Inside
    <3>3. Len(chain') * bcs \in Nat
      BY <1>1, Sizes
    <3>4. QED
      BY <1>3, <3>2, <3>3
  <2>3. QED
    BY <1>3, <2>1, <2>2
<1>8. Chained'
  <2>1. fil.fsize <= Len(chain') * bcs
    BY <1>1, LongEnough
  <2>2. QED
    BY <1>1, <1>5, <1>6, <1>7, <2>1 DEF Chained
<1>9. fil' \in FilType
  <2>1. fil.buf \in SectorBytes /\ fills => Flushed[nsect] \in SectorBytes
    BY <1>3, <1>4, FlushedIs, Types
  <2>2. fil \in FilType
    BY DEF DataInv, TypeOK, FilType
  <2>3. fil' = [fil EXCEPT !.fptr = p, !.clust = k, !.dirty = fil'.dirty,
                           !.dsect = fil'.dsect, !.buf = fil'.buf,
                           !.fsize = z, !.written = fil'.written]
    BY <1>2, <2>2 DEF SeekTo, FilType, z
  <2>4. /\ fil'.buf \in SectorBytes /\ fil'.dsect \in Sectors \cup {0}
        /\ fil'.dirty \in BOOLEAN /\ fil'.written \in BOOLEAN
    BY <1>2, <1>3, <1>4, <1>5, <2>2, FlushedIs DEF SeekTo, FilType, nsect
  <2> HIDE DEF SeekTo
  <2>5. QED
    BY <1>6, <2>2, <2>3, <2>4 DEF FilType
<1>10. Standing'
  <2>1. fil'.fptr % SS # 0 => fil'.dsect = Sec(chain', fil'.fptr)
    BY <1>3, <1>5 DEF nsect
  <2>2. QED
    BY <1>3, <1>5, <2>1 DEF Standing, AtBoundary, offset
<1>11. Owned'
  <2>1. ASSUME fil'.dirty
        PROVE  fil'.dsect # 0 /\ Has(chain', fil'.dsect \div csize)
    <3>1. fil.dirty /\ ~fills /\ fil'.dsect = fil.dsect
      BY <1>5, <2>1
    <3>2. fil.dsect # 0 /\ Has(chain, fil.dsect \div csize)
      BY <1>1, <3>1 DEF DataInv, Owned, TruncateFailed, InChain, Has
    <3>3. /\ DOMAIN chain = 1 .. Len(chain) /\ DOMAIN chain' = 1 .. Len(chain')
          /\ Len(chain) \in Nat
      BY <1>1, Types
    <3>4. Has(chain', fil.dsect \div csize)
      BY <1>1, <3>2, <3>3 DEF Has
    <3>5. QED
      BY <3>1, <3>2, <3>4, Zenon
  <2>2. QED
    BY <2>1 DEF Owned, InChain, Has
<1>12. TypeOK'
  <2>1. medium' \in [Sectors -> SectorBytes]
    BY <1>3, FlushedIs, Types
  <2>2. QED
    BY <1>1, <1>8, <1>9, <2>1, TypesAgain DEF DataInv, TypeOK, ReqType
<1>13. Requested'
  BY <1>1, <1>5, <1>6 DEF DataInv, Requested
<1>14. QED
  BY <1>8, <1>10, <1>11, <1>12, <1>13 DEF DataInv

LEMMA SeekAbortsKeeps ==
    ASSUME DataInv, SeekAborts
    PROVE  DataInv'
<1>1. /\ req.op = "none" /\ medium' \in {medium, Flushed} /\ ~fil.err
      /\ UNCHANGED <<chain, req, rbuff>>
  BY DEF SeekAborts
<1>2. PICK dirty \in BOOLEAN :
          /\ dirty => fil.dirty
          /\ fil' = [fil EXCEPT !.err = TRUE, !.fptr = 0, !.dirty = dirty]
  BY DEF SeekAborts
<1>3. /\ fil'.err /\ fil'.fptr = 0 /\ fil'.dirty = dirty /\ fil'.dsect = fil.dsect
      /\ fil'.fsize = fil.fsize /\ fil' \in FilType
  <2>1. 0 \in 0 .. MaxSize
    BY Numbers
  <2>2. fil \in FilType
    BY DEF DataInv, TypeOK, FilType
  <2>3. QED
    BY <1>2, <2>1, <2>2 DEF FilType
<1>4. Chained' /\ Standing' /\ Owned'
  BY <1>1, <1>2, <1>3, StaysOwned DEF DataInv, Chained, Standing
<1>5. TypeOK'
  <2>1. medium' \in [Sectors -> SectorBytes]
    BY <1>1, FlushedIs, Types
  <2>2. QED
    BY <1>1, <1>3, <1>4, <2>1, TypesAgain DEF DataInv, TypeOK, ReqType
<1>6. Requested'
  BY <1>1, <1>3, Numbers DEF DataInv, Requested
<1>7. QED
  BY <1>4, <1>5, <1>6 DEF DataInv

LEMMA TruncateKeeps ==
    ASSUME DataInv, Truncate
    PROVE  DataInv'
<1>1. /\ req.op = "none" /\ ~fil.err /\ fil.fsize > fil.fptr
      /\ UNCHANGED <<req, rbuff>> /\ chain' = Kept /\ medium' = Flushed
      /\ fil' = [fil EXCEPT !.fsize = fil.fptr, !.written = TRUE, !.dirty = FALSE]
  BY DEF Truncate, StartTruncate, Shortened
<1>2. /\ fil'.fptr = fil.fptr /\ fil'.fsize = fil.fptr /\ fil'.err = fil.err
      /\ fil'.clust = fil.clust /\ fil'.dsect = fil.dsect /\ ~fil'.dirty
      /\ fil' \in FilType
  BY <1>1 DEF FilType, DataInv, TypeOK
<1>3. Chained'
  BY <1>1, <1>2, KeptIs DEF Chained
<1>4. Standing'
  <2>1. ASSUME fil.fptr > 0
        PROVE  /\ ClusterOf(fil.fptr - 1) \in 1 .. Len(chain')
               /\ fil.clust = chain'[ClusterOf(fil.fptr - 1)]
    <3>1. Len(Kept) = ClusterOf(fil.fptr - 1) /\ ClusterOf(fil.fptr - 1) \in 1 .. Len(chain)
      BY <1>1, <2>1, KeptIs, PositionIs
    <3>2. fil.clust = chain[ClusterOf(fil.fptr - 1)]
      BY <1>1, <2>1 DEF DataInv, Standing
    <3>3. \A i \in 1 .. Len(Kept) : Kept[i] = chain[i]
      BY <1>1, KeptIs
    <3>4. QED
      BY <1>1, <3>1, <3>2, <3>3
  <2>2. ASSUME ~AtBoundary
        PROVE  fil.dsect = Sec(chain', fil.fptr)
    <3>1. fil.fptr % SS # 0 /\ fil.fptr # 0 /\ fil.fptr \in Nat
      BY <2>2, Sizes, Numbers DEF AtBoundary, offset
    <3>2. ClusterOf(fil.fptr - 1) = ClusterOf(fil.fptr)
      BY <3>1, ByteBefore
    <3>3. chain'[ClusterOf(fil.fptr)] = chain[ClusterOf(fil.fptr)]
      <4>1. fil.clust = chain[ClusterOf(fil.fptr - 1)]
        BY <1>1, <3>1 DEF DataInv, Standing
      <4>2. QED
        BY <2>1, <3>1, <3>2, <4>1
    <3>4. fil.dsect = Sec(chain, fil.fptr)
      BY <1>1, <2>2 DEF DataInv, Standing
    <3>5. QED
      BY <3>3, <3>4, Zenon DEF Sec
  <2>3. QED
    BY <1>2, <2>1, <2>2 DEF Standing, AtBoundary, offset
<1>5. Owned'
  BY <1>2 DEF Owned
<1>6. TypeOK'
  <2>1. medium' \in [Sectors -> SectorBytes]
    BY <1>1, FlushedIs
  <2>2. QED
    BY <1>1, <1>2, <1>3, <2>1, TypesAgain DEF DataInv, TypeOK, ReqType
<1>7. Requested'
  BY <1>1, <1>2, Numbers DEF DataInv, Requested
<1>8. QED
  BY <1>3, <1>4, <1>5, <1>6, <1>7 DEF DataInv

LEMMA TruncateAbortsKeeps ==
    ASSUME DataInv, TruncateAborts
    PROVE  DataInv'
<1>1. /\ req.op = "none" /\ ~fil.err /\ fil.fsize > fil.fptr
      /\ UNCHANGED <<req, rbuff>> /\ chain' \in {Kept, chain}
      /\ medium' \in {medium, Flushed}
      /\ fil' = [fil EXCEPT !.fsize = fil.fptr, !.written = TRUE, !.err = TRUE]
  BY DEF TruncateAborts, StartTruncate, Shortened
<1>2. /\ fil'.fptr = fil.fptr /\ fil'.fsize = fil.fptr /\ fil'.err /\ fil'.written
      /\ fil'.dirty = fil.dirty /\ fil'.dsect = fil.dsect /\ fil' \in FilType
  BY <1>1 DEF FilType, DataInv, TypeOK
<1>3. Chained'
  BY <1>1, <1>2, KeptIs, OffsetInside DEF DataInv, Chained
<1>4. Standing' /\ Owned'
  BY <1>1, <1>2 DEF DataInv, Standing, Owned, TruncateFailed
<1>5. TypeOK'
  <2>1. medium' \in [Sectors -> SectorBytes]
    BY <1>1, FlushedIs, Types
  <2>2. QED
    BY <1>1, <1>2, <1>3, <2>1, TypesAgain DEF DataInv, TypeOK, ReqType
<1>6. Requested'
  BY <1>1, <1>2, Numbers DEF DataInv, Requested
<1>7. QED
  BY <1>3, <1>4, <1>5, <1>6 DEF DataInv

LEMMA SyncKeeps ==
    ASSUME DataInv, Sync
    PROVE  DataInv'
<1>1. /\ UNCHANGED <<chain, req, rbuff>> /\ medium' = Flushed
      /\ fil' = [fil EXCEPT !.dirty = FALSE, !.written = FALSE]
  BY DEF Sync
<1>2. /\ fil'.fptr = fil.fptr /\ fil'.fsize = fil.fsize /\ fil'.err = fil.err
      /\ fil'.clust = fil.clust /\ fil'.dsect = fil.dsect /\ ~fil'.dirty
      /\ fil' \in FilType
  BY <1>1 DEF FilType, DataInv, TypeOK
<1>3. Chained' /\ Standing' /\ Owned'
  BY <1>1, <1>2 DEF DataInv, Chained, Standing, Owned, AtBoundary, offset
<1>4. TypeOK'
  <2>1. medium' \in [Sectors -> SectorBytes]
    BY <1>1, FlushedIs
  <2>2. QED
    BY <1>1, <1>2, <1>3, <2>1, TypesAgain DEF DataInv, TypeOK, ReqType
<1>5. Requested'
  BY <1>1, <1>2 DEF DataInv, Requested, Rest
<1>6. QED
  BY <1>3, <1>4, <1>5 DEF DataInv

LEMMA SyncFailsKeeps ==
    ASSUME DataInv, SyncFails
    PROVE  DataInv'
<1>1. UNCHANGED <<chain, fil, req, rbuff>> /\ medium' \in {medium, Flushed}
  BY DEF SyncFails
<1>2. Chained' /\ Standing' /\ Owned' /\ Requested'
  BY <1>1 DEF DataInv, Chained, Standing, Owned, TruncateFailed, Requested,
              AtBoundary, offset, InChain, Rest
<1>3. TypeOK'
  <2>1. medium' \in [Sectors -> SectorBytes]
    BY <1>1, FlushedIs, Types
  <2>2. QED
    BY <1>1, <2>1 DEF DataInv, TypeOK
<1>4. QED
  BY <1>2, <1>3 DEF DataInv

LEMMA OpenedIs ==
    ASSUME NEW z \in 0 .. MaxSize
    PROVE  /\ Opened(z) \in FilType /\ ~Opened(z).err /\ ~Opened(z).dirty
           /\ Opened(z).fptr = 0 /\ Opened(z).fsize = z /\ Opened(z).dsect = 0
           /\ ~Opened(z).written
           /\ NoRequest \in ReqType /\ NoRequest.op = "none"
           /\ 0 % SS = 0
<1>1. NoBytes \in SectorBytes
  BY DEF NoBytes, SectorBytes, Bytes
<1>2. 0 \in 0 .. MaxSize /\ 0 % SS = 0
  BY Sizes
<1>3. QED
  BY <1>1, <1>2 DEF Opened, FilType, NoRequest, ReqType, Bytes

LEMMA ReopenKeeps ==
    ASSUME DataInv, Reopen
    PROVE  DataInv'
<1>1. /\ chain' = (IF fil.fsize = 0 THEN <<>> ELSE chain)
      /\ fil' = Opened(fil.fsize) /\ req' = NoRequest /\ rbuff' = <<>>
      /\ UNCHANGED medium
  BY DEF Reopen
<1>2. /\ fil' \in FilType /\ ~fil'.err /\ ~fil'.dirty
      /\ fil'.fptr = 0 /\ fil'.fsize = fil.fsize
      /\ req' \in ReqType /\ req'.op = "none" /\ 0 % SS = 0 /\ 0 <= fil.fsize
  BY <1>1, OpenedIs, Types
<1>3. Chained'
  <2>1. CASE fil.fsize = 0
    <3>1. chain' = <<>>
      BY <1>1, <2>1
    <3>2. <<>> \in Seq(Clusters) /\ Len(<<>>) = 0 /\ 0 * bcs = 0
      BY Sizes
    <3>3. QED
      BY <1>2, <2>1, <3>1, <3>2 DEF Chained, Distinct
  <2>2. CASE fil.fsize # 0
    BY <1>1, <1>2, <2>2 DEF DataInv, Chained
  <2>3. QED
    BY <2>1, <2>2
<1>4. Standing' /\ Owned'
  BY <1>2 DEF Standing, Owned, AtBoundary, offset
<1>5. TypeOK'
  BY <1>1, <1>2, <1>3, TypesAgain DEF DataInv, TypeOK
<1>6. Requested'
  BY <1>1, <1>2 DEF Requested
<1>7. QED
  BY <1>3, <1>4, <1>5, <1>6 DEF DataInv

LEMMA DataInitially == Init => DataInv
<1> SUFFICES ASSUME Init PROVE DataInv
  OBVIOUS
<1>1. /\ fil \in FilType /\ ~fil.err /\ ~fil.dirty
      /\ fil.fptr = 0 /\ fil.fsize = 0
      /\ req \in ReqType /\ req.op = "none" /\ 0 % SS = 0
  BY OpenedIs, Sizes DEF Init
<1>2. chain = <<>> /\ rbuff = <<>> /\ <<>> \in Seq(Clusters) /\ Len(<<>>) = 0
  BY DEF Init
<1>3. Chained
  <2>1. 0 <= 0 * bcs
    BY Sizes
  <2>2. QED
    BY <1>1, <1>2, <2>1 DEF Chained, Distinct
<1>4. Standing /\ Owned /\ Requested
  BY <1>1, <1>2 DEF Standing, Owned, AtBoundary, offset, Requested
<1>5. TypeOK
  <2>1. medium \in [Sectors -> SectorBytes]
    BY DEF Init, NoBytes, SectorBytes, Bytes
  <2>2. Len(chain) <= NumClusters /\ DOMAIN chain = {} /\ DOMAIN rbuff = {}
    BY <1>2, Sizes
  <2>3. QED
    BY <1>1, <2>1, <2>2 DEF TypeOK, FilType, ReqType
<1>6. QED
  BY <1>3, <1>4, <1>5 DEF DataInv

LEMMA DataStays ==
    ASSUME DataInv, UNCHANGED vars
    PROVE  DataInv'
BY DEF DataInv, vars, TypeOK, Chained, Standing, Owned, TruncateFailed,
       Requested, AtBoundary, offset, InChain, Rest

LEMMA DataStep ==
    ASSUME DataInv, [Next]_vars
    PROVE  DataInv'
<1>1. ASSUME Writes PROVE DataInv'
  <2>1. ASSUME NEW n \in Lengths, NEW first \in Bytes, NEW aligned \in Aligned,
               StartWrite(n, first, aligned)
        PROVE  DataInv'
    BY <2>1, StartsKeeps DEF StartWrite
  <2>2. QED
    BY <1>1, <2>1, WriteDirectKeeps, WriteSectorKeeps, WriteInsideKeeps,
       WriteEndsKeeps, WriteAbortsKeeps DEF Writes
<1>2. ASSUME Reads PROVE DataInv'
  <2>1. ASSUME NEW n \in Lengths, NEW aligned \in Aligned, StartRead(n, aligned)
        PROVE  DataInv'
    <3>1. 0 \in Bytes
      BY DEF Bytes
    <3>2. QED
      BY <2>1, <3>1, StartsKeeps DEF StartRead
  <2>2. QED
    BY <1>2, <2>1, ReadDirectKeeps, ReadSectorKeeps, ReadInsideKeeps,
       ReadEndsKeeps, ReadAbortsKeeps DEF Reads
<1>3. QED
  BY <1>1, <1>2, SeekKeeps, SeekAbortsKeeps, TruncateKeeps, TruncateAbortsKeeps,
     SyncKeeps, SyncFailsKeeps, ReopenKeeps, DataStays DEF Next

(* Where the object stands in its file, whatever fails and however memory  *)
(* is aligned.                                                             *)
THEOREM DataInvariant == Spec => []DataInv
<1>1. DataInv /\ [Next]_vars => DataInv'
  BY DataStep
<1>2. QED
  BY <1>1, DataInitially, PTL DEF Spec

-----------------------------------------------------------------------------
(* Sectors that a step writes.                                             *)

Own == \A s \in Sectors : medium'[s] # medium[s] =>
    \/ Has(chain, s \div csize) \/ Has(chain', s \div csize)
    \/ TruncateFailed /\ s = fil.dsect

LEMMA FlushOwn ==
    ASSUME DataInv, NEW s \in Sectors, Flushed[s] # medium[s]
    PROVE  Has(chain, s \div csize) \/ (TruncateFailed /\ s = fil.dsect)
<1>1. fil.dirty /\ s = fil.dsect
  BY FlushedIs
<1>2. QED
  BY <1>1 DEF DataInv, Owned, InChain, Has

LEMMA FlushesOwn ==
    ASSUME DataInv, medium' \in {medium, Flushed}
    PROVE  Own
BY FlushOwn DEF Own

LEMMA RunOwn ==
    ASSUME DataInv, ~fil.err, AtBoundary, NEW c \in Clusters,
           c \in Followed \cup Stretched, Takes(c), NEW n \in 0 .. cc,
           NEW sent, medium' = [s \in Sectors |-> IF s - Sect(c) \in 0 .. n - 1
                                                  THEN sent[s] ELSE Flushed[s]]
    PROVE  Own
<1> SUFFICES ASSUME NEW s \in Sectors, medium'[s] # medium[s]
             PROVE  \/ Has(chain, s \div csize) \/ Has(chain', s \div csize)
                    \/ TruncateFailed /\ s = fil.dsect
  BY DEF Own
<1>1. /\ cc \in Nat /\ csect \in 0 .. csize - 1 /\ csect + cc <= csize
      /\ Sect(c) \in Int /\ s \in Int
  BY RunFits, SectOwned, Sizes DEF Sectors
<1>2. CASE s - Sect(c) \in 0 .. n - 1
  <2>1. PICK k \in 0 .. csize - 1 : k = s - Sect(c) /\ csect + k < csize
    BY <1>1, <1>2, Sizes
  <2>2. s = Sect(c) + k
    BY <1>1, <2>1
  <2>3. QED
    BY <2>1, <2>2, OwnedSec
<1>3. CASE s - Sect(c) \notin 0 .. n - 1
  <2>1. medium'[s] = Flushed[s]
    BY <1>3
  <2>2. QED
    BY <2>1, FlushOwn
<1>4. QED
  BY <1>2, <1>3

LEMMA OwnStep ==
    ASSUME DataInv, [Next]_vars
    PROVE  Own
<1>1. ASSUME NEW c \in Clusters, WriteDirect(c) PROVE Own
  <2>1. /\ AtBoundary /\ ~fil.err /\ c \in Followed \cup Stretched /\ Takes(c)
        /\ cc \in 0 .. cc
    BY <1>1, RunFits DEF WriteDirect, DataInv, Requested
  <2> DEFINE sent == [s \in Sectors |-> Sent(s - Sect(c))]
  <2>2. medium' = [s \in Sectors |-> IF s - Sect(c) \in 0 .. cc - 1
                                     THEN sent[s] ELSE Flushed[s]]
    BY <1>1 DEF WriteDirect, InRun
  <2> HIDE DEF sent
  <2>3. QED
    BY <2>1, <2>2, RunOwn
<1>2. ASSUME WriteAborts PROVE Own
  <2>1. AtBoundary /\ ~fil.err
    BY <1>2 DEF WriteAborts, DataInv, Requested
  <2>2. ASSUME NEW c \in Followed \cup Stretched, Takes(c), WriteFails(c)
        PROVE  Own
    <3>1. c \in Clusters
      BY <2>1, FollowedInChain DEF Stretched
    <3> DEFINE sent == [s \in Sectors |-> Sent(s - Sect(c))]
    <3>2. PICK n \in 0 .. cc :
            medium' = [s \in Sectors |-> IF s - Sect(c) \in 0 .. n - 1
                                         THEN sent[s] ELSE Flushed[s]]
      BY <2>2 DEF WriteFails
    <3> HIDE DEF sent
    <3>3. QED
      BY <2>1, <2>2, <3>1, <3>2, RunOwn
  <2>3. QED
    BY <1>2, <2>2, FlushesOwn DEF WriteAborts, FlushFails
<1>3. CASE \E c \in Clusters : WriteSector(c)
  BY <1>3, FlushesOwn DEF WriteSector
<1>4. CASE \E c \in Clusters : ReadSector(c)
  BY <1>4, FlushesOwn DEF ReadSector
<1>5. CASE ReadAborts
  BY <1>5, FlushesOwn DEF ReadAborts, ReadFails, FlushFails
<1>6. CASE \E ofs \in 0 .. MaxSize : Seek(ofs)
  <2>1. medium' \in {medium, Flushed}
    BY <1>6, SeekIs DEF SeekTo
  <2>2. QED
    BY <2>1, FlushesOwn
<1>7. CASE Truncate \/ TruncateAborts
  BY <1>7, FlushesOwn DEF Truncate, TruncateAborts
<1>8. CASE SeekAborts \/ Sync \/ SyncFails
  BY <1>8, FlushesOwn DEF SeekAborts, Sync, SyncFails
<1>9. CASE UNCHANGED medium
  BY <1>9, FlushesOwn
<1>10. QED
  <2>1. CASE Writes
    BY <1>1, <1>2, <1>3, <1>9, <2>1 DEF Writes, StartWrite, StartRequest,
       WriteInside, WriteEnds
  <2>2. CASE Reads
    BY <1>4, <1>5, <1>9, <2>2 DEF Reads, StartRead, StartRequest, ReadDirect,
       ReadInside, ReadEnds
  <2>3. QED
    BY <1>6, <1>7, <1>8, <1>9, <2>1, <2>2 DEF Next, Reopen, vars

(* Data go only to sectors of the file's clusters, also when transfers     *)
(* fail: the write-back of the buffer and the direct transfers of f_read,  *)
(* f_write, f_lseek, f_truncate and f_sync of ff.c.  The one exception is  *)
(* the buffer that a failed f_truncate has left dirty, which the next      *)
(* f_sync or f_close writes to its sector.                                 *)
THEOREM DataGoToOwnSectors == Spec => OwnSectors
<1>1. ASSUME DataInv, [Next]_vars
      PROVE  [\A s \in Sectors : medium'[s] # medium[s] =>
                 \/ InChain(s \div csize) \/ InChain(s \div csize)'
                 \/ TruncateFailed /\ s = fil.dsect]_vars
  <2>1. Own
    BY <1>1, OwnStep
  <2>2. QED
    BY <2>1 DEF Own, InChain, Has
<1>2. QED
  BY <1>1, DataInvariant, PTL DEF Spec, OwnSectors

-----------------------------------------------------------------------------
(* The buffer, when the memory of callers is word aligned.                 *)

LEMMA StaysAligned ==
    ASSUME WordAligned, DataInv, RequestAligned, [Next]_vars
    PROVE  RequestAligned'
<1>1. ASSUME req' = req PROVE RequestAligned'
  BY <1>1 DEF RequestAligned
<1>2. ASSUME NEW n, Moved(n) PROVE RequestAligned'
  BY <1>2 DEF Moved, RequestAligned, DataInv, TypeOK
<1>3. ASSUME req'.op \notin {"read", "write"} PROVE RequestAligned'
  BY <1>3 DEF RequestAligned
<1>4. ASSUME NEW o, NEW n, NEW first, NEW aligned \in Aligned,
             StartRequest(o, n, first, aligned)
      PROVE  RequestAligned'
  BY <1>4 DEF StartRequest, RequestAligned, WordAligned
<1>5. ASSUME req' = NoRequest PROVE RequestAligned'
  BY <1>3, <1>5 DEF NoRequest
<1>6. ASSUME WriteAborts PROVE RequestAligned'
  BY <1>3, <1>6 DEF WriteAborts, DataInv, TypeOK
<1>7. CASE Writes
  BY <1>2, <1>4, <1>5, <1>6, <1>7 DEF Writes, StartWrite, WriteDirect,
     WriteSector, WriteInside, WriteEnds
<1>8. CASE Reads
  BY <1>2, <1>4, <1>5, <1>8 DEF Reads, StartRead, ReadDirect, ReadSector,
     ReadInside, ReadEnds, ReadAborts
<1>9. QED
  BY <1>1, <1>5, <1>7, <1>8 DEF Next, Seek, SeekAborts, Truncate, TruncateAborts,
     StartTruncate, Sync, SyncFails, Reopen, vars

(* The object is at work on: what a clean or a dirty buffer holds.         *)
LEMMA BufferIs ==
    ASSUME DataInv, Coherent, ~fil.err, fil.dsect # 0
    PROVE  fil.dsect \in Sectors /\ Flushed[fil.dsect] = fil.buf
<1>1. fil.dsect \in Sectors
  BY Types
<1>2. QED
  BY <1>1, FlushedIs, Types DEF Coherent

(* The same buffer of the same sector, on a medium that is as it was or    *)
(* has got it.                                                             *)
LEMMA SameBuffer ==
    ASSUME DataInv, Coherent, ~fil'.err => ~fil.err,
           fil'.dsect = fil.dsect, fil'.buf = fil.buf,
           \/ medium' = medium /\ fil'.dirty = fil.dirty
           \/ medium' = Flushed
    PROVE  Coherent'
BY BufferIs DEF Coherent

LEMMA CoherentWriteDirect ==
    ASSUME DataInv, RequestAligned, Coherent, NEW c \in Clusters, WriteDirect(c)
    PROVE  Coherent'
<1>1. ~fil.err /\ req.aligned
  BY DEF WriteDirect, DataInv, Requested, RequestAligned
<1>2. /\ fil'.dsect = fil.dsect
      /\ fil'.buf = IF InRun(fil.dsect, Sect(c)) THEN Sent(fil.dsect - Sect(c))
                    ELSE fil.buf
      /\ medium' = [s \in Sectors |-> IF InRun(s, Sect(c)) THEN Sent(s - Sect(c))
                                                         ELSE Flushed[s]]
  BY <1>1 DEF WriteDirect, DataInv, TypeOK
<1>3. QED
  BY <1>1, <1>2, BufferIs DEF Coherent

LEMMA CoherentStep ==
    ASSUME DataInv, RequestAligned, Coherent, [Next]_vars
    PROVE  Coherent'
<1>1. ASSUME fil'.err \/ fil'.dirty \/ fil'.dsect = 0 PROVE Coherent'
  BY <1>1 DEF Coherent
<1>2. ASSUME NEW c \in Clusters, WriteSector(c) PROVE Coherent'
  BY <1>1, <1>2 DEF WriteSector, DataInv, TypeOK
<1>3. CASE WriteInside
  BY <1>1, <1>3 DEF WriteInside, DataInv, TypeOK
<1>4. CASE WriteEnds
  BY <1>4, SameBuffer DEF WriteEnds, DataInv, TypeOK
<1>5. CASE WriteAborts
  <2>1. fil'.err
    BY <1>5 DEF WriteAborts, FlushFails, WriteFails, Aborted, DataInv, TypeOK
  <2>2. QED
    BY <1>1, <2>1
<1>6. ASSUME NEW c \in Clusters, ReadDirect(c) PROVE Coherent'
  <2>1. req.aligned
    BY <1>6 DEF ReadDirect, RequestAligned
  <2>2. QED
    BY <1>6, <2>1, SameBuffer DEF ReadDirect, DataInv, TypeOK
<1>7. ASSUME NEW c \in Clusters, ReadSector(c) PROVE Coherent'
  <2>1. CASE fil.dsect = Sect(c)
    BY <1>7, <2>1, SameBuffer DEF ReadSector, DataInv, TypeOK
  <2>2. CASE fil.dsect # Sect(c)
    <3>1. medium' = Flushed /\ fil'.dsect = Sect(c) /\ fil'.buf = Flushed[Sect(c)]
      BY <1>7, <2>2 DEF ReadSector, DataInv, TypeOK
    <3>2. QED
      BY <3>1 DEF Coherent
  <2>3. QED
    BY <2>1, <2>2
<1>8. CASE ReadInside
  BY <1>8, SameBuffer DEF ReadInside, DataInv, TypeOK
<1>9. CASE ReadAborts
  <2>1. fil'.err
    BY <1>9 DEF ReadAborts, FlushFails, ReadFails, Aborted, DataInv, TypeOK
  <2>2. QED
    BY <1>1, <2>1
<1>10. ASSUME NEW ofs \in 0 .. MaxSize, Seek(ofs) PROVE Coherent'
  <2>1. PICK p \in 0 .. MaxSize, k \in Clusters \cup {0}, fills \in BOOLEAN :
          SeekTo(p, k, fills)
    BY <1>10, SeekIs
  <2>2. /\ medium' = IF fills THEN Flushed ELSE medium
        /\ fil'.dsect = IF fills THEN Sec(chain', p) ELSE fil.dsect
        /\ fil'.buf = IF fills THEN Flushed[Sec(chain', p)] ELSE fil.buf
        /\ fil'.dirty = (fil.dirty /\ ~fills) /\ fil'.err = fil.err
    BY <2>1 DEF SeekTo, DataInv, TypeOK
  <2>3. CASE fills
    BY <2>2, <2>3 DEF Coherent
  <2>4. CASE ~fills
    BY <2>2, <2>4, SameBuffer, Types
  <2>5. QED
    BY <2>3, <2>4
<1>11. CASE SeekAborts
  BY <1>1, <1>11 DEF SeekAborts, DataInv, TypeOK
<1>12. CASE Truncate
  BY <1>12, SameBuffer DEF Truncate, StartTruncate, Shortened, DataInv, TypeOK
<1>13. CASE TruncateAborts
  BY <1>1, <1>13 DEF TruncateAborts, Shortened, DataInv, TypeOK
<1>14. CASE Sync
  BY <1>14, SameBuffer DEF Sync, DataInv, TypeOK
<1>15. CASE SyncFails
  BY <1>1, <1>15 DEF SyncFails
<1>16. CASE Reopen
  BY <1>1, <1>16 DEF Reopen, Opened
<1>17. CASE UNCHANGED <<medium, fil>>
  BY <1>17, SameBuffer
<1>18. CASE Writes
  BY <1>2, <1>3, <1>4, <1>5, <1>17, <1>18, CoherentWriteDirect
     DEF Writes, StartWrite, StartRequest
<1>19. CASE Reads
  BY <1>6, <1>7, <1>8, <1>9, <1>17, <1>19 DEF Reads, StartRead, StartRequest, ReadEnds
<1>20. QED
  BY <1>10, <1>11, <1>12, <1>13, <1>14, <1>15, <1>16, <1>17, <1>18, <1>19
     DEF Next, vars

-----------------------------------------------------------------------------
(* What a buffer that f_sync does not know of has changed.                 *)

SavedBytes ==
    \A i \in 0 .. fil.fsize - 1 :
       Sec(chain, i) = fil.dsect /\ i + 1 \notin Doubt =>
           fil.buf[i % SS] = medium[fil.dsect][i % SS]

LEMMA QuietSaved ==
    ASSUME Saved, req.op \notin {"write", "failed"},
           fil'.dirty /\ ~fil'.written => fil.dirty /\ ~fil.written
    PROVE  Saved'
BY DEF Saved

(* A turn of f_write is about the same bytes as the whole request.         *)
LEMMA SameDoubt ==
    ASSUME DataInv, req.op = "write", NEW m \in Nat, m <= req.left,
           fil'.fptr = fil.fptr + m, req' = [req EXCEPT !.left = req.left - m]
    PROVE  Doubt' = Doubt
<1>1. req'.op = "write" /\ req'.left = req.left - m /\ req'.n = req.n
  BY DEF DataInv, TypeOK
<1>2. /\ fil'.fptr - Rest' = fil.fptr - Rest
      /\ fil'.fptr + req'.left = fil.fptr + req.left
  BY <1>1, Numbers DEF Rest
<1>3. QED
  BY <1>1, <1>2 DEF Doubt

(* The bytes of a part that f_write puts into the buffer are in doubt.     *)
LEMMA PutElsewhere ==
    ASSUME DataInv, req.op = "write", req.left > 0, NEW i \in Nat,
           SectorOf(i) = SectorOf(fil.fptr), i + 1 \notin Doubt,
           NEW buf
    PROVE  Put(buf)[i % SS] = buf[i % SS]
<1>1. /\ offset = fil.fptr % SS /\ offset \in 0 .. SS - 1
      /\ Part \in Nat \ {0} /\ Part <= req.left
      /\ fil.fptr \in Nat /\ req.left \in Nat
      /\ fil.fptr - Rest \in Int /\ Rest \in Nat
  BY PartFits, Numbers DEF Rest, DataInv, Requested
<1> DEFINE b == i % SS
           q == SectorOf(i)
<1>2. /\ q \in Nat /\ b \in 0 .. SS - 1 /\ i = SS * q + b
      /\ fil.fptr = SS * q + offset
  BY <1>1, Places, Zenon
<1> HIDE DEF b, q
<1>3. i - fil.fptr = b - offset
  BY <1>1, <1>2, Sizes
<1>4. b - offset \notin 0 .. Part - 1
  <2> SUFFICES ASSUME b - offset \in 0 .. Part - 1 PROVE FALSE
    OBVIOUS
  <2>1. i + 1 >= fil.fptr - Rest + 1 /\ i + 1 <= fil.fptr + req.left
    BY <1>1, <1>3
  <2>2. i + 1 \in fil.fptr - Rest + 1 .. fil.fptr + req.left
    BY <1>1, <2>1
  <2>3. QED
    BY <2>2 DEF Doubt
<1>5. Put(buf)[b] = buf[b]
  BY <1>2, <1>4 DEF Put
<1>6. QED
  BY <1>5 DEF b

LEMMA SavedWriteSector ==
    ASSUME DataInv, Coherent, NEW c \in Clusters, WriteSector(c)
    PROVE  Saved'
<1>1. /\ req.op = "write" /\ AtBoundary /\ req.left > 0
      /\ c \in Followed \cup Stretched /\ Takes(c) /\ ~fil.err
      /\ medium' = Flushed /\ req' = [req EXCEPT !.left = req.left - Part]
  BY DEF WriteSector, DataInv, Requested, Moved
<1> DEFINE base == IF fil.dsect # Sect(c) /\ fil.fptr < fil.fsize
                   THEN Flushed[Sect(c)] ELSE fil.buf
<1>2. /\ fil'.fptr = fil.fptr + Part /\ fil'.fsize = fil.fsize
      /\ fil'.dsect = Sect(c) /\ fil'.buf = Put(base)
  BY DEF WriteSector, DataInv, TypeOK
<1>3. req'.op = "write"
  BY <1>1 DEF DataInv, TypeOK
<1>4. Doubt' = Doubt
  BY <1>1, <1>2, PartFits, SameDoubt
<1>5. /\ chain' \in Seq(Clusters) /\ Distinct(chain')
      /\ ClusterOf(fil.fptr) <= Len(chain') /\ Sect(c) = Sec(chain', fil.fptr)
      /\ fil.fsize <= Len(chain') * bcs /\ Len(chain') \in Nat
      /\ fil.fptr \in Nat /\ fil.fsize \in Nat
  <2>1. Len(chain) <= Len(chain') /\ Len(chain') \in Nat /\ chain' \in Seq(Clusters)
    BY <1>1, Turning
  <2>2. fil.fsize <= Len(chain') * bcs
    BY <2>1, LongEnough
  <2>3. QED
    BY <1>1, <2>2, Turning, TurningSec, Numbers
<1>6. ASSUME NEW i \in 0 .. fil.fsize - 1, Sec(chain', i) = Sect(c), i + 1 \notin Doubt
      PROVE  Put(base)[i % SS] = Flushed[Sect(c)][i % SS]
  <2>1. i \in Nat /\ i < fil.fsize /\ i < Len(chain') * bcs
    <3>1. Len(chain') * bcs \in Nat
      BY <1>5, Sizes
    <3>2. QED
      BY <1>5, <3>1
  <2>2. ClusterOf(i) <= Len(chain')
    BY <1>5, <2>1, Inside
  <2>3. SectorOf(i) = SectorOf(fil.fptr)
    <3>1. Sec(chain', i) = Sec(chain', fil.fptr)
      BY <1>5, <1>6
    <3>2. QED
      BY <1>5, <2>1, <2>2, <3>1, SameSec, Zenon
  <2>4. Put(base)[i % SS] = base[i % SS]
    <3> HIDE DEF base
    <3>1. QED
      BY <1>1, <1>6, <2>1, <2>3, PutElsewhere
  <2>5. fil.fptr <= i
    <3>1. /\ fil.fptr = SS * SectorOf(fil.fptr) + (fil.fptr % SS)
          /\ i = SS * SectorOf(fil.fptr) + (i % SS) /\ (i % SS) \in 0 .. SS - 1
          /\ fil.fptr % SS = 0 /\ SectorOf(fil.fptr) \in Nat
      BY <1>1, <1>5, <2>1, <2>3, Places, Zenon DEF AtBoundary, offset
    <3> DEFINE q == SS * SectorOf(fil.fptr)
               b == i % SS
    <3>2. q \in Int /\ b \in Nat /\ fil.fptr = q + 0 /\ i = q + b
      <4>1. fil.fptr = q + 0 /\ i = q + b
        BY <3>1, Zenon
      <4>2. q \in Int /\ b \in Nat
        BY <3>1, Sizes
      <4>3. QED
        BY <4>1, <4>2
    <3> HIDE DEF q, b
    <3>3. QED
      BY <3>2
  <2>6. base = Flushed[Sect(c)]
    <3>1. CASE fil.dsect # Sect(c)
      <4>1. fil.fptr < fil.fsize
        BY <1>5, <2>1, <2>5
      <4>2. QED
        BY <3>1, <4>1
    <3>2. CASE fil.dsect = Sect(c)
      <4>1. Sect(c) # 0
        BY <1>1, SectOwned
      <4>2. QED
        BY <1>1, <3>2, <4>1, BufferIs
    <3>3. QED
      BY <3>1, <3>2
  <2>7. QED
    BY <2>4, <2>6
<1>7. SavedBytes'
  BY <1>1, <1>2, <1>4, <1>6 DEF SavedBytes
<1>8. QED
  BY <1>3, <1>7 DEF Saved, SavedBytes

LEMMA SavedWriteInside ==
    ASSUME DataInv, Coherent, Saved, WriteInside
    PROVE  Saved'
<1>1. /\ req.op = "write" /\ ~AtBoundary /\ req.left > 0 /\ ~fil.err
      /\ UNCHANGED <<medium, chain>> /\ req' = [req EXCEPT !.left = req.left - Part]
  BY DEF WriteInside, DataInv, Requested, Moved
<1>2. /\ fil'.fptr = fil.fptr + Part /\ fil'.fsize = fil.fsize
      /\ fil'.dsect = fil.dsect /\ fil'.buf = Put(fil.buf)
      /\ fil'.written = fil.written
  BY DEF WriteInside, DataInv, TypeOK
<1>3. req'.op = "write"
  BY <1>1 DEF DataInv, TypeOK
<1>4. Doubt' = Doubt
  BY <1>1, <1>2, PartFits, SameDoubt
<1>5. /\ chain \in Seq(Clusters) /\ Distinct(chain)
      /\ ClusterOf(fil.fptr) <= Len(chain) /\ fil.dsect = Sec(chain, fil.fptr)
      /\ fil.dsect # 0
      /\ fil.fsize <= Len(chain) * bcs /\ Len(chain) \in Nat
      /\ fil.fptr \in Nat /\ fil.fsize \in Nat
  BY <1>1, StandsInside, Types, Numbers DEF DataInv, Chained
<1>6. ASSUME ~fil.written, NEW i \in 0 .. fil.fsize - 1, Sec(chain, i) = fil.dsect,
             i + 1 \notin Doubt
      PROVE  Put(fil.buf)[i % SS] = medium[fil.dsect][i % SS]
  <2>1. i \in Nat /\ i < fil.fsize /\ i < Len(chain) * bcs
    <3>1. Len(chain) * bcs \in Nat
      BY <1>5, Sizes
    <3>2. QED
      BY <1>5, <3>1
  <2>2. ClusterOf(i) <= Len(chain)
    BY <1>5, <2>1, Inside
  <2>3. SectorOf(i) = SectorOf(fil.fptr)
    <3>1. Sec(chain, i) = Sec(chain, fil.fptr)
      BY <1>5, <1>6
    <3>2. QED
      BY <1>5, <2>1, <2>2, <3>1, SameSec, Zenon
  <2>4. Put(fil.buf)[i % SS] = fil.buf[i % SS]
    BY <1>1, <1>6, <2>1, <2>3, PutElsewhere
  <2>5. fil.buf[i % SS] = medium[fil.dsect][i % SS]
    <3>1. CASE fil.dirty
      BY <1>6, <3>1 DEF Saved
    <3>2. CASE ~fil.dirty
      BY <1>1, <1>5, <3>2 DEF Coherent
    <3>3. QED
      BY <3>1, <3>2
  <2>6. QED
    BY <2>4, <2>5
<1>7. ~fil.written => SavedBytes'
  BY <1>1, <1>2, <1>4, <1>6 DEF SavedBytes
<1>8. QED
  BY <1>2, <1>3, <1>7 DEF Saved, SavedBytes

LEMMA SavedWriteAborts ==
    ASSUME DataInv, Saved, WriteAborts
    PROVE  Saved'
<1>1. /\ req.op = "write" /\ AtBoundary /\ ~fil.err
      /\ req' = [req EXCEPT !.op = "failed", !.first = 0]
  BY DEF WriteAborts, DataInv, Requested
<1>2. req'.op = "failed" /\ req'.left = req.left /\ req'.n = req.n
  BY <1>1 DEF DataInv, TypeOK
<1>3. ASSUME NEW c \in Followed \cup Stretched, Takes(c), WriteFails(c)
      PROVE  Saved'
  BY <1>3 DEF WriteFails, Aborted, DataInv, TypeOK, Saved
<1>4. ASSUME /\ fil'.dirty = fil.dirty /\ fil'.written = fil.written
             /\ fil'.dsect = fil.dsect /\ fil'.buf = fil.buf
             /\ fil'.fptr = fil.fptr /\ fil'.fsize = fil.fsize
             /\ medium' \in {medium, Flushed}
             /\ Len(chain) \in Nat /\ \A i \in 1 .. Len(chain) : chain'[i] = chain[i]
      PROVE  Saved'
  <2> SUFFICES ASSUME fil.dirty, ~fil.written PROVE SavedBytes'
    BY <1>2, <1>4 DEF Saved, SavedBytes
  <2>1. Doubt' = Doubt
    BY <1>1, <1>2, <1>4 DEF Doubt, Rest
  <2>2. SavedBytes /\ fil.dsect \in Sectors
    BY Types DEF Saved, SavedBytes, DataInv, Owned
  <2>3. ASSUME NEW i \in 0 .. fil.fsize - 1 PROVE Sec(chain', i) = Sec(chain, i)
    <3>1. i \in Nat /\ i < Len(chain) * bcs
      <4>1. fil.fsize <= Len(chain) * bcs /\ fil.fsize \in Nat
        BY Numbers DEF DataInv, Chained
      <4>2. Len(chain) * bcs \in Nat
        BY <1>4, Sizes
      <4>3. QED
        BY <4>1, <4>2
    <3>2. ClusterOf(i) <= Len(chain)
      BY <1>4, <3>1, Inside
    <3>3. QED
      BY <1>4, <3>1, <3>2, SameSecs, Zenon
  <2>4. medium'[fil.dsect] \in {medium[fil.dsect], fil.buf}
    BY <1>4, <2>2, FlushedIs
  <2>5. QED
    BY <1>4, <2>1, <2>2, <2>3, <2>4 DEF SavedBytes
<1>5. CASE fil' = Aborted(fil.clust) /\ UNCHANGED <<medium, chain>>
  BY <1>4, <1>5, Types DEF Aborted, DataInv, TypeOK
<1>6. ASSUME NEW c \in Followed \cup Stretched, Takes(c), FlushFails(c)
      PROVE  Saved'
  <2>1. c \in Clusters
    BY <1>1, FollowedInChain DEF Stretched
  <2>2. Len(chain) \in Nat /\ \A i \in 1 .. Len(chain) : chain'[i] = chain[i]
    BY <1>1, <1>6, <2>1, Turning, Types
  <2>3. QED
    BY <1>4, <1>6, <2>2 DEF FlushFails, Aborted, DataInv, TypeOK
<1>7. QED
  BY <1>3, <1>5, <1>6 DEF WriteAborts

LEMMA SavedStep ==
    ASSUME DataInv, Coherent, Saved, [Next]_vars
    PROVE  Saved'
<1>1. ASSUME ~fil'.dirty \/ fil'.written PROVE Saved'
  BY <1>1 DEF Saved
<1>2. ASSUME UNCHANGED <<medium, chain, fil>>, req.op \notin {"write", "failed"}
      PROVE  Saved'
  BY <1>2, QuietSaved
<1>3. CASE Writes
  <2>1. ASSUME NEW c \in Clusters, WriteDirect(c) PROVE Saved'
    BY <1>1, <2>1 DEF WriteDirect, DataInv, TypeOK
  <2>2. CASE WriteEnds
    BY <1>1, <2>2 DEF WriteEnds, DataInv, TypeOK
  <2>3. QED
    BY <1>2, <1>3, <2>1, <2>2, SavedWriteSector, SavedWriteInside, SavedWriteAborts
       DEF Writes, StartWrite, StartRequest
<1>4. CASE Reads
  <2>1. ASSUME NEW c \in Clusters, ReadDirect(c) PROVE Saved'
    BY <2>1, QuietSaved DEF ReadDirect, DataInv, TypeOK
  <2>2. ASSUME NEW c \in Clusters, ReadSector(c) PROVE Saved'
    BY <2>2, QuietSaved DEF ReadSector, DataInv, TypeOK
  <2>3. CASE ReadInside
    BY <2>3, QuietSaved DEF ReadInside, DataInv, TypeOK
  <2>4. CASE ReadAborts
    BY <2>4, QuietSaved DEF ReadAborts, FlushFails, ReadFails, Aborted, DataInv, TypeOK
  <2>5. QED
    BY <1>2, <1>4, <2>1, <2>2, <2>3, <2>4 DEF Reads, StartRead, StartRequest, ReadEnds
<1>5. ASSUME NEW ofs \in 0 .. MaxSize, Seek(ofs) PROVE Saved'
  <2>1. PICK p \in 0 .. MaxSize, k \in Clusters \cup {0}, fills \in BOOLEAN :
          SeekTo(p, k, fills)
    BY <1>5, SeekIs
  <2>2. /\ fil'.dirty = (fil.dirty /\ ~fills)
        /\ fil'.written = (fil.written \/ p > fil.fsize)
    BY <2>1 DEF SeekTo, DataInv, TypeOK
  <2>3. QED
    BY <1>5, <2>2, QuietSaved DEF Seek
<1>6. CASE SeekAborts
  BY <1>6, QuietSaved DEF SeekAborts, DataInv, TypeOK
<1>7. CASE Truncate
  BY <1>1, <1>7 DEF Truncate, Shortened, DataInv, TypeOK
<1>8. CASE TruncateAborts
  BY <1>1, <1>8 DEF TruncateAborts, Shortened, DataInv, TypeOK
<1>9. CASE Sync
  BY <1>1, <1>9 DEF Sync, DataInv, TypeOK
<1>10. CASE SyncFails
  BY <1>1, <1>10 DEF SyncFails, MaySync
<1>11. CASE Reopen
  BY <1>1, <1>11 DEF Reopen, Opened
<1>12. CASE UNCHANGED vars
  BY <1>12 DEF Saved, Doubt, Rest, vars
<1>13. QED
  BY <1>3, <1>4, <1>5, <1>6, <1>7, <1>8, <1>9, <1>10, <1>11, <1>12 DEF Next

(* Where an object and its buffer stand when memory is word aligned.       *)
THEOREM FileInvariant == WordAligned => (Spec => []FileInv)
<1>1. Init => FileInv
  <2>1. ASSUME Init PROVE RequestAligned /\ Coherent /\ Saved
    BY <2>1, OpenedIs, Sizes DEF Init, RequestAligned, Coherent, Saved
  <2>2. QED
    BY <2>1, DataInitially DEF FileInv
<1>2. ASSUME WordAligned, FileInv, [Next]_vars PROVE FileInv'
  BY <1>2, DataStep, StaysAligned, CoherentStep, SavedStep DEF FileInv
<1> SUFFICES ASSUME WordAligned PROVE Spec => []FileInv
  OBVIOUS
<1>3. FileInv /\ [Next]_vars => FileInv'
  BY <1>2
<1>4. QED
  BY <1>1, <1>3, PTL DEF Spec

(* "dsect: Sector number appearing in buf[]" (ff.h): unless a write-back   *)
(* failed, a clean buffer is what the medium has in its sector, where      *)
(* memory is word aligned.                                                 *)
THEOREM BufferIsItsSector == WordAligned => (Spec => []BufferCoherent)
<1>1. FileInv => BufferCoherent
  BY DEF FileInv, DataInv, Coherent, BufferCoherent
<1>2. QED
  BY <1>1, FileInvariant, PTL

-----------------------------------------------------------------------------
(* The bytes of the file, as ByteFile sees them.                           *)

View(m, f, s) == IF f.dirty /\ s = f.dsect THEN f.buf ELSE m[s]
ByteAt(m, f, ch, i) == View(m, f, Sec(ch, i))[i % SS]

Built(m, f, ch, n) == [i \in 1 .. n |-> ByteAt(m, f, ch, i - 1)]

LEMMA BuiltIs ==
    ASSUME NEW m \in [Sectors -> SectorBytes], NEW f \in FilType,
           NEW ch \in Seq(Clusters), NEW n \in Nat, n <= Len(ch) * bcs
    PROVE  /\ Built(m, f, ch, n) \in Seq(Bytes) /\ Len(Built(m, f, ch, n)) = n
           /\ \A i \in 1 .. n : Built(m, f, ch, n)[i] = ByteAt(m, f, ch, i - 1)
<1>1. ASSUME NEW i \in 1 .. n PROVE ByteAt(m, f, ch, i - 1) \in Bytes
  <2>1. i - 1 \in Nat /\ i - 1 < Len(ch) * bcs /\ Len(ch) \in Nat
    <3>1. Len(ch) \in Nat /\ Len(ch) * bcs \in Nat
      BY Sizes
    <3>2. QED
      BY <3>1
  <2>2. ClusterOf(i - 1) <= Len(ch)
    BY <2>1, Inside
  <2>3. Sec(ch, i - 1) \in Sectors
    BY <2>1, <2>2, SecFacts, Zenon
  <2>4. (i - 1) % SS \in 0 .. SS - 1
    BY <2>1, Places, Zenon
  <2> DEFINE b == (i - 1) % SS
             s == Sec(ch, i - 1)
  <2> HIDE DEF b, s
  <2>5. View(m, f, s)[b] \in Bytes
    <3>1. f.buf \in SectorBytes /\ m[s] \in SectorBytes
      BY <2>3 DEF FilType, s
    <3>2. View(m, f, s) \in SectorBytes
      BY <3>1 DEF View
    <3>3. QED
      BY <2>4, <3>2 DEF SectorBytes, b
  <2>6. QED
    BY <2>5 DEF ByteAt, b, s
<1> HIDE DEF ByteAt
<1>2. Built(m, f, ch, n) \in [1 .. n -> Bytes]
  BY <1>1 DEF Built
<1>3. \A i \in 1 .. n : Built(m, f, ch, n)[i] = ByteAt(m, f, ch, i - 1)
  BY DEF Built
<1> HIDE DEF Built
<1>4. QED
  BY <1>2, <1>3

LEMMA LogicalIs ==
    ASSUME NEW i
    PROVE  Logical(i) = ByteAt(medium, fil, chain, i)
BY Zenon DEF Logical, ByteAt, View, Sec, ClusterOf, SectorOf

ContentFacts ==
    /\ Size \in Nat /\ Size <= Len(chain) * bcs
    /\ Content \in Seq(Bytes) /\ Len(Content) = Size /\ DOMAIN Content = 1 .. Size
    /\ \A i \in 1 .. Size : Content[i] = ByteAt(medium, fil, chain, i - 1)

LEMMA ContentIs == DataInv => ContentFacts
<1> SUFFICES ASSUME DataInv PROVE ContentFacts
  OBVIOUS
<1>1. Size \in Nat /\ Size <= Len(chain) * bcs
  BY OffsetInside, Numbers DEF Size, DataInv, Requested, Chained
<1>2. Content = Built(medium, fil, chain, Size)
  BY LogicalIs, Zenon DEF Content, Built
<1>3. /\ Content \in Seq(Bytes) /\ Len(Content) = Size
      /\ \A i \in 1 .. Size : Content[i] = ByteAt(medium, fil, chain, i - 1)
  <2>1. fil \in FilType
    BY DEF DataInv, TypeOK, FilType
  <2>2. QED
    BY <1>1, <1>2, <2>1, Types, BuiltIs
<1>4. DOMAIN Content = 1 .. Size
  BY <1>3
<1>5. QED
  BY <1>1, <1>3, <1>4 DEF ContentFacts

LEMMA ContentIsNext == DataInv' => ContentFacts'
BY ContentIs, PTL

TodoFacts ==
    /\ Todo \in Seq(Bytes)
    /\ IF req.op = "write"
       THEN /\ Len(Todo) = req.left
            /\ \A i \in 1 .. req.left : Todo[i] = Datum(Rest + i - 1)
       ELSE Todo = <<>>

LEMMA TodoIs == DataInv => TodoFacts
<1> SUFFICES ASSUME DataInv PROVE TodoFacts
  OBVIOUS
<1>1. CASE req.op = "write"
  <2>1. req.left \in Nat /\ Rest \in Int
    BY Numbers DEF Rest
  <2>2. \A i \in 1 .. req.left : Rest + i - 1 \in Int
    BY <2>1
  <2>3. \A i \in 1 .. req.left : Datum(Rest + i - 1) \in Bytes
    BY <2>2, DatumTyped
  <2>4. Todo = [i \in 1 .. req.left |-> Datum(Rest + i - 1)]
    BY <1>1 DEF Todo
  <2>5. /\ Todo \in [1 .. req.left -> Bytes]
        /\ \A i \in 1 .. req.left : Todo[i] = Datum(Rest + i - 1)
    BY <2>3, <2>4
  <2>6. QED
    BY <1>1, <2>1, <2>5 DEF TodoFacts
<1>2. CASE req.op # "write"
  BY <1>2 DEF TodoFacts, Todo
<1>3. QED
  BY <1>1, <1>2

LEMMA TodoIsNext == DataInv' => TodoFacts'
BY TodoIs, PTL

(* What a step does to the bytes, and to the view of the sectors.          *)
SameBytes(n) == \A i \in 0 .. n - 1 :
    ByteAt(medium', fil', chain', i) = ByteAt(medium, fil, chain, i)

SameView == \A s \in Sectors : View(medium', fil', s) = View(medium, fil, s)

Prefixed == \A i \in 1 .. Len(chain) : chain'[i] = chain[i]

LEMMA FlushedView ==
    ASSUME DataInv, NEW s \in Sectors
    PROVE  Flushed[s] = View(medium, fil, s)
BY FlushedIs DEF View

LEMMA InSize ==
    ASSUME DataInv, NEW i \in 0 .. Size - 1
    PROVE  i \in Nat /\ ClusterOf(i) <= Len(chain) /\ Sec(chain, i) \in Sectors
<1>1. Size \in Nat /\ Size <= Len(chain) * bcs
  BY ContentIs DEF ContentFacts
<1>2. Len(chain) \in Nat /\ Len(chain) * bcs \in Nat /\ chain \in Seq(Clusters)
  BY Types, Sizes
<1>3. i \in Nat /\ i < Len(chain) * bcs
  BY <1>1, <1>2
<1>4. ClusterOf(i) <= Len(chain)
  BY <1>2, <1>3, Inside
<1>5. QED
  BY <1>2, <1>3, <1>4, SecFacts, Zenon

LEMMA SameViewBytes ==
    ASSUME DataInv, SameView, Prefixed
    PROVE  SameBytes(Size)
<1> SUFFICES ASSUME NEW i \in 0 .. Size - 1
             PROVE  ByteAt(medium', fil', chain', i) = ByteAt(medium, fil, chain, i)
  BY DEF SameBytes
<1>1. i \in Nat /\ ClusterOf(i) <= Len(chain) /\ Sec(chain, i) \in Sectors
      /\ Len(chain) \in Nat
  BY InSize, Types
<1>2. Sec(chain', i) = Sec(chain, i)
  BY <1>1, SameSecs, Zenon DEF Prefixed
<1>3. QED
  BY <1>1, <1>2, Zenon DEF ByteAt, SameView

LEMMA SameContent ==
    ASSUME DataInv, DataInv', Size' = Size, SameBytes(Size)
    PROVE  Content' = Content
<1>1. /\ Content \in Seq(Bytes) /\ Len(Content) = Size /\ Size \in Nat
      /\ \A i \in 1 .. Size : Content[i] = ByteAt(medium, fil, chain, i - 1)
  BY ContentIs DEF ContentFacts
<1>2. /\ Content' \in Seq(Bytes) /\ Len(Content') = Size
      /\ \A i \in 1 .. Size : Content'[i] = ByteAt(medium', fil', chain', i - 1)
  BY ContentIsNext DEF ContentFacts, Bytes
<1>3. ASSUME NEW i \in 1 .. Size PROVE Content'[i] = Content[i]
  <2>1. i - 1 \in 0 .. Size - 1
    BY <1>1
  <2>2. QED
    BY <1>1, <1>2, <2>1 DEF SameBytes
<1>4. QED
  BY <1>1, <1>2, <1>3, SeqEqual

LEMMA PutStep ==
    ASSUME DataInv, DataInv', req.op = "write", NEW n \in 1 .. req.left,
           fil'.fptr = fil.fptr + n, fil'.fsize = fil.fsize,
           fil'.written = fil.written,
           req' = [req EXCEPT !.left = req.left - n], rbuff' = rbuff,
           \A i \in 0 .. Size' - 1 : ByteAt(medium', fil', chain', i) =
              IF i \in fil.fptr .. fil.fptr + n - 1 THEN Datum(Rest + (i - fil.fptr))
              ELSE ByteAt(medium, fil, chain, i)
    PROVE  AbstractFile!Put
<1>1. /\ fil.fptr \in Nat /\ fil.fsize \in Nat /\ req.left \in Nat /\ n \in Nat \ {0}
      /\ n <= req.left /\ Rest \in Int
  BY Numbers DEF Rest
<1>2. /\ req'.op = "write" /\ req'.left = req.left - n /\ req'.n = req.n
      /\ req'.first = req.first
  BY DEF DataInv, TypeOK
<1>3. Rest' = Rest + n
  BY <1>1, <1>2, Numbers DEF Rest
<1> DEFINE bytes == SubSeq(Todo, 1, n)
<1>4. /\ Todo \in Seq(Bytes) /\ Len(Todo) = req.left
      /\ \A i \in 1 .. req.left : Todo[i] = Datum(Rest + i - 1)
  BY TodoIs DEF TodoFacts
<1>5. /\ Len(bytes) = n
      /\ \A i \in 1 .. n : bytes[i] = Todo[i]
  <2>1. \A i \in 1 .. n : Todo[i] \in Bytes
    BY <1>1, <1>4
  <2>2. /\ Len(bytes) = IF 1 <= n THEN n - 1 + 1 ELSE 0
        /\ \A i \in 1 .. n - 1 + 1 : bytes[i] = Todo[1 + i - 1]
    BY <1>1, <2>1, SubSeqProperties
  <2> HIDE DEF bytes
  <2>3. QED
    BY <1>1, <2>2
<1> HIDE DEF bytes
<1>6. /\ Size' = IF Size > fil.fptr + n THEN Size ELSE fil.fptr + n
      /\ fil.fptr <= Size
  BY <1>1, <1>2 DEF Size
<1>7. Content' = AbstractFile!Over(bytes, fil.fptr)
  <2>1. /\ Len(Content) = Size /\ Size \in Nat
        /\ \A i \in 1 .. Size : Content[i] = ByteAt(medium, fil, chain, i - 1)
    BY ContentIs DEF ContentFacts
  <2>2. /\ Content' \in Seq(Bytes) /\ Len(Content') = Size'
        /\ \A i \in 1 .. Size' : Content'[i] = ByteAt(medium', fil', chain', i - 1)
    BY ContentIsNext DEF ContentFacts, Bytes
  <2>3. Size' \in Nat
    BY <1>1, <1>6, <2>1
  <2>4. Content' = [i \in 1 .. Size' |-> Content'[i]]
    BY <2>2, <2>3
  <2>5. ASSUME NEW i \in 1 .. Size'
        PROVE  Content'[i] = IF i > fil.fptr /\ i <= fil.fptr + n
                             THEN bytes[i - fil.fptr] ELSE Content[i]
    <3>1. /\ i - 1 \in 0 .. Size' - 1
          /\ Content'[i] = ByteAt(medium', fil', chain', i - 1)
      BY <2>2, <2>3
    <3>2. CASE i > fil.fptr /\ i <= fil.fptr + n
      <4>1. /\ i - 1 \in fil.fptr .. fil.fptr + n - 1
            /\ i - fil.fptr \in 1 .. n /\ i - fil.fptr \in 1 .. req.left
            /\ Rest + (i - 1 - fil.fptr) = Rest + (i - fil.fptr) - 1
        BY <1>1, <2>3, <3>2
      <4>2. bytes[i - fil.fptr] = Datum(Rest + (i - fil.fptr) - 1)
        BY <1>4, <1>5, <4>1
      <4>3. Content'[i] = Datum(Rest + (i - 1 - fil.fptr))
        BY <3>1, <4>1
      <4>4. QED
        BY <3>2, <4>1, <4>2, <4>3
    <3>3. CASE ~(i > fil.fptr /\ i <= fil.fptr + n)
      <4>1. i \in 1 .. Size /\ i - 1 \notin fil.fptr .. fil.fptr + n - 1
        BY <1>1, <1>6, <2>1, <2>3, <3>3
      <4>2. QED
        BY <2>1, <3>1, <3>3, <4>1
    <3>4. QED
      BY <3>2, <3>3
  <2>6. AbstractFile!Over(bytes, fil.fptr) =
          [i \in 1 .. Size' |-> IF i > fil.fptr /\ i <= fil.fptr + n
                                THEN bytes[i - fil.fptr] ELSE Content[i]]
    BY <1>5, <1>6, <2>1 DEF AbstractFile!Over
  <2>7. QED
    BY <2>4, <2>5, <2>6
<1>8. Todo' = SubSeq(Todo, n + 1, Len(Todo))
  <2> DEFINE rest == SubSeq(Todo, n + 1, Len(Todo))
  <2>1. \A i \in n + 1 .. req.left : Todo[i] \in Bytes
    BY <1>1, <1>4
  <2>2. /\ rest \in Seq(Bytes)
        /\ Len(rest) = IF n + 1 <= req.left THEN req.left - (n + 1) + 1 ELSE 0
        /\ \A i \in 1 .. req.left - (n + 1) + 1 : rest[i] = Todo[n + 1 + i - 1]
    <3>1. n + 1 \in Int /\ req.left \in Int
      BY <1>1
    <3>2. QED
      BY <1>4, <2>1, <3>1, SubSeqProperties
  <2> HIDE DEF rest
  <2>3. Len(rest) = req.left - n
    BY <1>1, <2>2
  <2>4. /\ Todo' \in Seq(Bytes) /\ Len(Todo') = req.left - n
        /\ \A i \in 1 .. req.left - n : Todo'[i] = Datum(Rest + i - 1)'
    BY <1>2, TodoIsNext DEF TodoFacts, Bytes
  <2>5. ASSUME NEW i \in 1 .. req.left - n PROVE Todo'[i] = rest[i]
    <3>1. rest[i] = Datum(Rest + (n + i) - 1)
      <4>1. /\ i \in 1 .. req.left - (n + 1) + 1 /\ n + 1 + i - 1 = n + i
            /\ n + i \in 1 .. req.left
        BY <1>1
      <4>2. rest[i] = Todo[n + i]
        BY <2>2, <4>1
      <4>3. QED
        BY <1>4, <4>1, <4>2
    <3>2. Todo'[i] = (req.first + (Rest + n + i - 1) \div 2) % 2
      BY <1>2, <1>3, <2>4 DEF Datum
    <3>3. Rest + n + i - 1 = Rest + (n + i) - 1
      BY <1>1
    <3>4. Datum(Rest + (n + i) - 1) = (req.first + (Rest + (n + i) - 1) \div 2) % 2
      BY DEF Datum
    <3>5. QED
      BY <3>1, <3>2, <3>3, <3>4, Zenon
  <2>6. QED
    BY <1>1, <2>2, <2>3, <2>4, <2>5, SeqEqual DEF rest
<1>9. Doubt' = Doubt
  BY <1>1, SameDoubt
<1>10. n \in 1 .. Len(Todo)
  BY <1>4
<1>11. QED
  BY <1>7, <1>8, <1>9, <1>10 DEF AbstractFile!Put, bytes

(* Bytes of the sector of the offset.                                      *)
LEMMA InPart ==
    ASSUME DataInv, req.left > 0, NEW i \in Nat
    PROVE  /\ SectorOf(i) = SectorOf(fil.fptr) => i - fil.fptr = (i % SS) - offset
           /\ i \in fil.fptr .. fil.fptr + Part - 1 => SectorOf(i) = SectorOf(fil.fptr)
<1>1. /\ offset = fil.fptr % SS /\ offset \in 0 .. SS - 1
      /\ Part \in Nat \ {0} /\ offset + Part <= SS /\ fil.fptr \in Nat
  BY PartFits, Numbers
<1>2. ASSUME SectorOf(i) = SectorOf(fil.fptr)
      PROVE  i - fil.fptr = (i % SS) - offset
  <2> DEFINE b == i % SS
             q == SectorOf(i)
  <2>1. /\ q \in Nat /\ b \in 0 .. SS - 1 /\ i = SS * q + b
        /\ fil.fptr = SS * q + offset
    BY <1>1, <1>2, Places, Zenon
  <2> HIDE DEF b, q
  <2>2. i - fil.fptr = b - offset
    BY <1>1, <2>1, Sizes
  <2>3. QED
    BY <2>2 DEF b
<1>3. ASSUME i \in fil.fptr .. fil.fptr + Part - 1
      PROVE  SectorOf(i) = SectorOf(fil.fptr)
  <2>1. PICK j \in Nat : j = i - fil.fptr
    BY <1>1, <1>3
  <2>2. i = fil.fptr + j /\ offset + j < SS
    BY <1>1, <1>3, <2>1, Sizes
  <2>3. (fil.fptr % SS) + j < SS
    BY <1>1, <2>2, Zenon
  <2>4. SectorOf(fil.fptr + j) = SectorOf(fil.fptr)
    BY <1>1, <2>1, <2>3, SameSector, Zenon
  <2>5. QED
    BY <2>2, <2>4, Zenon
<1>4. QED
  BY <1>2, <1>3

LEMMA PutInBuffer ==
    ASSUME DataInv, DataInv', req.op = "write", req.left > 0, Prefixed,
           ClusterOf(fil.fptr) <= Len(chain'), NEW base,
           fil'.buf = Put(base), fil'.dirty, fil'.dsect = Sec(chain', fil.fptr),
           fil'.fptr = fil.fptr + Part, fil'.fsize = fil.fsize,
           fil'.written = fil.written,
           req' = [req EXCEPT !.left = req.left - Part], rbuff' = rbuff,
           \A s \in Sectors : s # fil'.dsect => medium'[s] = View(medium, fil, s),
           \A i \in 0 .. Size - 1 : SectorOf(i) = SectorOf(fil.fptr) =>
              base[i % SS] = View(medium, fil, fil'.dsect)[i % SS]
    PROVE  AbstractFile!Put
<1>1. /\ Part \in Nat \ {0} /\ Part <= req.left /\ fil.fptr \in Nat
      /\ req.left \in Nat /\ Part \in 1 .. req.left /\ fil.fsize \in Nat
  BY PartFits, Numbers
<1>2. /\ chain' \in Seq(Clusters) /\ Distinct(chain')
      /\ Size' \in Nat /\ Size' <= Len(chain') * bcs
      /\ Len(chain') \in Nat /\ Len(chain') * bcs \in Nat
      /\ Size \in Nat
  <2>1. chain' \in Seq(Clusters) /\ Distinct(chain')
    BY DEF DataInv, Chained
  <2>2. Len(chain') \in Nat /\ Len(chain') * bcs \in Nat
    BY <2>1, Sizes
  <2>3. QED
    BY <2>1, <2>2, ContentIs, ContentIsNext DEF ContentFacts
<1>3. \A i \in 0 .. Size' - 1 :
          i \notin fil.fptr .. fil.fptr + Part - 1 => i \in 0 .. Size - 1
  <2>1. req'.op = "write"
    BY DEF DataInv, TypeOK
  <2>2. /\ Size' = IF Size > fil.fptr + Part THEN Size ELSE fil.fptr + Part
        /\ fil.fptr <= Size
    BY <1>1, <2>1 DEF Size
  <2>3. QED
    BY <1>1, <1>2, <2>2
<1>4. ASSUME NEW i \in 0 .. Size' - 1
      PROVE  ByteAt(medium', fil', chain', i) =
                IF i \in fil.fptr .. fil.fptr + Part - 1
                THEN Datum(Rest + (i - fil.fptr))
                ELSE ByteAt(medium, fil, chain, i)
  <2>1. i \in Nat /\ ClusterOf(i) <= Len(chain') /\ Sec(chain', i) \in Sectors
    <3>1. i \in Nat /\ i < Len(chain') * bcs
      BY <1>2
    <3>2. ClusterOf(i) <= Len(chain')
      BY <1>2, <3>1, Inside
    <3>3. QED
      BY <1>2, <3>1, <3>2, SecFacts, Zenon
  <2>2. Sec(chain', i) = fil'.dsect <=> SectorOf(i) = SectorOf(fil.fptr)
    <3>1. Sec(chain', i) = Sec(chain', fil.fptr) <=> SectorOf(i) = SectorOf(fil.fptr)
      BY <1>1, <1>2, <2>1, SameSec, Zenon
    <3>2. QED
      BY <3>1
  <2>3. /\ SectorOf(i) = SectorOf(fil.fptr) => i - fil.fptr = (i % SS) - offset
        /\ i \in fil.fptr .. fil.fptr + Part - 1 => SectorOf(i) = SectorOf(fil.fptr)
    BY <2>1, InPart
  <2>4. (i % SS) \in 0 .. SS - 1 /\ offset \in Int
    BY <2>1, Places, PartFits
  <2>5. i \in 0 .. Size - 1 => Sec(chain', i) = Sec(chain, i)
    <3>1. ASSUME i \in 0 .. Size - 1 PROVE Sec(chain', i) = Sec(chain, i)
      <4>1. ClusterOf(i) <= Len(chain) /\ Len(chain) \in Nat
        BY <3>1, InSize, Types
      <4>2. QED
        BY <2>1, <4>1, SameSecs, Zenon DEF Prefixed
    <3>2. QED
      BY <3>1
  <2> DEFINE b == i % SS
             s == Sec(chain', i)
  <2>6. CASE SectorOf(i) = SectorOf(fil.fptr)
    <3>1. ByteAt(medium', fil', chain', i) = Put(base)[b]
      BY <2>2, <2>6 DEF ByteAt, View
    <3>2. /\ b \in 0 .. SS - 1 /\ i - fil.fptr = b - offset
          /\ Put(base)[b] = IF b - offset \in 0 .. Part - 1
                            THEN Datum(Rest + (b - offset)) ELSE base[b]
      BY <2>3, <2>4, <2>6 DEF Put
    <3>3. CASE i \in fil.fptr .. fil.fptr + Part - 1
      <4> HIDE DEF b, s
      <4>1. b - offset \in 0 .. Part - 1
        BY <1>1, <2>1, <3>2, <3>3
      <4>2. QED
        BY <3>1, <3>2, <3>3, <4>1
    <3>4. CASE i \notin fil.fptr .. fil.fptr + Part - 1
      <4>1. b - offset \notin 0 .. Part - 1
        <5> HIDE DEF b, s
        <5>1. QED
          BY <1>1, <2>1, <3>2, <3>4
      <4>2. base[b] = View(medium, fil, fil'.dsect)[b]
        BY <1>3, <2>6, <3>4
      <4>3. ByteAt(medium, fil, chain, i) = View(medium, fil, fil'.dsect)[b]
        BY <1>3, <2>2, <2>5, <2>6, <3>4 DEF ByteAt
      <4> HIDE DEF b, s
      <4>4. QED
        BY <3>1, <3>2, <3>4, <4>1, <4>2, <4>3
    <3>5. QED
      BY <3>3, <3>4
  <2>7. CASE SectorOf(i) # SectorOf(fil.fptr)
    <3>1. i \notin fil.fptr .. fil.fptr + Part - 1 /\ s # fil'.dsect
      BY <2>2, <2>3, <2>7
    <3>2. View(medium', fil', s) = View(medium, fil, s)
      BY <2>1, <3>1 DEF View
    <3>3. s = Sec(chain, i)
      BY <1>3, <2>5, <3>1
    <3>4. ByteAt(medium', fil', chain', i) = ByteAt(medium, fil, chain, i)
      BY <3>2, <3>3, Zenon DEF ByteAt
    <3>5. QED
      BY <3>1, <3>4
  <2>8. QED
    BY <2>6, <2>7
<1>5. QED
  BY <1>1, <1>4, PutStep

LEMMA WriteSectorPuts ==
    ASSUME FileInv, DataInv', NEW c \in Clusters, WriteSector(c)
    PROVE  AbstractFile!Put
<1>1. /\ req.op = "write" /\ AtBoundary /\ req.left > 0
      /\ c \in Followed \cup Stretched /\ Takes(c) /\ ~fil.err /\ DataInv /\ Coherent
      /\ medium' = Flushed /\ req' = [req EXCEPT !.left = req.left - Part]
      /\ rbuff' = rbuff
  BY DEF WriteSector, FileInv, DataInv, Requested, Moved
<1> DEFINE base == IF fil.dsect # Sect(c) /\ fil.fptr < fil.fsize
                   THEN Flushed[Sect(c)] ELSE fil.buf
<1>2. /\ fil'.fptr = fil.fptr + Part /\ fil'.fsize = fil.fsize
      /\ fil'.dsect = Sect(c) /\ fil'.buf = Put(base) /\ fil'.dirty
      /\ fil'.written = fil.written
  BY <1>1 DEF WriteSector, DataInv, TypeOK
<1>3. /\ Prefixed /\ ClusterOf(fil.fptr) <= Len(chain') /\ Len(chain') \in Nat
      /\ Sect(c) = Sec(chain', fil.fptr) /\ Sect(c) \in Sectors /\ Sect(c) # 0
  BY <1>1, Turning, TurningSec, SectOwned DEF Prefixed
<1>4. \A s \in Sectors : medium'[s] = View(medium, fil, s)
  BY <1>1, FlushedView
<1>5. ASSUME NEW i \in 0 .. Size - 1, SectorOf(i) = SectorOf(fil.fptr)
      PROVE  base = View(medium, fil, Sect(c))
  <2>1. Flushed[Sect(c)] = View(medium, fil, Sect(c))
    BY <1>1, <1>3, FlushedView
  <2>2. CASE fil.dsect = Sect(c)
    BY <1>1, <1>3, <2>1, <2>2, BufferIs
  <2>3. CASE fil.dsect # Sect(c)
    <3>1. i \in Nat /\ fil.fptr \in Nat /\ fil.fsize \in Nat
          /\ i < (IF fil.fptr > fil.fsize THEN fil.fptr ELSE fil.fsize)
      BY <1>1, InSize, Numbers DEF Size
    <3>2. i - fil.fptr = (i % SS) - offset /\ (i % SS) \in 0 .. SS - 1 /\ offset = 0
      BY <1>1, <1>5, <3>1, InPart, Places DEF AtBoundary
    <3> DEFINE b == i % SS
    <3>3. i - fil.fptr = b - 0 /\ b \in 0 .. SS - 1
      BY <3>2
    <3> HIDE DEF b
    <3>4. i >= fil.fptr
      BY <3>1, <3>3
    <3>5. fil.fptr < fil.fsize
      BY <3>1, <3>4
    <3>6. QED
      BY <2>1, <2>3, <3>5
  <2>4. QED
    BY <2>2, <2>3
<1> HIDE DEF base
<1>6. QED
  BY <1>1, <1>2, <1>3, <1>4, <1>5, PutInBuffer

LEMMA WriteInsidePuts ==
    ASSUME FileInv, DataInv', WriteInside
    PROVE  AbstractFile!Put
<1>1. /\ req.op = "write" /\ ~AtBoundary /\ req.left > 0 /\ ~fil.err
      /\ DataInv /\ Coherent /\ UNCHANGED <<medium, chain>>
      /\ req' = [req EXCEPT !.left = req.left - Part] /\ rbuff' = rbuff
  BY DEF WriteInside, FileInv, DataInv, Requested, Moved
<1>2. /\ fil'.fptr = fil.fptr + Part /\ fil'.fsize = fil.fsize
      /\ fil'.dsect = fil.dsect /\ fil'.buf = Put(fil.buf) /\ fil'.dirty
      /\ fil'.written = fil.written
  BY <1>1 DEF WriteInside, DataInv, TypeOK
<1>3. /\ Prefixed /\ ClusterOf(fil.fptr) <= Len(chain)
      /\ fil.dsect = Sec(chain, fil.fptr) /\ fil.dsect \in Sectors /\ fil.dsect # 0
  BY <1>1, StandsInside, Types DEF Prefixed
<1>4. \A s \in Sectors : s # fil.dsect => medium'[s] = View(medium, fil, s)
  BY <1>1 DEF View
<1>5. fil.buf = View(medium, fil, fil.dsect)
  BY <1>1, <1>3, BufferIs, FlushedView
<1>6. QED
  BY <1>1, <1>2, <1>3, <1>4, <1>5, PutInBuffer

(* Bytes of the sectors of a direct transfer.                              *)
LEMMA RunAhead ==
    ASSUME DataInv, ~fil.err, AtBoundary, NEW c \in Clusters,
           c \in Followed \cup Stretched, Takes(c), NEW n \in 0 .. cc,
           NEW i \in Nat, i \in fil.fptr .. fil.fptr + n * SS - 1
    PROVE  /\ Sec(chain', i) - Sect(c) \in 0 .. n - 1
           /\ i - fil.fptr = (Sec(chain', i) - Sect(c)) * SS + (i % SS)
           /\ SectorOf(i) = SectorOf(fil.fptr) + (Sec(chain', i) - Sect(c))
           /\ ClusterOf(i) = ClusterOf(fil.fptr)
<1>1. /\ cc \in Nat /\ csect \in 0 .. csize - 1 /\ csect + cc <= csize
      /\ Sect(c) = Sec(chain', fil.fptr) /\ Sect(c) \in Sectors
      /\ chain'[ClusterOf(fil.fptr)] = c /\ c \in Int
      /\ fil.fptr \in Nat /\ (fil.fptr % SS) = 0
      /\ csect = SectorOf(fil.fptr) % csize
      /\ \A s \in Sectors : s \in Int
  <2>1. /\ cc \in Nat /\ csect \in 0 .. csize - 1 /\ csect + cc <= csize
        /\ Sect(c) = Sec(chain', fil.fptr) /\ Sect(c) \in Sectors
        /\ chain'[ClusterOf(fil.fptr)] = c
        /\ csect = SectorOf(fil.fptr) % csize
    BY RunFits, TurningSec, SectOwned, Turning, FollowedIs
  <2>2. c \in Int /\ \A s \in Sectors : s \in Int
    BY Sizes DEF Clusters, Sectors
  <2>3. fil.fptr \in Nat /\ (fil.fptr % SS) = 0
    BY Numbers DEF AtBoundary, offset
  <2>4. QED
    BY <2>1, <2>2, <2>3
<1>2. PICK j \in Nat : j = i - fil.fptr /\ i = fil.fptr + j /\ j < n * SS
  <2>1. n * SS \in Nat
    BY <1>1, Sizes
  <2>2. QED
    BY <1>1, <2>1
<1> DEFINE k == j \div SS
           b == j % SS
<1>3. k \in Nat /\ b \in 0 .. SS - 1 /\ j = SS * k + b /\ k < n
  <2>1. k \in Nat /\ b \in 0 .. SS - 1 /\ j = SS * k + b
    BY Division, Sizes, Zenon
  <2>2. k < n
    <3>1. n \in Nat
      BY <1>1
    <3>2. QED
      BY <1>2, <3>1, Shorter, Zenon
  <2>3. QED
    BY <2>1, <2>2
<1>4. SectorOf(i) = SectorOf(fil.fptr) + k /\ (i % SS) = b
  BY <1>1, <1>2, FromBoundary, Zenon
<1> HIDE DEF k, b
<1>5. (SectorOf(fil.fptr) % csize) + k < csize
  <2>1. csect + k < csize
    BY <1>1, <1>3, Sizes
  <2>2. QED
    BY <1>1, <2>1, Zenon
<1>6. Sec(chain', i) = Sect(c) + k /\ ClusterOf(i) = ClusterOf(fil.fptr)
  <2>1. chain'[ClusterOf(fil.fptr)] \in Int
    BY <1>1
  <2>2. Sec(chain', i) = Sec(chain', fil.fptr) + k
    BY <1>1, <1>3, <1>4, <1>5, <2>1, SecAhead
  <2>3. ClusterOf(i) = ClusterOf(fil.fptr)
    BY <1>1, <1>3, <1>4, <1>5, SameCluster, Zenon
  <2>4. QED
    BY <1>1, <2>2, <2>3, Zenon
<1>7. Sect(c) \in Int
  BY <1>1
<1>8. Sec(chain', i) - Sect(c) = k
  BY <1>3, <1>6, <1>7
<1>9. k \in 0 .. n - 1 /\ i - fil.fptr = k * SS + b
  <2>1. SS * k = k * SS
    BY <1>3, Sizes
  <2>2. QED
    BY <1>1, <1>2, <1>3, <2>1
<1>10. QED
  BY <1>4, <1>6, <1>8, <1>9, Zenon

LEMMA RunBytes ==
    ASSUME DataInv, ~fil.err, AtBoundary, NEW c \in Clusters,
           c \in Followed \cup Stretched, Takes(c), NEW n \in 0 .. cc,
           NEW i \in Nat, ClusterOf(i) <= Len(chain'),
           i \notin fil.fptr .. fil.fptr + n * SS - 1
    PROVE  Sec(chain', i) - Sect(c) \notin 0 .. n - 1
<1> SUFFICES ASSUME Sec(chain', i) - Sect(c) \in 0 .. n - 1 PROVE FALSE
  OBVIOUS
<1>1. /\ cc \in Nat /\ n \in Nat /\ fil.fptr \in Nat /\ (fil.fptr % SS) = 0
      /\ Sect(c) \in Sectors /\ chain' \in Seq(Clusters) /\ Distinct(chain')
      /\ ClusterOf(fil.fptr) <= Len(chain') /\ Len(chain') \in Nat
  BY RunFits, SectOwned, Turning, Types DEF AtBoundary, offset
<1>2. Sec(chain', i) \in Int /\ Sect(c) \in Int
  <2>1. Sec(chain', i) \in Sectors
    BY <1>1, SecFacts, Zenon
  <2>2. QED
    BY <1>1, <2>1, Sizes DEF Sectors
<1>3. PICK k \in 0 .. n - 1 : k = Sec(chain', i) - Sect(c)
  OBVIOUS
<1> DEFINE first == fil.fptr + k * SS
<1>4. /\ k \in Nat /\ k * SS \in Nat /\ k * SS + SS <= n * SS /\ n * SS \in Nat
  <2>1. k \in Nat /\ k + 1 <= n
    BY <1>1, <1>3
  <2>2. (k + 1) * SS <= n * SS
    BY <1>1, <2>1, Sizes
  <2>3. (k + 1) * SS = k * SS + SS
    BY <2>1, Sizes
  <2>4. QED
    BY <1>1, <2>1, <2>2, <2>3, Sizes
<1>5. first \in Nat /\ first \in fil.fptr .. fil.fptr + n * SS - 1
  <2> DEFINE x == k * SS
             y == n * SS
  <2>1. x \in Nat /\ y \in Nat /\ x + SS <= y /\ SS \in Nat \ {0}
    BY <1>4, Sizes
  <2> HIDE DEF x, y
  <2>2. fil.fptr + x \in Nat /\ fil.fptr + x \in fil.fptr .. fil.fptr + y - 1
    BY <1>1, <2>1
  <2>3. QED
    BY <2>2 DEF x, y
<1>6. /\ (first % SS) = 0 /\ first - fil.fptr = k * SS
  <2>1. (k * SS) % SS = 0
    <3>1. k * SS = SS * k + 0 /\ 0 \in 0 .. SS - 1 /\ k \in Int
      BY <1>4, Sizes
    <3>2. QED
      BY <3>1, Quotient, Sizes, Zenon
  <2>2. (first % SS) = 0
    BY <1>1, <1>4, <2>1, FromBoundary, Zenon
  <2>3. QED
    BY <1>1, <1>4, <2>2
<1> DEFINE l == Sec(chain', first) - Sect(c)
<1>7. /\ l \in 0 .. n - 1 /\ first - fil.fptr = l * SS + (first % SS)
      /\ ClusterOf(first) = ClusterOf(fil.fptr)
  BY <1>5, RunAhead, Zenon
<1>8. Sec(chain', first) \in Int
  <2>1. Sec(chain', first) \in Sectors
    BY <1>1, <1>5, <1>7, SecFacts, Zenon
  <2>2. QED
    BY <2>1, Sizes DEF Sectors
<1>9. Sec(chain', first) = Sect(c) + l
  BY <1>2, <1>8
<1> HIDE DEF first, l
<1>10. k = l
  <2>1. k * SS = l * SS /\ k \in Nat /\ l \in Nat
    <3>1. l \in Nat /\ l * SS \in Nat
      BY <1>1, <1>7, Sizes
    <3>2. QED
      BY <1>4, <1>6, <1>7, <3>1
  <2>2. QED
    BY <2>1, Sizes
<1>11. Sec(chain', i) = Sec(chain', first)
  BY <1>2, <1>3, <1>9, <1>10
<1>12. SectorOf(i) = SectorOf(first)
  BY <1>1, <1>5, <1>7, <1>11, SameSec, Zenon
<1> DEFINE q == SectorOf(i)
           b == i % SS
<1>13. /\ q \in Int /\ b \in 0 .. SS - 1 /\ i = SS * q + b /\ first = SS * q + 0
  <2>1. /\ q \in Nat /\ b \in 0 .. SS - 1 /\ i = SS * q + b
        /\ first = SS * SectorOf(first) + (first % SS)
    BY <1>5, Places, Zenon
  <2>2. first = SS * q + 0
    BY <1>6, <1>12, <2>1, Zenon
  <2>3. QED
    BY <2>1, <2>2
<1> HIDE DEF q, b
<1>14. i >= first /\ i < first + SS
  BY <1>5, <1>13, Sizes
<1>15. i \in fil.fptr .. fil.fptr + n * SS - 1
  BY <1>1, <1>4, <1>5, <1>6, <1>14, Sizes
<1>16. QED
  BY <1>15

LEMMA WriteDirectPuts ==
    ASSUME FileInv, DataInv', NEW c \in Clusters, WriteDirect(c)
    PROVE  AbstractFile!Put
<1> DEFINE n == cc * SS
<1>1. /\ req.op = "write" /\ AtBoundary /\ cc > 0 /\ ~fil.err /\ DataInv
      /\ c \in Followed \cup Stretched /\ Takes(c)
      /\ req' = [req EXCEPT !.left = req.left - n] /\ rbuff' = rbuff
  BY DEF WriteDirect, FileInv, DataInv, Requested, Moved
<1>2. /\ fil'.fptr = fil.fptr + n /\ fil'.fsize = fil.fsize
      /\ fil'.written = fil.written /\ ~fil'.dirty
  BY <1>1 DEF WriteDirect, DataInv, TypeOK
<1>3. /\ n \in 1 .. req.left /\ n \in Nat /\ fil.fptr \in Nat /\ fil.fsize \in Nat
      /\ cc \in Nat /\ cc \in 0 .. cc
  BY <1>1, RunFits, Numbers
<1>4. /\ chain' \in Seq(Clusters) /\ Size' \in Nat /\ Size' <= Len(chain') * bcs
      /\ Len(chain') \in Nat /\ Len(chain') * bcs \in Nat /\ Size \in Nat
  <2>1. chain' \in Seq(Clusters)
    BY DEF DataInv, Chained
  <2>2. Len(chain') \in Nat /\ Len(chain') * bcs \in Nat
    BY <2>1, Sizes
  <2>3. QED
    BY <1>1, <2>1, <2>2, ContentIs, ContentIsNext DEF ContentFacts
<1>5. \A i \in 0 .. Size' - 1 :
          i \notin fil.fptr .. fil.fptr + n - 1 => i \in 0 .. Size - 1
  <2>1. req'.op = "write"
    BY <1>1 DEF DataInv, TypeOK
  <2>2. /\ Size' = IF Size > fil.fptr + n THEN Size ELSE fil.fptr + n
        /\ fil.fptr <= Size
    <3> HIDE DEF n
    <3>1. QED
      BY <1>1, <1>2, <1>3, <2>1 DEF Size
  <2> HIDE DEF n
  <2>3. QED
    BY <1>3, <1>4, <2>2
<1>6. \A s \in Sectors : View(medium', fil', s) =
          IF s - Sect(c) \in 0 .. cc - 1 THEN Sent(s - Sect(c))
          ELSE View(medium, fil, s)
  <2>1. \A s \in Sectors : medium'[s] = IF s - Sect(c) \in 0 .. cc - 1
                                        THEN Sent(s - Sect(c)) ELSE Flushed[s]
    BY DEF WriteDirect, InRun
  <2>2. \A s \in Sectors : View(medium', fil', s) = medium'[s]
    BY <1>2 DEF View
  <2>3. QED
    BY <1>1, <2>1, <2>2, FlushedView
<1> HIDE DEF n
<1>7. ASSUME NEW i \in 0 .. Size' - 1
      PROVE  ByteAt(medium', fil', chain', i) =
                IF i \in fil.fptr .. fil.fptr + n - 1
                THEN Datum(Rest + (i - fil.fptr))
                ELSE ByteAt(medium, fil, chain, i)
  <2>1. i \in Nat /\ ClusterOf(i) <= Len(chain') /\ Sec(chain', i) \in Sectors
    <3>1. i \in Nat /\ i < Len(chain') * bcs
      <4> DEFINE y == Len(chain') * bcs
                 z == Size'
      <4>1. z \in Nat /\ z <= y /\ y \in Nat /\ i \in 0 .. z - 1
        BY <1>4
      <4> HIDE DEF y, z
      <4>2. i \in Nat /\ i < y
        BY <4>1
      <4>3. QED
        BY <4>2 DEF y
    <3>2. ClusterOf(i) <= Len(chain')
      BY <1>4, <3>1, Inside
    <3>3. QED
      BY <1>4, <3>1, <3>2, SecFacts, Zenon
  <2> DEFINE s == Sec(chain', i)
             k == s - Sect(c)
             b == i % SS
  <2>2. CASE i \in fil.fptr .. fil.fptr + n - 1
    <3>1. /\ k \in 0 .. cc - 1 /\ i - fil.fptr = k * SS + b
      BY <1>1, <1>3, <2>1, <2>2, RunAhead, Zenon DEF n
    <3>2. View(medium', fil', s) = Sent(k)
      BY <1>6, <2>1, <3>1
    <3>3. b \in 0 .. SS - 1
      BY <2>1, Places, Zenon
    <3>4. ByteAt(medium', fil', chain', i) = Sent(k)[b]
      BY <3>2, Zenon DEF ByteAt
    <3> HIDE DEF b, k, s
    <3>5. Sent(k)[b] = Datum(Rest + k * SS + b)
      BY <3>3 DEF Sent
    <3>6. Rest + k * SS + b = Rest + (i - fil.fptr)
      <4>1. Rest \in Int /\ k * SS \in Int /\ b \in Int
        BY <1>1, <1>3, <3>1, <3>3, Numbers, Sizes DEF Rest
      <4>2. QED
        BY <3>1, <4>1
    <3>7. QED
      BY <2>2, <3>4, <3>5, <3>6
  <2>3. CASE i \notin fil.fptr .. fil.fptr + n - 1
    <3>1. s - Sect(c) \notin 0 .. cc - 1
      BY <1>1, <1>3, <2>1, <2>3, RunBytes, Zenon DEF n
    <3>2. View(medium', fil', s) = View(medium, fil, s)
      BY <1>6, <2>1, <3>1
    <3>3. Sec(chain', i) = Sec(chain, i)
      <4>1. i \in 0 .. Size - 1
        BY <1>5, <2>3
      <4>2. ClusterOf(i) <= Len(chain) /\ Len(chain) \in Nat
        BY <1>1, <4>1, InSize, Types
      <4>3. \A j \in 1 .. Len(chain) : chain'[j] = chain[j]
        BY <1>1, Turning
      <4>4. QED
        BY <2>1, <4>2, <4>3, SameSecs, Zenon
    <3>4. ByteAt(medium', fil', chain', i) = ByteAt(medium, fil, chain, i)
      BY <3>2, <3>3, Zenon DEF ByteAt
    <3>5. QED
      BY <2>3, <3>4
  <2>4. QED
    BY <2>2, <2>3
<1>8. QED
  BY <1>1, <1>2, <1>3, <1>7, PutStep

-----------------------------------------------------------------------------
(* The other steps, as steps of ByteFile.                                  *)

LEMMA KeepsContent ==
    ASSUME DataInv, DataInv', SameView, Prefixed, Size' = Size
    PROVE  Content' = Content
BY SameViewBytes, SameContent

LEMMA NotWriting ==
    ASSUME DataInv, req.op \in {"none", "read"}
    PROVE  Size = fil.fsize /\ Todo = <<>> /\ Doubt = {}
BY DEF Size, Todo, Doubt

LEMMA NotWritingNext ==
    ASSUME req'.op \in {"none", "read"}
    PROVE  Size' = fil'.fsize /\ Todo' = <<>> /\ Doubt' = {}
BY DEF Size, Todo, Doubt

LEMMA OnlyDoubtfulIs ==
    ASSUME DataInv, DataInv',
           \A i \in 0 .. Size - 1 : i + 1 \notin Doubt =>
              /\ i < Size'
              /\ ByteAt(medium', fil', chain', i) = ByteAt(medium, fil, chain, i)
    PROVE  AbstractFile!OnlyDoubtful
<1>1. /\ Size \in Nat /\ DOMAIN Content = 1 .. Size
      /\ \A i \in 1 .. Size : Content[i] = ByteAt(medium, fil, chain, i - 1)
  BY ContentIs DEF ContentFacts
<1>2. /\ Size' \in Nat /\ DOMAIN Content' = 1 .. Size'
      /\ \A i \in 1 .. Size' : Content'[i] = ByteAt(medium', fil', chain', i - 1)
  BY ContentIsNext DEF ContentFacts
<1>3. ASSUME NEW i \in 1 .. Size, i \notin Doubt
      PROVE  i \in 1 .. Size' /\ Content'[i] = Content[i]
  <2>1. i - 1 \in 0 .. Size - 1 /\ (i - 1) + 1 = i
    BY <1>1
  <2>2. /\ i - 1 < Size'
        /\ ByteAt(medium', fil', chain', i - 1) = ByteAt(medium, fil, chain, i - 1)
    BY <1>3, <2>1
  <2>3. i \in 1 .. Size'
    BY <1>1, <1>2, <2>2
  <2>4. QED
    BY <1>1, <1>2, <2>2, <2>3
<1>4. QED
  BY <1>1, <1>2, <1>3 DEF AbstractFile!OnlyDoubtful

LEMMA StartWrites ==
    ASSUME DataInv, DataInv', NEW n \in Lengths, NEW first \in Bytes,
           NEW aligned \in Aligned, StartWrite(n, first, aligned)
    PROVE  AbstractFile!StartWrite
<1>1. /\ req.op = "none" /\ ~fil.err /\ fil.fptr <= fil.fsize
      /\ rbuff' = <<>> /\ UNCHANGED <<medium, chain, fil>>
      /\ req'.op = "write" /\ req'.n = n /\ req'.left = n
      /\ n \in Nat \ {0} /\ fil.fptr \in Nat /\ fil.fsize \in Nat
  BY Sizes, Numbers DEF StartWrite, StartRequest, DataInv, Requested
<1>2. Size = fil.fsize /\ Todo = <<>>
  BY <1>1, NotWriting
<1>3. Size' = Size
  BY <1>1, <1>2 DEF Size
<1>4. Content' = Content
  BY <1>1, <1>3, KeepsContent DEF SameView, Prefixed
<1>5. Len(Todo') = n /\ Todo' # <<>>
  <2>1. Len(Todo') = n
    BY <1>1, TodoIsNext DEF TodoFacts
  <2>2. Len(<<>>) = 0
    OBVIOUS
  <2>3. QED
    BY <1>1, <2>1, <2>2
<1>6. Doubt' = fil.fptr + 1 .. fil.fptr + Len(Todo')
  <2>1. Rest' = 0
    BY <1>1 DEF Rest
  <2>2. fil'.fptr - Rest' + 1 = fil.fptr + 1 /\ fil'.fptr + req'.left = fil.fptr + n
    BY <1>1, <2>1
  <2>3. QED
    BY <1>1, <1>5, <2>2 DEF Doubt
<1>7. QED
  BY <1>1, <1>2, <1>4, <1>5, <1>6 DEF AbstractFile!StartWrite

LEMMA WriteEndsEnds ==
    ASSUME DataInv, DataInv', WriteEnds
    PROVE  AbstractFile!EndWrite
<1>1. /\ req.op = "write" /\ req' = NoRequest /\ UNCHANGED <<medium, chain, rbuff>>
      /\ fil.fptr \in Nat /\ fil.fsize \in Nat /\ req.left \in Nat /\ req.n \in Nat
      /\ req.n > 0
  BY Numbers DEF WriteEnds, DataInv, Requested
<1>2. /\ fil'.fptr = fil.fptr /\ fil'.written /\ fil'.dirty = fil.dirty
      /\ fil'.dsect = fil.dsect /\ fil'.buf = fil.buf
      /\ fil'.fsize = IF fil.fptr > fil.fsize THEN fil.fptr ELSE fil.fsize
  BY DEF WriteEnds, DataInv, TypeOK
<1>3. req'.op = "none"
  BY <1>1 DEF NoRequest
<1>4. Size' = fil'.fsize /\ Todo' = <<>> /\ Doubt' = {}
  BY <1>3, NotWritingNext
<1>5. Size' = Size
  BY <1>1, <1>2, <1>4 DEF Size
<1>6. Content' = Content
  BY <1>1, <1>2, <1>5, KeepsContent DEF SameView, View, Prefixed
<1>7. Doubt # {}
  <2>1. fil.fptr + req.left \in fil.fptr - Rest + 1 .. fil.fptr + req.left
    BY <1>1 DEF Rest
  <2>2. QED
    BY <1>1, <2>1 DEF Doubt
<1>8. QED
  BY <1>1, <1>2, <1>4, <1>6, <1>7 DEF AbstractFile!EndWrite

LEMMA FlushFailsView ==
    ASSUME DataInv, NEW c, FlushFails(c)
    PROVE  SameView
<1>1. /\ fil.dirty /\ medium' \in {medium, Flushed}
      /\ fil'.dirty = fil.dirty /\ fil'.dsect = fil.dsect /\ fil'.buf = fil.buf
  BY DEF FlushFails, Aborted, DataInv, TypeOK
<1>2. \A s \in Sectors : s # fil.dsect => medium'[s] = medium[s]
  BY <1>1, FlushedIs
<1>3. QED
  BY <1>1, <1>2 DEF SameView, View

LEMMA WriteAbortsFails ==
    ASSUME DataInv, DataInv', WriteAborts
    PROVE  AbstractFile!FailWrite
<1>1. /\ req.op = "write" /\ AtBoundary /\ ~fil.err
      /\ req' = [req EXCEPT !.op = "failed", !.first = 0] /\ rbuff' = rbuff
      /\ fil.fptr \in Nat /\ fil.fsize \in Nat /\ req.left \in Nat /\ req.n \in Nat
      /\ req.n > 0 /\ req.left <= req.n /\ fil.fptr - Rest \in 0 .. fil.fsize
  BY Numbers DEF WriteAborts, DataInv, Requested
<1>2. req'.op = "failed" /\ req'.left = req.left /\ req'.n = req.n
  BY <1>1 DEF DataInv, TypeOK
<1>3. fil'.fptr = fil.fptr /\ fil'.fsize = fil.fsize /\ fil'.written = fil.written
  <2>1. ASSUME NEW c, fil' = Aborted(c) \/ FlushFails(c) \/ WriteFails(c)
        PROVE  fil'.fptr = fil.fptr /\ fil'.fsize = fil.fsize /\ fil'.written = fil.written
    BY <2>1 DEF FlushFails, WriteFails, Aborted, DataInv, TypeOK
  <2>2. QED
    BY <2>1 DEF WriteAborts
<1>4. Todo' = <<>> /\ Size' = fil.fsize
  BY <1>2, <1>3 DEF Todo, Size
<1>5. Rest' = Rest /\ Rest \in Nat
  BY <1>1, <1>2 DEF Rest
<1>6. Doubt' = Doubt /\ Doubt = fil.fptr - Rest + 1 .. fil.fptr + req.left
  BY <1>1, <1>2, <1>3, <1>5 DEF Doubt
<1>7. Doubt # {}
  <2>1. fil.fptr + req.left \in fil.fptr - Rest + 1 .. fil.fptr + req.left
    BY <1>1 DEF Rest
  <2>2. QED
    BY <1>6, <2>1
<1>8. \A i \in 0 .. Size - 1 : i + 1 \notin Doubt => i < Size'
  BY <1>1, <1>4, <1>5, <1>6 DEF Size
<1>9. ASSUME SameView, Prefixed PROVE AbstractFile!OnlyDoubtful
  BY <1>8, <1>9, SameViewBytes, OnlyDoubtfulIs DEF SameBytes
<1>10. ASSUME fil' = Aborted(fil.clust) /\ UNCHANGED <<medium, chain>>
       PROVE  AbstractFile!OnlyDoubtful
  <2>1. fil'.dirty = fil.dirty /\ fil'.dsect = fil.dsect /\ fil'.buf = fil.buf
    BY <1>10 DEF Aborted, DataInv, TypeOK
  <2>2. SameView
    BY <1>10, <2>1 DEF SameView, View
  <2>3. Prefixed
    BY <1>10 DEF Prefixed
  <2>4. QED
    BY <1>9, <2>2, <2>3
<1>11. ASSUME NEW c \in Followed \cup Stretched, Takes(c), FlushFails(c)
       PROVE  AbstractFile!OnlyDoubtful
  <2>1. c \in Clusters
    BY <1>1, FollowedInChain DEF Stretched
  <2>2. Prefixed
    BY <1>1, <1>11, <2>1, Turning DEF Prefixed
  <2>3. QED
    BY <1>9, <1>11, <2>2, FlushFailsView
<1>12. ASSUME NEW c \in Followed \cup Stretched, Takes(c), WriteFails(c)
       PROVE  AbstractFile!OnlyDoubtful
  <2>1. c \in Clusters
    BY <1>1, FollowedInChain DEF Stretched
  <2>2. /\ Len(chain') \in Nat /\ Len(chain) <= Len(chain') /\ Len(chain) \in Nat
        /\ \A j \in 1 .. Len(chain) : chain'[j] = chain[j]
    BY <1>1, <1>12, <2>1, Turning, Types
  <2>3. PICK n \in 0 .. cc :
          medium' = [s \in Sectors |-> IF s - Sect(c) \in 0 .. n - 1
                                       THEN Sent(s - Sect(c)) ELSE Flushed[s]]
    BY <1>12 DEF WriteFails
  <2>4. ~fil'.dirty
    BY <1>12 DEF WriteFails, Aborted, DataInv, TypeOK
  <2>5. n * SS \in Nat /\ n * SS <= req.left
    <3>1. cc \in Nat /\ cc * SS \in Nat /\ cc * SS <= req.left
      BY RunFits
    <3>2. n \in Nat /\ n <= cc
      BY <2>3, <3>1
    <3>3. n * SS <= cc * SS /\ n * SS \in Nat
      BY <3>1, <3>2, Sizes
    <3> DEFINE x == n * SS
               y == cc * SS
    <3>4. x \in Nat /\ y \in Nat /\ x <= y /\ y <= req.left
      BY <3>1, <3>3
    <3> HIDE DEF x, y
    <3>5. x \in Nat /\ x <= req.left
      BY <1>1, <3>4
    <3>6. QED
      BY <3>5 DEF x
  <2>6. ASSUME NEW i \in 0 .. Size - 1, i + 1 \notin Doubt
        PROVE  ByteAt(medium', fil', chain', i) = ByteAt(medium, fil, chain, i)
    <3>1. i \in Nat /\ ClusterOf(i) <= Len(chain) /\ Sec(chain, i) \in Sectors
      BY InSize
    <3>2. Sec(chain', i) = Sec(chain, i)
      BY <2>2, <3>1, SameSecs, Zenon
    <3>3. i \notin fil.fptr .. fil.fptr + n * SS - 1
      <4> DEFINE x == n * SS
      <4>1. x \in Nat /\ x <= req.left
        BY <2>5
      <4> HIDE DEF x
      <4>2. i \notin fil.fptr .. fil.fptr + x - 1
        BY <1>1, <1>5, <1>6, <2>6, <3>1, <4>1
      <4>3. QED
        BY <4>2 DEF x
    <3>4. ClusterOf(i) <= Len(chain') /\ ClusterOf(i) \in Nat
      <4>1. ClusterOf(i) \in Nat
        BY <3>1, Places
      <4>2. QED
        BY <2>2, <3>1, <4>1
    <3>5. Sec(chain', i) - Sect(c) \notin 0 .. n - 1
      BY <1>1, <1>12, <2>1, <3>1, <3>3, <3>4, RunBytes
    <3> DEFINE s == Sec(chain', i)
    <3>6. s \in Sectors /\ s = Sec(chain, i) /\ s - Sect(c) \notin 0 .. n - 1
      BY <3>1, <3>2, <3>5
    <3> HIDE DEF s
    <3>7. medium'[s] = Flushed[s]
      BY <2>3, <3>6
    <3>8. View(medium', fil', s) = View(medium, fil, s)
      BY <2>4, <3>6, <3>7, FlushedView DEF View
    <3>9. QED
      BY <3>6, <3>8, Zenon DEF ByteAt, s
  <2>7. QED
    BY <1>8, <2>6, OnlyDoubtfulIs
<1>13. AbstractFile!OnlyDoubtful
  <2>1. ASSUME NEW c \in Followed \cup Stretched, Takes(c),
               FlushFails(c) \/ WriteFails(c)
        PROVE  AbstractFile!OnlyDoubtful
    BY <1>11, <1>12, <2>1
  <2>2. QED
    BY <1>10, <2>1 DEF WriteAborts
<1>14. QED
  BY <1>1, <1>3, <1>4, <1>6, <1>7, <1>13 DEF AbstractFile!FailWrite

(* A turn of f_read takes the next bytes.                                  *)
LEMMA GetStep ==
    ASSUME DataInv, DataInv', req.op = "read", ~fil.err, NEW n \in 1 .. req.left,
           SameView, UNCHANGED chain,
           fil'.fptr = fil.fptr + n, fil'.fsize = fil.fsize,
           fil'.written = fil.written, req'.op = "read",
           rbuff' = [i \in 1 .. n |-> ByteAt(medium, fil, chain, fil.fptr + i - 1)]
    PROVE  AbstractFile!Get
<1>1. /\ fil.fptr \in Nat /\ fil.fsize \in Nat /\ req.left \in Nat
      /\ fil.fptr + req.left <= fil.fsize /\ n \in Nat \ {0} /\ n <= req.left
  BY Numbers DEF DataInv, Requested
<1>2. /\ Size = fil.fsize /\ Size' = fil.fsize
      /\ Todo' = Todo /\ Doubt' = Doubt
  BY NotWriting, NotWritingNext
<1>3. Content' = Content
  BY <1>2, KeepsContent DEF Prefixed
<1>4. /\ Content \in Seq(Bytes) /\ Len(Content) = fil.fsize
      /\ \A i \in 1 .. fil.fsize : /\ Content[i] = ByteAt(medium, fil, chain, i - 1)
                                   /\ Content[i] \in Bytes
  BY <1>2, ContentIs DEF ContentFacts
<1> DEFINE taken == SubSeq(Content, fil.fptr + 1, fil.fptr + n)
<1>5. /\ taken \in Seq(Bytes) /\ Len(taken) = n
      /\ \A i \in 1 .. n : taken[i] = Content[fil.fptr + i]
  <2> DEFINE a == fil.fptr + 1
             z == fil.fptr + n
  <2>a. a \in Nat /\ z \in Nat /\ a <= z /\ z <= fil.fsize /\ a > 0
    BY <1>1
  <2>b. z - a + 1 = n
    BY <1>1
  <2>c. \A i \in 1 .. n : a + i - 1 = fil.fptr + i
    BY <1>1
  <2>1. /\ a \in Nat /\ z \in Nat /\ a <= z /\ z <= fil.fsize /\ a > 0
        /\ z - a + 1 = n /\ \A i \in 1 .. n : a + i - 1 = fil.fptr + i
    BY <2>a, <2>b, <2>c, Zenon
  <2> HIDE DEF a, z
  <2>2. \A i \in a .. z : Content[i] \in Bytes
    BY <1>1, <1>4, <2>1
  <2>3. /\ SubSeq(Content, a, z) \in Seq(Bytes)
        /\ Len(SubSeq(Content, a, z)) = IF a <= z THEN z - a + 1 ELSE 0
        /\ \A i \in 1 .. z - a + 1 : SubSeq(Content, a, z)[i] = Content[a + i - 1]
    BY <2>1, <2>2, SubSeqProperties
  <2>4. taken = SubSeq(Content, a, z)
    BY DEF a, z
  <2> HIDE DEF taken
  <2>5. Len(taken) = n /\ taken \in Seq(Bytes)
    BY <2>1, <2>3, <2>4
  <2>6. \A i \in 1 .. n : taken[i] = Content[fil.fptr + i]
    BY <2>1, <2>3, <2>4
  <2>7. QED
    BY <2>5, <2>6
<1>6. \A i \in 1 .. n :
         /\ ByteAt(medium, fil, chain, fil.fptr + i - 1) = Content[fil.fptr + i]
         /\ Content[fil.fptr + i] \in Bytes
  BY <1>1, <1>4
<1>7. /\ rbuff' \in Seq(Bytes) /\ Len(rbuff') = n
      /\ \A i \in 1 .. n : rbuff'[i] = Content[fil.fptr + i]
  <2>1. rbuff' \in [1 .. n -> Bytes]
    BY <1>6
  <2>2. \A i \in 1 .. n : rbuff'[i] = Content[fil.fptr + i]
    BY <1>6
  <2>3. QED
    BY <1>1, <2>1, <2>2
<1>8. rbuff' = taken
  <2> HIDE DEF taken
  <2>1. \A i \in 1 .. Len(rbuff') : rbuff'[i] = taken[i]
    BY <1>5, <1>7
  <2>2. QED
    BY <1>5, <1>7, <2>1, SeqEqual
<1>9. n \in 1 .. Len(Content) - fil.fptr
  BY <1>1, <1>4
<1>10. QED
  BY <1>2, <1>3, <1>8, <1>9 DEF AbstractFile!Get

LEMMA ReadDirectGets ==
    ASSUME FileInv, DataInv', NEW c \in Clusters, ReadDirect(c)
    PROVE  AbstractFile!Get
<1> DEFINE n == cc * SS
<1>1. /\ req.op = "read" /\ AtBoundary /\ cc > 0 /\ ~fil.err /\ DataInv
      /\ c \in Followed /\ UNCHANGED <<medium, chain>> /\ req.aligned
      /\ req' = [req EXCEPT !.left = req.left - n]
  BY DEF ReadDirect, FileInv, DataInv, Requested, RequestAligned, Moved
<1>2. /\ fil'.fptr = fil.fptr + n /\ fil'.fsize = fil.fsize
      /\ fil'.written = fil.written /\ fil'.dirty = fil.dirty
      /\ fil'.dsect = fil.dsect /\ fil'.buf = fil.buf
      /\ req'.op = "read"
  BY <1>1 DEF ReadDirect, DataInv, TypeOK
<1>3. /\ n \in 1 .. req.left /\ n \in Nat /\ fil.fptr \in Nat
      /\ cc \in Nat /\ cc \in 0 .. cc /\ Takes(c) /\ (fil.fptr % SS) = 0
      /\ Sect(c) \in Sectors
  <2>1. Takes(c)
    BY <1>1, FollowedInChain DEF Takes
  <2>2. QED
    BY <1>1, <2>1, RunFits, Numbers, SectOwned DEF AtBoundary, offset
<1>4. rbuff' = [i \in 1 .. n |->
                  View(medium, fil, Sect(c) + (i - 1) \div SS)[(i - 1) % SS]]
  BY <1>1 DEF ReadDirect, View
<1>5. ASSUME NEW i \in 1 .. n
      PROVE  View(medium, fil, Sect(c) + (i - 1) \div SS)[(i - 1) % SS]
                = ByteAt(medium, fil, chain, fil.fptr + i - 1)
  <2> DEFINE j == i - 1
             x == fil.fptr + j
             k == Sec(chain, x) - Sect(c)
             q == SectorOf(fil.fptr)
             e == j \div SS
  <2>1. /\ j \in Nat /\ x \in Nat /\ fil.fptr + i - 1 = x
        /\ x \in fil.fptr .. fil.fptr + n - 1
    <3> HIDE DEF n
    <3>1. QED
      BY <1>3
  <2> HIDE DEF x, j
  <2>2. SectorOf(x) = q + e /\ (x % SS) = (j % SS)
    BY <1>3, <2>1, FromBoundary, Zenon DEF x
  <2>3. k \in 0 .. cc - 1 /\ SectorOf(x) = q + k /\ ClusterOf(x) = ClusterOf(fil.fptr)
    <3>1. chain' = chain
      BY <1>1
    <3>2. /\ Sec(chain', x) - Sect(c) \in 0 .. cc - 1
          /\ SectorOf(x) = q + (Sec(chain', x) - Sect(c))
          /\ ClusterOf(x) = ClusterOf(fil.fptr)
      <4>1. c \in Followed \cup Stretched
        BY <1>1
      <4>2. QED
        BY <1>1, <1>3, <2>1, <4>1, RunAhead, Zenon
    <3>3. QED
      BY <3>1, <3>2, Zenon
  <2>4. e \in Nat /\ q \in Nat
    BY <1>3, <2>1, Division, Places, Sizes, Zenon
  <2>5. Sec(chain, x) \in Int /\ Sect(c) \in Int
    <3>1. c \in Followed \cup Stretched /\ chain' = chain
      BY <1>1
    <3>2. ClusterOf(fil.fptr) \in 1 .. Len(chain) /\ chain \in Seq(Clusters)
      BY <1>1, <1>3, <3>1, Turning, Types
    <3>3. ClusterOf(x) <= Len(chain)
      BY <2>3, <3>2
    <3>4. Sec(chain, x) \in Sectors
      BY <2>1, <3>2, <3>3, SecFacts, Zenon
    <3>5. QED
      BY <1>3, <3>4, Sizes DEF Sectors
  <2>6. Sec(chain, x) = Sect(c) + e
    <3> DEFINE s == Sec(chain, x)
               t == Sect(c)
               v == SectorOf(x)
    <3>1. /\ s \in Int /\ t \in Int /\ v = q + e /\ v = q + (s - t)
          /\ e \in Nat /\ q \in Nat
      BY <2>2, <2>3, <2>4, <2>5
    <3> HIDE DEF s, t, v, q, e
    <3>2. s = t + e
      BY <3>1
    <3>3. QED
      BY <3>2 DEF s, t
  <2>7. View(medium, fil, Sect(c) + e)[j % SS] = ByteAt(medium, fil, chain, x)
    BY <2>2, <2>6, Zenon DEF ByteAt
  <2>8. QED
    BY <2>1, <2>7 DEF j, x
<1>6. rbuff' = [i \in 1 .. n |-> ByteAt(medium, fil, chain, fil.fptr + i - 1)]
  <2> HIDE DEF n
  <2>1. QED
    BY <1>4, <1>5
<1>7. SameView
  BY <1>1, <1>2 DEF SameView, View
<1> HIDE DEF n
<1>8. QED
  BY <1>1, <1>2, <1>3, <1>6, <1>7, GetStep

(* A part of the sector that the buffer has, or gets.                      *)
LEMMA GottenStep ==
    ASSUME DataInv, DataInv', req.op = "read", ~fil.err, req.left > 0,
           SameView, UNCHANGED chain,
           fil'.fptr = fil.fptr + Part, fil'.fsize = fil.fsize,
           fil'.written = fil.written, req'.op = "read",
           NEW buf, rbuff' = Gotten(buf),
           buf = View(medium, fil, Sec(chain, fil.fptr))
    PROVE  AbstractFile!Get
<1>1. /\ Part \in Nat \ {0} /\ Part \in 1 .. req.left /\ fil.fptr \in Nat
      /\ offset = fil.fptr % SS /\ offset \in 0 .. SS - 1 /\ offset + Part <= SS
  BY PartFits, Numbers
<1>2. ASSUME NEW i \in 1 .. Part
      PROVE  buf[offset + i - 1] = ByteAt(medium, fil, chain, fil.fptr + i - 1)
  <2> DEFINE j == i - 1
             x == fil.fptr + j
  <2>1. /\ j \in Nat /\ x \in Nat /\ fil.fptr + i - 1 = x /\ offset + i - 1 = offset + j
        /\ offset + j < SS
    BY <1>1, Sizes
  <2> HIDE DEF j
  <2>2. (fil.fptr % SS) + j < SS
    BY <1>1, <2>1, Zenon
  <2>3. SectorOf(x) = SectorOf(fil.fptr) /\ (x % SS) = (fil.fptr % SS) + j
    BY <1>1, <2>1, <2>2, SameSector, Zenon
  <2>4. ClusterOf(x) = ClusterOf(fil.fptr)
    BY <1>1, <2>1, <2>3, Places, Zenon
  <2>5. Sec(chain, x) = Sec(chain, fil.fptr)
    BY <2>3, <2>4, Zenon DEF Sec
  <2>6. (x % SS) = offset + j
    BY <1>1, <2>3, Zenon
  <2>7. ByteAt(medium, fil, chain, x) = buf[offset + j]
    BY <2>5, <2>6, Zenon DEF ByteAt
  <2>8. QED
    BY <2>1, <2>7, Zenon
<1>3. rbuff' = [i \in 1 .. Part |-> ByteAt(medium, fil, chain, fil.fptr + i - 1)]
  BY <1>2 DEF Gotten
<1>4. QED
  BY <1>1, <1>3, GetStep

LEMMA ReadSectorGets ==
    ASSUME FileInv, DataInv', NEW c \in Clusters, ReadSector(c)
    PROVE  AbstractFile!Get
<1>1. /\ req.op = "read" /\ AtBoundary /\ req.left > 0 /\ ~fil.err /\ DataInv
      /\ Coherent /\ c \in Followed /\ UNCHANGED chain
      /\ req' = [req EXCEPT !.left = req.left - Part]
  BY DEF ReadSector, FileInv, DataInv, Requested, Moved
<1> DEFINE hit == fil.dsect = Sect(c)
           buf == IF hit THEN fil.buf ELSE Flushed[Sect(c)]
<1>2. /\ fil'.fptr = fil.fptr + Part /\ fil'.fsize = fil.fsize
      /\ fil'.written = fil.written /\ fil'.dirty = (fil.dirty /\ hit)
      /\ fil'.dsect = Sect(c) /\ fil'.buf = buf
      /\ medium' = (IF hit THEN medium ELSE Flushed)
      /\ rbuff' = Gotten(buf) /\ req'.op = "read"
  BY <1>1 DEF ReadSector, DataInv, TypeOK
<1>3. Sect(c) \in Sectors /\ Sect(c) # 0 /\ Sect(c) = Sec(chain, fil.fptr)
  <2>1. Takes(c) /\ c \in Followed \cup Stretched /\ chain' = chain
    BY <1>1, FollowedInChain DEF Takes
  <2>2. QED
    BY <1>1, <2>1, SectOwned, TurningSec
<1>4. buf = View(medium, fil, Sect(c))
  BY <1>1, <1>3, BufferIs, FlushedView
<1>5. SameView
  <2>1. CASE hit
    BY <1>2, <2>1, Types DEF SameView, View
  <2>2. CASE ~hit
    <3>1. medium' = Flushed /\ ~fil'.dirty
      BY <1>2, <2>2
    <3>2. QED
      BY <1>1, <3>1, FlushedView DEF SameView, View
  <2>3. QED
    BY <2>1, <2>2
<1> HIDE DEF buf, hit
<1>6. QED
  BY <1>1, <1>2, <1>3, <1>4, <1>5, GottenStep

LEMMA ReadInsideGets ==
    ASSUME FileInv, DataInv', ReadInside
    PROVE  AbstractFile!Get
<1>1. /\ req.op = "read" /\ ~AtBoundary /\ req.left > 0 /\ ~fil.err /\ DataInv
      /\ Coherent /\ UNCHANGED <<medium, chain>>
      /\ req' = [req EXCEPT !.left = req.left - Part] /\ rbuff' = Gotten(fil.buf)
  BY DEF ReadInside, FileInv, DataInv, Requested, Moved
<1>2. /\ fil'.fptr = fil.fptr + Part /\ fil'.fsize = fil.fsize
      /\ fil'.written = fil.written /\ fil'.dirty = fil.dirty
      /\ fil'.dsect = fil.dsect /\ fil'.buf = fil.buf /\ req'.op = "read"
  BY <1>1 DEF ReadInside, DataInv, TypeOK
<1>3. fil.dsect \in Sectors /\ fil.dsect # 0 /\ fil.dsect = Sec(chain, fil.fptr)
  BY <1>1, StandsInside
<1>4. fil.buf = View(medium, fil, Sec(chain, fil.fptr))
  BY <1>1, <1>3, BufferIs, FlushedView
<1>5. SameView
  BY <1>1, <1>2 DEF SameView, View
<1>6. QED
  BY <1>1, <1>2, <1>4, <1>5, GottenStep

LEMMA StillView ==
    ASSUME DataInv, medium' \in {medium, Flushed}, fil'.dirty = fil.dirty,
           fil'.dsect = fil.dsect, fil'.buf = fil.buf
    PROVE  SameView
<1>1. \A s \in Sectors : medium'[s] = medium[s] \/ (fil.dirty /\ s = fil.dsect)
  BY FlushedIs
<1>2. QED
  BY <1>1 DEF SameView, View

LEMMA FlushView ==
    ASSUME DataInv, medium' = Flushed, ~fil'.dirty
    PROVE  SameView
BY FlushedView DEF SameView, View

LEMMA ForgetStep ==
    ASSUME DataInv, DataInv', SameView, UNCHANGED chain, rbuff' = <<>>,
           req.op \in {"none", "read"}, req'.op \in {"none", "read"},
           fil'.fptr = fil.fptr, fil'.fsize = fil.fsize, fil'.written = fil.written
    PROVE  AbstractFile!Forget
<1>1. /\ Size = fil.fsize /\ Size' = fil.fsize
      /\ Todo' = Todo /\ Doubt' = Doubt
  BY NotWriting, NotWritingNext
<1>2. Content' = Content
  BY <1>1, KeepsContent DEF Prefixed
<1>3. QED
  BY <1>1, <1>2 DEF AbstractFile!Forget

LEMMA ReadFailsView ==
    ASSUME DataInv, req.aligned, NEW c, ReadFails(c)
    PROVE  SameView
<1>1. CASE cc > 0
  <2>1. fil'.dirty = fil.dirty /\ fil'.dsect = fil.dsect /\ fil'.buf = fil.buf
        /\ medium' = medium
    BY <1>1, Types DEF ReadFails, Clobbered, Aborted, DataInv, TypeOK
  <2>2. QED
    BY <2>1, StillView
<1>2. CASE ~(cc > 0)
  <2>1. ~fil'.dirty /\ medium' = Flushed
    BY <1>2 DEF ReadFails, Aborted, DataInv, TypeOK
  <2>2. QED
    BY <2>1, FlushView
<1>3. QED
  BY <1>1, <1>2

LEMMA ReadAbortsForgets ==
    ASSUME FileInv, DataInv', ReadAborts
    PROVE  AbstractFile!Forget
<1>1. /\ req.op = "read" /\ req.aligned /\ DataInv
      /\ req'.op = "none" /\ rbuff' = <<>> /\ UNCHANGED chain
  BY DEF ReadAborts, FileInv, RequestAligned, NoRequest
<1>2. ASSUME NEW c, fil' = Aborted(c) \/ FlushFails(c) \/ ReadFails(c)
      PROVE  fil'.fptr = fil.fptr /\ fil'.fsize = fil.fsize /\ fil'.written = fil.written
  BY <1>1, <1>2 DEF FlushFails, ReadFails, Aborted, DataInv, TypeOK
<1>3. fil'.fptr = fil.fptr /\ fil'.fsize = fil.fsize /\ fil'.written = fil.written
  BY <1>2 DEF ReadAborts
<1>4. ASSUME fil' = Aborted(fil.clust), UNCHANGED medium
      PROVE  SameView
  <2>1. fil'.dirty = fil.dirty /\ fil'.dsect = fil.dsect /\ fil'.buf = fil.buf
    BY <1>1, <1>4 DEF Aborted, DataInv, TypeOK
  <2>2. QED
    BY <1>1, <1>4, <2>1, StillView
<1>5. ASSUME NEW c, FlushFails(c) \/ ReadFails(c)
      PROVE  SameView
  BY <1>1, <1>5, FlushFailsView, ReadFailsView
<1>6. SameView
  BY <1>4, <1>5 DEF ReadAborts
<1>7. QED
  BY <1>1, <1>3, <1>6, ForgetStep

(* f_lseek, and what is left of one that failed.                           *)
LEMMA MoveStep ==
    ASSUME DataInv, DataInv', SameView, Prefixed, UNCHANGED <<req, rbuff>>,
           req.op = "none",
           fil'.fsize = IF fil'.fptr > fil.fsize THEN fil'.fptr ELSE fil.fsize,
           fil'.written <=> (fil.written \/ fil'.fptr > fil.fsize)
    PROVE  AbstractFile!Move
<1>1. /\ Size = fil.fsize /\ Size' = fil'.fsize /\ Todo' = Todo
      /\ Doubt = {} /\ Doubt' = Doubt
  BY NotWriting, NotWritingNext
<1>2. fil'.fptr \in Nat /\ fil.fsize \in Nat
  BY Numbers DEF DataInv, TypeOK
<1>3. Len(Content) = fil.fsize
  BY <1>1, ContentIs DEF ContentFacts
<1>4. CASE fil'.fptr <= fil.fsize
  <2>1. Size' = Size /\ (fil'.written <=> fil.written)
    BY <1>1, <1>2, <1>4
  <2>2. Content' = Content
    BY <2>1, KeepsContent
  <2>3. QED
    BY <1>1, <1>2, <1>3, <1>4, <2>1, <2>2 DEF AbstractFile!Move
<1>5. CASE ~(fil'.fptr <= fil.fsize)
  <2>1. Size' = fil'.fptr /\ fil'.written /\ fil.fsize <= Size'
    BY <1>1, <1>2, <1>5
  <2>2. Len(Content') = Size'
    BY ContentIsNext DEF ContentFacts
  <2>3. AbstractFile!OnlyDoubtful
    <3>1. SameBytes(Size)
      BY SameViewBytes
    <3>2. \A i \in 0 .. Size - 1 : i < Size'
      BY <1>1, <1>2, <2>1
    <3>3. QED
      BY <3>1, <3>2, OnlyDoubtfulIs DEF SameBytes
  <2>4. QED
    BY <1>1, <1>2, <1>3, <1>5, <2>1, <2>2, <2>3 DEF AbstractFile!Move
<1>6. QED
  BY <1>4, <1>5

LEMMA SeekMoves ==
    ASSUME DataInv, DataInv', NEW ofs \in 0 .. MaxSize, Seek(ofs)
    PROVE  AbstractFile!Move
<1>1. /\ req.op = "none" /\ UNCHANGED <<req, rbuff>> /\ Prefixed
  BY SeekIs DEF Prefixed
<1>2. PICK p \in 0 .. MaxSize, k \in Clusters \cup {0}, fills \in BOOLEAN :
        SeekTo(p, k, fills)
  BY SeekIs
<1>3. /\ medium' = IF fills THEN Flushed ELSE medium
      /\ fil'.fptr = p /\ fil'.fsize = IF p > fil.fsize THEN p ELSE fil.fsize
      /\ fil'.written = (fil.written \/ p > fil.fsize)
      /\ fil'.dirty = (fil.dirty /\ ~fills)
      /\ ~fills => fil'.dsect = fil.dsect /\ fil'.buf = fil.buf
  BY <1>2 DEF SeekTo, DataInv, TypeOK
<1>4. SameView
  <2>1. CASE fills
    BY <1>3, <2>1, FlushView
  <2>2. CASE ~fills
    BY <1>3, <2>2, StillView, Types
  <2>3. QED
    BY <2>1, <2>2
<1>5. QED
  BY <1>1, <1>3, <1>4, MoveStep

LEMMA SeekAbortsMoves ==
    ASSUME DataInv, DataInv', SeekAborts
    PROVE  AbstractFile!Move
<1>1. /\ req.op = "none" /\ UNCHANGED <<req, rbuff>> /\ Prefixed
      /\ medium' \in {medium, Flushed}
  BY DEF SeekAborts, Prefixed
<1>2. /\ fil'.fptr = 0 /\ fil'.fsize = fil.fsize /\ fil'.written = fil.written
      /\ fil'.dirty = (fil.dirty /\ medium' # Flushed)
      /\ fil'.dsect = fil.dsect /\ fil'.buf = fil.buf
  BY DEF SeekAborts, DataInv, TypeOK
<1>3. ~(0 > fil.fsize)
  BY Numbers
<1>4. SameView
  <2>1. CASE medium' = Flushed
    BY <1>2, <2>1, FlushView
  <2>2. CASE medium' # Flushed
    BY <1>1, <1>2, <2>2, StillView, Types
  <2>3. QED
    BY <2>1, <2>2
<1>5. QED
  BY <1>1, <1>2, <1>3, <1>4, MoveStep

(* f_truncate, which may fail after it has cut the chain.                  *)
LEMMA CutStep ==
    ASSUME DataInv, DataInv', SameView, req.op = "none", UNCHANGED <<req, rbuff>>,
           ~fil.err, chain' \in {Kept, chain}, fil.fptr < fil.fsize,
           fil'.fptr = fil.fptr, fil'.fsize = fil.fptr, fil'.written
    PROVE  AbstractFile!Cut
<1>1. /\ Size = fil.fsize /\ Size' = fil.fptr /\ Todo' = Todo
      /\ Doubt = {} /\ Doubt' = Doubt
  BY NotWriting, NotWritingNext
<1>2. /\ fil.fptr \in Nat /\ fil.fsize \in Nat
  BY Numbers
<1>3. /\ Content \in Seq(Bytes) /\ Len(Content) = fil.fsize
      /\ \A i \in 1 .. fil.fsize : /\ Content[i] = ByteAt(medium, fil, chain, i - 1)
                                   /\ Content[i] \in Bytes
  BY <1>1, ContentIs DEF ContentFacts
<1>4. /\ Content' \in Seq(Bytes) /\ Len(Content') = fil.fptr
      /\ \A i \in 1 .. fil.fptr : Content'[i] = ByteAt(medium', fil', chain', i - 1)
  BY <1>1, ContentIsNext DEF ContentFacts, Bytes
<1>5. ASSUME NEW i \in 0 .. fil.fptr - 1
      PROVE  ByteAt(medium', fil', chain', i) = ByteAt(medium, fil, chain, i)
  <2>1. i \in Nat /\ i \in 0 .. Size - 1
    BY <1>1, <1>2
  <2>2. Sec(chain, i) \in Sectors
    BY <2>1, InSize
  <2>3. Sec(chain', i) = Sec(chain, i)
    <3>1. CASE chain' = chain
      BY <3>1
    <3>2. CASE chain' = Kept
      <4>1. /\ Len(Kept) \in Nat /\ \A j \in 1 .. Len(Kept) : Kept[j] = chain[j]
            /\ fil.fptr <= Len(Kept) * bcs
        BY KeptIs
      <4>2. i < Len(Kept) * bcs
        <5> DEFINE z == Len(Kept) * bcs
        <5>1. z \in Nat /\ fil.fptr <= z
          BY <4>1, Sizes
        <5> HIDE DEF z
        <5>2. i < z
          BY <1>2, <5>1
        <5>3. QED
          BY <5>2 DEF z
      <4>3. ClusterOf(i) <= Len(Kept)
        BY <2>1, <4>1, <4>2, Inside
      <4>4. \A j \in 1 .. Len(Kept) : chain[j] = Kept[j]
        BY <4>1
      <4>5. Sec(chain, i) = Sec(Kept, i)
        BY <2>1, <4>1, <4>3, <4>4, SameSecs, Zenon
      <4>6. QED
        BY <3>2, <4>5
    <3>3. QED
      BY <3>1, <3>2
  <2>4. QED
    BY <2>2, <2>3, Zenon DEF ByteAt, SameView
<1> DEFINE kept == SubSeq(Content, 1, fil.fptr)
<1>6. /\ kept \in Seq(Bytes) /\ Len(kept) = fil.fptr
      /\ \A i \in 1 .. fil.fptr : kept[i] = Content[i]
  <2>1. \A i \in 1 .. fil.fptr : Content[i] \in Bytes
    BY <1>2, <1>3
  <2>2. /\ kept \in Seq(Bytes)
        /\ Len(kept) = IF 1 <= fil.fptr THEN fil.fptr - 1 + 1 ELSE 0
        /\ \A i \in 1 .. fil.fptr - 1 + 1 : kept[i] = Content[1 + i - 1]
    BY <1>2, <2>1, SubSeqProperties
  <2> HIDE DEF kept
  <2>3. QED
    BY <1>2, <2>2
<1>7. Content' = kept
  <2> HIDE DEF kept
  <2>1. ASSUME NEW i \in 1 .. fil.fptr PROVE Content'[i] = kept[i]
    <3>1. i - 1 \in 0 .. fil.fptr - 1 /\ i \in 1 .. fil.fsize
      BY <1>2
    <3>2. QED
      BY <1>3, <1>4, <1>5, <1>6, <3>1
  <2>2. QED
    BY <1>4, <1>6, <2>1, SeqEqual
<1>8. fil.fptr < Len(Content)
  BY <1>3
<1>9. QED
  BY <1>1, <1>7, <1>8 DEF AbstractFile!Cut

LEMMA TruncateCuts ==
    ASSUME DataInv, DataInv', Truncate
    PROVE  AbstractFile!Cut
<1>1. /\ req.op = "none" /\ UNCHANGED <<req, rbuff>> /\ ~fil.err
      /\ chain' = Kept /\ fil.fptr < fil.fsize /\ medium' = Flushed
  BY Numbers DEF Truncate, StartTruncate
<1>2. /\ fil'.fptr = fil.fptr /\ fil'.fsize = fil.fptr /\ fil'.written /\ ~fil'.dirty
  BY DEF Truncate, Shortened, DataInv, TypeOK
<1>3. QED
  BY <1>1, <1>2, FlushView, CutStep

LEMMA TruncateAbortsCuts ==
    ASSUME DataInv, DataInv', TruncateAborts
    PROVE  AbstractFile!Cut
<1>1. /\ req.op = "none" /\ UNCHANGED <<req, rbuff>> /\ ~fil.err
      /\ chain' \in {Kept, chain} /\ fil.fptr < fil.fsize
      /\ medium' \in {medium, Flushed}
  BY Numbers DEF TruncateAborts, StartTruncate
<1>2. /\ fil'.fptr = fil.fptr /\ fil'.fsize = fil.fptr /\ fil'.written
      /\ fil'.dirty = fil.dirty /\ fil'.dsect = fil.dsect /\ fil'.buf = fil.buf
  BY DEF TruncateAborts, Shortened, DataInv, TypeOK
<1>3. QED
  BY <1>1, <1>2, StillView, CutStep

LEMMA SameFile ==
    ASSUME DataInv, DataInv', UNCHANGED <<chain, fil, req, rbuff>>, SameView
    PROVE  UNCHANGED AbstractFile!file
<1>1. Size' = Size /\ Todo' = Todo /\ Doubt' = Doubt
  BY DEF Size, Todo, Doubt, Rest, Datum
<1>2. Content' = Content
  BY <1>1, KeepsContent DEF Prefixed
<1>3. QED
  BY <1>1, <1>2 DEF AbstractFile!file

LEMMA SyncSyncs ==
    ASSUME DataInv, DataInv', Sync
    PROVE  AbstractFile!Sync
<1>1. /\ UNCHANGED <<chain, req, rbuff>> /\ medium' = Flushed
      /\ req.op \in {"none", "failed"}
  BY DEF Sync, MaySync
<1>2. /\ fil'.fptr = fil.fptr /\ fil'.fsize = fil.fsize /\ ~fil'.dirty /\ ~fil'.written
  BY DEF Sync, DataInv, TypeOK
<1>3. Size' = Size /\ Todo' = Todo /\ Doubt' = Doubt
  BY <1>1, <1>2 DEF Size, Todo, Doubt, Rest
<1>4. Content' = Content
  BY <1>1, <1>2, <1>3, FlushView, KeepsContent DEF Prefixed
<1>5. QED
  BY <1>1, <1>2, <1>3, <1>4 DEF AbstractFile!Sync

(* A new object of the same file has the bytes that were saved.            *)
LEMMA ReopenReopens ==
    ASSUME FileInv, DataInv', Reopen
    PROVE  AbstractFile!Reopen
<1>1. /\ ~fil.written /\ chain' = (IF fil.fsize = 0 THEN <<>> ELSE chain)
      /\ fil' = Opened(fil.fsize) /\ req' = NoRequest /\ rbuff' = <<>>
      /\ medium' = medium /\ rbuff = <<>> /\ req.op # "read"
      /\ DataInv /\ Saved
  BY DEF Reopen, FileInv, DataInv, Requested
<1>2. /\ fil'.fptr = 0 /\ fil'.fsize = fil.fsize /\ ~fil'.dirty /\ ~fil'.written
      /\ req'.op = "none"
  BY <1>1 DEF Opened, NoRequest
<1>3. Size' = fil.fsize /\ Todo' = <<>> /\ Doubt' = {}
  BY <1>2, NotWritingNext
<1>4. ASSUME NEW i \in 0 .. Size - 1, i + 1 \notin Doubt
      PROVE  /\ i < Size'
             /\ ByteAt(medium', fil', chain', i) = ByteAt(medium, fil, chain, i)
  <2>1. i \in Nat /\ Sec(chain, i) \in Sectors
    BY <1>1, InSize
  <2>2. i < fil.fsize
    <3>1. CASE req.op = "write"
      <4>1. /\ fil.fptr - Rest \in 0 .. fil.fsize /\ fil.fptr \in Nat
            /\ fil.fsize \in Nat /\ req.left \in Nat /\ Rest \in Int
        BY <1>1, <3>1, Numbers DEF DataInv, Requested, Rest
      <4>2. Doubt = fil.fptr - Rest + 1 .. fil.fptr + req.left
        BY <3>1 DEF Doubt
      <4>3. i < (IF fil.fptr > fil.fsize THEN fil.fptr ELSE fil.fsize)
        BY <2>1, <3>1, <4>1 DEF Size
      <4>4. QED
        BY <1>4, <2>1, <4>1, <4>2, <4>3
    <3>2. CASE req.op # "write"
      <4>1. Size = fil.fsize /\ fil.fsize \in Nat
        BY <1>1, <3>2, Numbers DEF Size
      <4>2. QED
        BY <2>1, <4>1
    <3>3. QED
      BY <3>1, <3>2
  <2>3. chain' = chain
    BY <1>1, <2>1, <2>2
  <2>4. ByteAt(medium', fil', chain', i) = medium[Sec(chain, i)][i % SS]
    BY <1>1, <1>2, <2>3 DEF ByteAt, View
  <2>5. CASE fil.dirty /\ Sec(chain, i) = fil.dsect
    <3>1. i \in 0 .. fil.fsize - 1
      BY <1>1, <2>1, <2>2, Numbers
    <3>2. fil.buf[i % SS] = medium[fil.dsect][i % SS]
      BY <1>1, <1>4, <2>5, <3>1 DEF Saved
    <3>3. ByteAt(medium, fil, chain, i) = fil.buf[i % SS]
      BY <2>5 DEF ByteAt, View
    <3>4. QED
      BY <1>3, <2>2, <2>4, <2>5, <3>2, <3>3
  <2>6. CASE ~(fil.dirty /\ Sec(chain, i) = fil.dsect)
    <3>1. ByteAt(medium, fil, chain, i) = medium[Sec(chain, i)][i % SS]
      BY <2>6 DEF ByteAt, View
    <3>2. QED
      BY <1>3, <2>2, <2>4, <3>1
  <2>7. QED
    BY <2>5, <2>6
<1>5. AbstractFile!OnlyDoubtful
  BY <1>1, <1>4, OnlyDoubtfulIs
<1>6. QED
  BY <1>1, <1>2, <1>3, <1>5 DEF AbstractFile!Reopen

LEMMA StartReads ==
    ASSUME DataInv, DataInv', NEW n \in Lengths, NEW aligned \in Aligned,
           StartRead(n, aligned)
    PROVE  AbstractFile!Forget
<1>1. /\ req.op = "none" /\ rbuff' = <<>> /\ UNCHANGED <<medium, chain, fil>>
      /\ req'.op = "read"
  BY DEF StartRead, StartRequest
<1>2. QED
  BY <1>1, ForgetStep DEF SameView

LEMMA ReadEndsForgets ==
    ASSUME DataInv, DataInv', ReadEnds
    PROVE  AbstractFile!Forget
<1>1. /\ req.op = "read" /\ rbuff' = <<>> /\ UNCHANGED <<medium, chain, fil>>
      /\ req'.op = "none"
  BY DEF ReadEnds, NoRequest
<1>2. QED
  BY <1>1, ForgetStep DEF SameView

LEMMA FileInitially == Init => AbstractFile!Init
<1> SUFFICES ASSUME Init PROVE AbstractFile!Init
  OBVIOUS
<1>1. /\ fil.fptr = 0 /\ fil.fsize = 0 /\ ~fil.written
      /\ req.op = "none" /\ rbuff = <<>>
  BY DEF Init, Opened, NoRequest
<1>2. DataInv
  BY DataInitially
<1>3. Size = 0 /\ Todo = <<>> /\ Doubt = {}
  BY <1>1, <1>2, NotWriting
<1>4. Content = <<>>
  <2>1. Content \in Seq(Bytes) /\ Len(Content) = 0
    BY <1>2, <1>3, ContentIs DEF ContentFacts
  <2>2. QED
    BY <2>1, EmptySeq
<1>5. QED
  BY <1>1, <1>3, <1>4 DEF AbstractFile!Init

LEMMA FileStep ==
    ASSUME FileInv, [Next]_vars
    PROVE  [AbstractFile!Next]_(AbstractFile!file)
<1>1. DataInv /\ DataInv'
  BY DataStep DEF FileInv
<1>2. ASSUME Writes PROVE AbstractFile!Next
  BY <1>1, <1>2, StartWrites, WriteDirectPuts, WriteSectorPuts, WriteInsidePuts,
     WriteEndsEnds, WriteAbortsFails DEF Writes, AbstractFile!Next
<1>3. ASSUME Reads PROVE AbstractFile!Next
  BY <1>1, <1>3, StartReads, ReadDirectGets, ReadSectorGets, ReadInsideGets,
     ReadEndsForgets, ReadAbortsForgets DEF Reads, AbstractFile!Next
<1>4. ASSUME SyncFails PROVE UNCHANGED AbstractFile!file
  <2>1. SameView
    BY <1>1, <1>4, StillView DEF SyncFails
  <2>2. QED
    BY <1>1, <1>4, <2>1, SameFile DEF SyncFails
<1>5. ASSUME UNCHANGED vars PROVE UNCHANGED AbstractFile!file
  BY <1>1, <1>5, SameFile DEF vars, SameView
<1>6. ASSUME \/ \E ofs \in 0 .. MaxSize : Seek(ofs)
             \/ SeekAborts \/ Truncate \/ TruncateAborts \/ Sync \/ Reopen
      PROVE  AbstractFile!Next
  BY <1>1, <1>6, SeekMoves, SeekAbortsMoves, TruncateCuts, TruncateAbortsCuts,
     SyncSyncs, ReopenReopens DEF AbstractFile!Next
<1>7. QED
  BY <1>2, <1>3, <1>4, <1>5, <1>6 DEF Next

(* Through sectors, clusters, the buffer and direct transfers, f_read,     *)
(* f_write, f_lseek, f_truncate and f_sync of ff.c implement a file of     *)
(* bytes, where the memory of callers is word aligned: what is read was    *)
(* written, a failed write damages only its own bytes, and what was synced *)
(* is there after the next f_open.                                         *)
THEOREM ObjectIsFile == WordAligned => (Spec => Refinement)
<1> SUFFICES ASSUME WordAligned PROVE Spec => Refinement
  OBVIOUS
<1>1. Spec => []FileInv
  BY FileInvariant
<1>2. FileInv /\ [Next]_vars => [AbstractFile!Next]_(AbstractFile!file)
  BY FileStep
<1>3. QED
  BY <1>1, <1>2, FileInitially, PTL DEF Spec, Refinement, AbstractFile!Spec

=============================================================================
