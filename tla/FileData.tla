------------------------------- MODULE FileData -------------------------------
(***************************************************************************)
(* The data of one open file: f_read, f_write, f_lseek, f_truncate and     *)
(* f_sync of src/src/ff.c over the sector buffer of the file object, with  *)
(* direct transfers of whole sectors that pass it by.                      *)
(*                                                                         *)
(* A turn of the loop in f_read and f_write is one step.  The FAT is the   *)
(* chain of the file (FatVolume has its steps), sectors are numbered as    *)
(* clust2sect does with database = 0.  Any transfer may fail.              *)
(***************************************************************************)
EXTENDS Integers, Sequences

CONSTANTS
    SS,             \* bytes per sector
    csize,          \* sectors per cluster, a power of 2
    NumClusters,    \* clusters 1 .. NumClusters; the code's start at 2
    MaxSize,        \* bound: bytes of the file
    Lengths,        \* bound: bytes of a request
    Aligned,        \* word aligned, for the buffers of callers: a set of BOOLEAN
    Faults          \* "io": transfers fail; "crash": power is lost

ASSUME DataAssumption ==
    /\ SS \in Nat \ {0} /\ csize \in Nat \ {0}
    /\ NumClusters \in Nat \ {0} /\ Lengths \subseteq Nat \ {0}
    /\ MaxSize \in 0 .. SS * csize * NumClusters
    /\ Aligned \subseteq BOOLEAN
    /\ Faults \subseteq {"io", "crash"}

VARIABLES
    medium,     \* the bytes of every sector of the data area
    chain,      \* the clusters of the file, in order
    fil,        \* the file object
    req,        \* the running f_read or f_write
    rbuff       \* the bytes the last turn of f_read gave to the caller

vars == <<medium, chain, fil, req, rbuff>>

Bytes == {0, 1}
Clusters == 1 .. NumClusters
Sectors == csize .. csize * (NumClusters + 1) - 1
bcs == SS * csize
SectorBytes == [0 .. SS - 1 -> Bytes]

TypeOK ==
    /\ medium \in [Sectors -> SectorBytes]
    /\ Len(chain) <= NumClusters /\ \A i \in DOMAIN chain : chain[i] \in Clusters
    /\ fil \in [dirty : BOOLEAN, written : BOOLEAN,
                err : BOOLEAN, fptr : 0 .. MaxSize, fsize : 0 .. MaxSize,
                clust : Clusters \cup {0}, dsect : Sectors \cup {0},
                buf : SectorBytes]
    /\ req \in [op : {"none", "read", "write", "failed"}, first : Bytes,
                n : Lengths \cup {0}, left : Nat, aligned : BOOLEAN]
    /\ \A i \in DOMAIN rbuff : rbuff[i] \in Bytes

NoRequest == [op |-> "none", first |-> 0, n |-> 0, left |-> 0, aligned |-> TRUE]
NoBytes == [b \in 0 .. SS - 1 |-> 0]

(* f_open of an existing file, for reading and writing.                    *)
Opened(size) ==
    [dirty |-> FALSE, written |-> FALSE, err |-> FALSE,
     fptr |-> 0, fsize |-> size, clust |-> 0, dsect |-> 0, buf |-> NoBytes]

Init ==
    /\ medium = [s \in Sectors |-> NoBytes]
    /\ chain = <<>>
    /\ fil = Opened(0)
    /\ req = NoRequest /\ rbuff = <<>>

-----------------------------------------------------------------------------
(* The bytes of a request: those of f_write differ from their neighbours   *)
(* in the same and in the next sector.                                     *)
Datum(i) == (req.first + i \div 2) % 2

Rest == req.n - req.left
offset == fil.fptr % SS
AtBoundary == offset = 0
csect == (fil.fptr \div SS) % csize

(* The cluster of the next byte, and the chain it is then in: get_fat, or  *)
(* create_chain, which follows the chain, or stretches it by any free      *)
(* cluster.                                                                *)
InChain(c) == \E i \in DOMAIN chain : chain[i] = c
After(c) == {chain[i + 1] : i \in {j \in 1 .. Len(chain) - 1 : chain[j] = c}}
Followed == IF csect # 0 THEN {fil.clust}
            ELSE IF fil.fptr # 0 THEN After(fil.clust)
            ELSE {chain[i] : i \in DOMAIN chain \cap {1}}
Stretched == IF Followed # {} THEN {} ELSE {c \in Clusters : ~InChain(c)}

Sect(c) == c * csize + csect

(* Sectors of the request that go in one direct transfer.                  *)
Whole == req.left \div SS

cc == IF csect + Whole > csize THEN csize - csect ELSE Whole

(* Mutant: the buffer is taken for clean.                                  *)
FlushedNever == medium

(* The dirty buffer is written back.                                       *)
Flushed == IF fil.dirty THEN [medium EXCEPT ![fil.dsect] = fil.buf] ELSE medium

InRun(s, sect) == s - sect \in 0 .. cc - 1

-----------------------------------------------------------------------------
(* f_write.                                                                *)

StartRequest(op, n, first, aligned) ==
    /\ req.op = "none" /\ ~fil.err
    /\ fil.fptr + n <= MaxSize
    /\ req' = [op |-> op, first |-> first, n |-> n, left |-> n,
               aligned |-> aligned]
    /\ rbuff' = <<>>
    /\ UNCHANGED <<medium, chain, fil>>

StartWrite(n, first, aligned) ==
    /\ StartRequest("write", n, first, aligned)

(* Bytes of the request for a sector of a direct transfer.                 *)
Sent(i) == [b \in 0 .. SS - 1 |-> Datum(Rest + i * SS + b)]

Moved(n) == req' = [req EXCEPT !.left = @ - n]

Takes(c) == chain' = IF InChain(c) THEN chain ELSE Append(chain, c)

(* Mutant: the buffer is not refilled.                                     *)
WriteDirectNoRefill(c) ==
    LET sect == Sect(c)
    IN /\ req.op = "write" /\ AtBoundary /\ cc > 0
       /\ c \in Followed \cup Stretched
       /\ Takes(c)
       /\ medium' = [s \in Sectors |-> IF InRun(s, sect) THEN Sent(s - sect)
                                                         ELSE Flushed[s]]
       /\ fil' = [fil EXCEPT !.clust = c, !.dirty = FALSE, !.fptr = @ + cc * SS]
       /\ Moved(cc * SS)
       /\ UNCHANGED rbuff

(* Whole sectors go from the caller's buffer, past the buffer of the       *)
(* object, which is refilled if it holds one of them.  The medium wants    *)
(* word aligned memory: without it the sectors go through that buffer.     *)
WriteDirect(c) ==
    LET sect == Sect(c)
        after == [s \in Sectors |-> IF InRun(s, sect) THEN Sent(s - sect)
                                                      ELSE Flushed[s]]
    IN /\ req.op = "write" /\ AtBoundary /\ cc > 0
       /\ c \in Followed \cup Stretched
       /\ Takes(c)
       /\ medium' = after
       /\ fil' = [fil EXCEPT !.clust = c, !.dirty = FALSE, !.fptr = @ + cc * SS,
                    !.buf = IF InRun(fil.dsect, sect) THEN Sent(fil.dsect - sect)
                            ELSE IF req.aligned THEN @ ELSE Sent(cc - 1)]
       /\ Moved(cc * SS)
       /\ UNCHANGED rbuff

(* Part of a sector goes to the buffer, which first gets the sector if     *)
(* that has bytes of the file.                                             *)
Part == IF SS - offset < req.left THEN SS - offset ELSE req.left

Put(buf) == [b \in 0 .. SS - 1 |->
                LET i == b - offset
                IN IF i \in 0 .. Part - 1 THEN Datum(Rest + i) ELSE buf[b]]

WriteSector(c) ==
    /\ req.op = "write" /\ AtBoundary /\ cc = 0 /\ req.left > 0
    /\ c \in Followed \cup Stretched
    /\ Takes(c)
    /\ medium' = Flushed
    /\ fil' = [fil EXCEPT !.clust = c, !.dirty = TRUE, !.fptr = @ + Part,
                 !.dsect = Sect(c),
                 !.buf = Put(IF fil.dsect # Sect(c) /\ fil.fptr < fil.fsize
                             THEN Flushed[Sect(c)] ELSE @)]
    /\ Moved(Part)
    /\ UNCHANGED rbuff

WriteInside ==
    /\ req.op = "write" /\ ~AtBoundary /\ req.left > 0
    /\ fil' = [fil EXCEPT !.dirty = TRUE, !.fptr = @ + Part, !.buf = Put(@)]
    /\ Moved(Part)
    /\ UNCHANGED <<medium, chain, rbuff>>

(* All is written, or the disk is full (of other files).                   *)
WriteEnds ==
    /\ req.op = "write"
    /\ req.left = 0 \/ (AtBoundary /\ Followed = {})
    /\ fil' = [fil EXCEPT !.fsize = IF fil.fptr > @ THEN fil.fptr ELSE @,
                          !.written = TRUE]
    /\ req' = NoRequest
    /\ UNCHANGED <<medium, chain, rbuff>>

-----------------------------------------------------------------------------
(* f_read.                                                                 *)

StartRead(n, aligned) ==
    /\ n <= fil.fsize - fil.fptr
    /\ StartRequest("read", n, 0, aligned)

(* Whole sectors come into the caller's buffer; the one that the object's  *)
(* buffer has changed is replaced by it.                                   *)
ReadDirect(c) ==
    LET sect == Sect(c)
        clobbered == IF req.aligned THEN fil.buf ELSE medium[sect + cc - 1]
        Got(s) == IF fil.dirty /\ s = fil.dsect THEN clobbered ELSE medium[s]
    IN /\ req.op = "read" /\ AtBoundary /\ cc > 0
       /\ c \in Followed
       /\ rbuff' = [i \in 1 .. cc * SS |-> Got(sect + (i - 1) \div SS)[(i - 1) % SS]]
       /\ fil' = [fil EXCEPT !.clust = c, !.fptr = @ + cc * SS, !.buf = clobbered]
       /\ Moved(cc * SS)
       /\ UNCHANGED <<medium, chain>>

Gotten(buf) == [i \in 1 .. Part |-> buf[offset + i - 1]]

ReadSector(c) ==
    LET hit == fil.dsect = Sect(c)
        buf == IF hit THEN fil.buf ELSE Flushed[Sect(c)]
    IN /\ req.op = "read" /\ AtBoundary /\ cc = 0 /\ req.left > 0
       /\ c \in Followed
       /\ medium' = IF hit THEN medium ELSE Flushed
       /\ fil' = [fil EXCEPT !.clust = c, !.dirty = @ /\ hit, !.dsect = Sect(c),
                             !.buf = buf, !.fptr = @ + Part]
       /\ rbuff' = Gotten(buf)
       /\ Moved(Part)
       /\ UNCHANGED chain

ReadInside ==
    /\ req.op = "read" /\ ~AtBoundary /\ req.left > 0
    /\ rbuff' = Gotten(fil.buf)
    /\ fil' = [fil EXCEPT !.fptr = @ + Part]
    /\ Moved(Part)
    /\ UNCHANGED <<medium, chain>>

ReadEnds ==
    /\ req.op = "read" /\ req.left = 0
    /\ req' = NoRequest /\ rbuff' = <<>>
    /\ UNCHANGED <<medium, chain, fil>>

-----------------------------------------------------------------------------
(* A turn at a sector boundary that fails: in the FAT, at the write-back   *)
(* (which the medium may have taken), or at the transfer, after some of    *)
(* its sectors.  The object is marked and nothing but f_sync and f_close   *)
(* works on it again.                                                      *)

Aborted(c) == [fil EXCEPT !.err = TRUE, !.clust = c]

(* What a transfer that failed may have left in the object's buffer.       *)
Clobbered(contents) == {fil.buf} \cup
    (IF cc > 0 /\ req.aligned THEN {} ELSE contents)

FlushFails(c) ==
    /\ fil.dirty
    /\ medium' \in {medium, Flushed}
    /\ fil' = Aborted(c)

WriteFails(c) ==
    /\ \E k \in 0 .. cc :
          medium' = [s \in Sectors |-> IF s - Sect(c) \in 0 .. k - 1
                                       THEN Sent(s - Sect(c)) ELSE Flushed[s]]
    /\ \E buf \in Clobbered(IF cc > 0 THEN {Sent(i) : i \in 0 .. cc - 1}
                                      ELSE {Flushed[Sect(c)]}) :
          fil' = [Aborted(c) EXCEPT !.dirty = FALSE, !.buf = buf]

WriteAborts ==
    /\ "io" \in Faults
    /\ req.op = "write" /\ AtBoundary /\ req.left > 0
    /\ \/ fil' = Aborted(fil.clust) /\ UNCHANGED <<medium, chain>>
       \/ \E c \in Followed \cup Stretched :
              Takes(c) /\ (FlushFails(c) \/ WriteFails(c))
    /\ req' = [req EXCEPT !.op = "failed", !.first = 0]
    /\ UNCHANGED rbuff

ReadFails(c) ==
    /\ medium' = IF cc > 0 THEN medium ELSE Flushed
    /\ \E buf \in Clobbered({medium[s] : s \in {x \in Sectors : InRun(x, Sect(c))}}
                             \cup (IF cc > 0 THEN {} ELSE {Flushed[Sect(c)]})) :
          fil' = [Aborted(c) EXCEPT !.dirty = @ /\ cc > 0, !.buf = buf]

ReadAborts ==
    /\ "io" \in Faults
    /\ req.op = "read" /\ AtBoundary /\ req.left > 0
    /\ \/ fil' = Aborted(fil.clust) /\ UNCHANGED medium
       \/ \E c \in Followed :
              /\ cc > 0 \/ fil.dsect # Sect(c)
              /\ (cc = 0 /\ FlushFails(c)) \/ ReadFails(c)
    /\ req' = NoRequest /\ rbuff' = <<>>
    /\ UNCHANGED chain

-----------------------------------------------------------------------------
(* f_lseek: follows the chain from the current cluster, or from the first  *)
(* when it has to go back, and stretches it; then it brings the sector of  *)
(* the new place into the buffer, unless the place is at a boundary.       *)

Forward(ofs) == fil.fptr > 0 /\ (ofs - 1) \div bcs >= (fil.fptr - 1) \div bcs

Position(c) == CHOOSE i \in DOMAIN chain : chain[i] = c

(* The place in the chain of the cluster for offset ofs > 0.               *)
Hop(ofs) == (ofs - 1) \div bcs +
    (IF Forward(ofs) THEN Position(fil.clust) - (fil.fptr - 1) \div bcs ELSE 1)

(* The chain stretched to n clusters, or less when the disk gets full.     *)
Stretch(n) ==
    UNION {{longer \in [1 .. m -> Clusters] :
              /\ \A i \in DOMAIN chain : longer[i] = chain[i]
              /\ \A i, j \in DOMAIN longer : longer[i] = longer[j] => i = j} :
           m \in Len(chain) .. (IF n > Len(chain) THEN n ELSE Len(chain))}

Seek(ofs) ==
    /\ req.op = "none" /\ ~fil.err
    /\ LET hop == IF ofs = 0 THEN 0 ELSE Hop(ofs)
       IN \E longer \in Stretch(hop) :
            LET reached == IF hop <= Len(longer) THEN hop ELSE Len(longer)
                fptr == IF reached < hop THEN reached * bcs ELSE ofs
                clust == IF hop = 0 THEN fil.clust
                         ELSE IF reached = 0 THEN 0 ELSE longer[reached]
                nsect == clust * csize + ((fptr \div SS) % csize)
                fills == fptr % SS # 0 /\ nsect # fil.dsect
            IN /\ chain' = longer
               /\ medium' = IF fills THEN Flushed ELSE medium
               /\ fil' = [fil EXCEPT !.fptr = fptr, !.clust = clust,
                            !.dirty = @ /\ ~fills,
                            !.dsect = IF fills THEN nsect ELSE @,
                            !.buf = IF fills THEN Flushed[nsect] ELSE @,
                            !.fsize = IF fptr > @ THEN fptr ELSE @,
                            !.written = @ \/ fptr > fil.fsize]
    /\ UNCHANGED <<req, rbuff>>

(* The place of an object that is marked is of no use any more.            *)
SeekAborts ==
    /\ "io" \in Faults
    /\ req.op = "none" /\ ~fil.err
    /\ medium' \in {medium, Flushed}
    /\ fil' = [fil EXCEPT !.err = TRUE, !.fptr = 0,
                          !.dirty = @ /\ medium' # Flushed]
    /\ UNCHANGED <<chain, req, rbuff>>

-----------------------------------------------------------------------------
(* f_truncate: the tail of the chain is freed first, then the dirty buffer *)
(* is written, wherever its sector is now.                                 *)

Kept == IF fil.fptr = 0 THEN <<>> ELSE SubSeq(chain, 1, Position(fil.clust))

Shortened == [fil EXCEPT !.fsize = fil.fptr, !.written = TRUE]

StartTruncate ==
    /\ req.op = "none" /\ ~fil.err
    /\ fil.fsize > fil.fptr
    /\ UNCHANGED <<req, rbuff>>

(* Mutant: the buffer is left as it is, dirty.                             *)
TruncateLeavesDirty ==
    /\ StartTruncate
    /\ chain' = Kept
    /\ fil' = Shortened
    /\ UNCHANGED medium

Truncate ==
    /\ StartTruncate
    /\ chain' = Kept
    /\ medium' = Flushed
    /\ fil' = [Shortened EXCEPT !.dirty = FALSE]

TruncateAborts ==
    /\ "io" \in Faults
    /\ StartTruncate
    /\ \/ chain' \in {Kept} \cup (IF fil.fptr = 0 THEN {} ELSE {chain})
          /\ UNCHANGED medium
       \/ chain' = Kept /\ fil.dirty /\ medium' = Flushed
    /\ fil' = [Shortened EXCEPT !.err = TRUE]

-----------------------------------------------------------------------------
(* f_sync: the buffer, then the entry, which FatVolume is about.  A failed *)
(* f_write leaves FA__WRITTEN as it was: a buffer that only it made dirty  *)
(* is never written.                                                       *)

MaySync == req.op \in {"none", "failed"} /\ fil.written

Sync ==
    /\ MaySync
    /\ medium' = Flushed
    /\ fil' = [fil EXCEPT !.dirty = FALSE, !.written = FALSE]
    /\ UNCHANGED <<chain, req, rbuff>>

SyncFails ==
    /\ "io" \in Faults
    /\ MaySync /\ fil.dirty
    /\ medium' \in {medium, Flushed}
    /\ UNCHANGED <<chain, fil, req, rbuff>>

(* f_close after its f_sync, then f_open; or power is lost and f_open is   *)
(* next, when the entry is up to date.  A chain the entry does not lead to *)
(* (the first write failed) is lost.                                       *)
Reopen ==
    /\ req.op # "write" \/ "crash" \in Faults
    /\ req.op # "read"
    /\ ~fil.written
    /\ chain' = IF fil.fsize = 0 THEN <<>> ELSE chain
    /\ fil' = Opened(fil.fsize)
    /\ req' = NoRequest /\ rbuff' = <<>>
    /\ UNCHANGED medium

-----------------------------------------------------------------------------
Writes ==
    \/ \E n \in Lengths, first \in Bytes, aligned \in Aligned :
          StartWrite(n, first, aligned)
    \/ \E c \in Clusters : WriteDirect(c) \/ WriteSector(c)
    \/ WriteInside \/ WriteEnds \/ WriteAborts

Reads ==
    \/ \E n \in Lengths, aligned \in Aligned : StartRead(n, aligned)
    \/ \E c \in Clusters : ReadDirect(c) \/ ReadSector(c)
    \/ ReadInside \/ ReadEnds \/ ReadAborts

Next ==
    \/ Writes \/ Reads
    \/ \E ofs \in 0 .. MaxSize : Seek(ofs)
    \/ SeekAborts \/ Truncate \/ TruncateAborts \/ Sync \/ SyncFails
    \/ Reopen

Spec == Init /\ [][Next]_vars

-----------------------------------------------------------------------------
(* Properties.                                                             *)

(* "dsect: Sector number appearing in buf[]" (ff.h): a clean buffer holds  *)
(* what the medium has in that sector.                                     *)
BufferCoherent ==
    /\ TypeOK
    /\ fil.dsect # 0 /\ ~fil.dirty /\ ~fil.err => fil.buf = medium[fil.dsect]

(* What f_truncate leaves when it fails with a dirty buffer, whose sector  *)
(* may be in the tail that it has freed (ff.c, 3485).  After a failed      *)
(* f_read or f_lseek the model has another offset, after a failed f_write  *)
(* a request.                                                              *)
TruncateFailed ==
    /\ fil.err /\ fil.dirty /\ fil.written
    /\ req.op = "none" /\ fil.fptr = fil.fsize

(* A step writes data only to clusters the file has before or after it,    *)
(* whatever fails and however late a buffer is written: no dirty buffer    *)
(* outlives the cluster of its sector.  One does, and is all that is       *)
(* written elsewhere: f_sync or f_close after a failed f_truncate writes   *)
(* the buffer of the object to its sector, which may be free by then.      *)
OwnSectors == [][\A s \in Sectors : medium'[s] # medium[s] =>
    \/ InChain(s \div csize) \/ InChain(s \div csize)'
    \/ TruncateFailed /\ s = fil.dsect]_vars

(* The bytes as a reader gets them: from the buffer when it has the sector *)
(* and was written to, else from the medium.                               *)
Logical(i) ==
    LET s == chain[i \div bcs + 1] * csize + ((i \div SS) % csize)
    IN (IF fil.dirty /\ s = fil.dsect THEN fil.buf ELSE medium[s])[i % SS]

Size == IF req.op = "write" /\ fil.fptr > fil.fsize THEN fil.fptr ELSE fil.fsize

Content == [i \in 1 .. Size |-> Logical(i - 1)]

(* The bytes the running f_write has still to put, and the places of all   *)
(* its bytes.                                                              *)
Todo == IF req.op = "write" THEN [i \in 1 .. req.left |-> Datum(Rest + i - 1)]
                            ELSE <<>>
Doubt == IF req.op \in {"write", "failed"}
         THEN fil.fptr - Rest + 1 .. fil.fptr + req.left ELSE {}

(* The object implements a file of bytes.                                  *)
AbstractFile == INSTANCE ByteFile WITH
    content <- Content,
    place <- fil.fptr,
    todo <- Todo,
    got <- rbuff,
    doubt <- Doubt,
    clean <- ~fil.written

Refinement == AbstractFile!Spec
=============================================================================
