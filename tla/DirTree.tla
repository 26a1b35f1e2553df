-------------------------------- MODULE DirTree --------------------------------
(***************************************************************************)
(* The directory tables of a volume and the functions that work on names   *)
(* (ff.c): tables of sectors, entries with long names, chains of clusters  *)
(* that grow, all through the one-sector window.                           *)
(*                                                                         *)
(* A function runs under the volume lock, so a call is one step; what the  *)
(* drive does in it is a choice made when it starts: no fault, one access  *)
(* that fails, a drive that fails from an access on, or a power loss       *)
(* there.  The functions are operators on a record x that holds the        *)
(* medium, the window, the running result and the current FDIR.            *)
(***************************************************************************)
EXTENDS Integers, Sequences, FiniteSets

CONSTANTS
    Names,          \* the segments of paths
    Long,           \* [Names -> parts of 13 characters, in upper case]
    Basis,          \* [Names -> the short name create_name makes]
    NS_LFN,         \* the names that need a long entry
    NS_LOSS,        \* those of them whose short name is not the name
    Sum,            \* [short names -> sum_sfn]
    Paths,          \* the paths of the calls: sequences of names
    MaxSeq,         \* numbers gen_numname is asked for (99 in the code)
    SecEntries,     \* entries in a sector (SS / SZ_DIRE)
    csize,          \* sectors in a cluster
    n_rootdir,      \* entries of the root directory of FAT12/16
    n_fatent,       \* clusters + 2
    Types,          \* a subset of {"FAT16", "FAT32"}
    Faults,         \* a subset of {"once", "dead", "power"}
    MaxFaults,      \* bound: the calls a fault strikes
    MaxCalls        \* bound: the calls in a row

VARIABLES
    fs_type,
    disk,           \* [sectors -> a FAT sector or a sequence of entries]
    win, winsect, wflag,
    ret,            \* the last call, [f, p, q], and what it returned, res
    torn,           \* a table or a directory was left in two minds (see Tear)
    calls, struck,  \* calls made, and those with a fault
    tree, stable    \* what the directories list, and those of the medium

fs == <<disk, win, winsect, wflag>>
vars == <<fs_type, disk, win, winsect, wflag, ret, torn,
          calls, struck, tree, stable>>

Clusters == 2 .. n_fatent - 1
EOC == n_fatent
None == -1
NoFault == [at |-> None, kind |-> "none"]

(* Sectors: the FAT, the static root directory, the clusters.              *)
FatSector == 0
RootSector == 1
clust2sect(cl) == RootSector + n_rootdir \div SecEntries + (cl - 2) * csize
Sectors == 0 .. clust2sect(n_fatent) - 1
dirbase == IF fs_type = "FAT32" THEN 2 ELSE RootSector

(* Entries: end of table, deleted, a part of a long name, an object.       *)
End == [k |-> "end"]
Deleted == [k |-> "del"]
LfnEntry(ord, last, sum, part) ==
    [k |-> "lfn", ord |-> ord, last |-> last, sum |-> sum, part |-> part]
Object(name, dir, ro, clust) ==
    [k |-> "sfn", name |-> name, dir |-> dir, ro |-> ro, clust |-> clust]
Dot == <<".", 0>>
DotDot == <<"..", 0>>
Ghost == Object(<<"GHOST", 0>>, FALSE, FALSE, 0)
Zeros == [i \in 1 .. SecEntries |-> End]

-----------------------------------------------------------------------------
(* The window and the drive.                                               *)

Ok(x) == x.res = "ok"
Set(x, r) == [x EXCEPT !.res = r]

(* x is left alone when it already has an error.                           *)
Then(x, F(_)) == IF Ok(x) THEN F(x) ELSE x

Tick(x) == [x EXCEPT !.used = @ + 1, !.left =
                IF x.left > 0 THEN x.left - 1
                ELSE IF x.left = 0 /\ x.lasting THEN 0 ELSE None]

Access(x, done) == IF x.left = 0 THEN Set(Tick(x), "disk_err") ELSE Tick(done)

sync_window(x) ==
    IF x.wflag
    THEN Access(x, [x EXCEPT !.disk[x.winsect] = x.win, !.wflag = FALSE])
    ELSE x

move_window(x, sect) ==
    LET Checked(z) == IF Ok(z) THEN z ELSE [z EXCEPT !.winsect = None]
        Read(y) == Checked(Access(y, [y EXCEPT !.win = y.disk[sect],
                                               !.winsect = sect]))
    IN  IF sect = x.winsect THEN x ELSE Then(sync_window(x), Read)

sync_fs(x) == LET Ioctl(y) == Access(y, y) IN Then(sync_window(x), Ioctl)

-----------------------------------------------------------------------------
(* The allocation table: one sector here (FatVolume has several).          *)

(* The new last cluster, after clst unless that is 0.                      *)
Link(tab, clst, new) == [c \in Clusters |-> IF c = new THEN EOC
                                            ELSE IF c = clst THEN new
                                            ELSE tab[c]]

(* create_chain: the cluster, or 0 when none is free, in x.cl.             *)
create_chain(x, clst, last) ==
    LET Take(y) ==
        LET scl == IF clst = 0 THEN last ELSE clst
            tab == y.win
            order == [i \in 1 .. n_fatent - 2 |->
                        2 + ((scl - 2 + i) % (n_fatent - 2))]
            free == {i \in DOMAIN order : tab[order[i]] = 0}
            first == order[CHOOSE i \in free : \A j \in free : i <= j]
        IN  IF clst # 0 /\ tab[clst] < 2 THEN Set(y, "int_err")
            ELSE IF clst # 0 /\ tab[clst] \in Clusters
            THEN [y EXCEPT !.cl = tab[clst]]
            ELSE IF free = {} THEN [y EXCEPT !.cl = 0]
            ELSE [y EXCEPT !.cl = first, !.wflag = TRUE,
                           !.win = Link(tab, clst, first)]
    IN  Then(move_window(x, FatSector), Take)

(* The clusters from c on.                                                 *)
ChainIn(tab, c) ==
    LET next(S) == S \cup {tab[d] : d \in {e \in S : tab[e] \in Clusters}}
        f[n \in 0 .. n_fatent] == IF n = 0 THEN {c} ELSE next(f[n - 1])
    IN  f[n_fatent]

remove_chain(x, clst) ==
    LET Free(y) == [y EXCEPT !.wflag = TRUE,
                             !.win = [c \in Clusters |->
                                IF c \in ChainIn(y.win, clst) THEN 0
                                ELSE y.win[c]]]
    IN  IF clst \notin Clusters THEN Set(x, "int_err")
        ELSE Then(move_window(x, FatSector), Free)

-----------------------------------------------------------------------------
(* Moving in a directory table.                                            *)

Slot(x) == 1 + (x.dp.index % SecEntries)
Entry(x) == x.win[Slot(x)]
Put(x, e) == [x EXCEPT !.win[Slot(x)] = e, !.wflag = TRUE]

RECURSIVE FollowTable(_, _, _)
FollowTable(x, clst, idx) ==
    LET NextOne(y) ==
            IF y.win[clst] \notin Clusters THEN Set(y, "int_err")
            ELSE FollowTable(y, y.win[clst], idx - SecEntries * csize)
    IN  IF idx < SecEntries * csize
        THEN [x EXCEPT !.dp.clust = clst,
                       !.dp.sect = clust2sect(clst) + idx \div SecEntries]
        ELSE Then(move_window(x, FatSector), NextOne)

dir_sdi(x, idx) ==
    LET y == [x EXCEPT !.dp.index = idx]
        clst == IF x.dp.sclust = 0 /\ fs_type = "FAT32"
                THEN dirbase ELSE x.dp.sclust
    IN  IF x.dp.sclust = 1 \/ x.dp.sclust >= n_fatent THEN Set(y, "int_err")
        ELSE IF clst # 0 THEN FollowTable(y, clst, idx)
        ELSE IF idx >= n_rootdir THEN Set(y, "int_err")
        ELSE [y EXCEPT !.dp.clust = 0,
                       !.dp.sect = dirbase + idx \div SecEntries]

(* The new cluster is in the chain before its sectors are cleared: a call  *)
(* that gets no further leaves what was in them in the directory.          *)
Tear(x) == IF Ok(x) THEN x ELSE [x EXCEPT !.torn = TRUE]

RECURSIVE Clear(_, _)
Clear(x, n) ==
    LET Step(y) == Clear([y EXCEPT !.winsect = @ + 1], n - 1)
    IN  IF n = 0 THEN x ELSE Then(sync_window([x EXCEPT !.wflag = TRUE]), Step)

Stretch(x) ==
    LET Rewind(z) == [z EXCEPT !.winsect = clust2sect(z.cl)]
        Fill(z) == Then(Clear([Rewind(z) EXCEPT !.win = Zeros], csize), Rewind)
        Made(y) == IF y.cl = 0 THEN Set(y, "denied")
                   ELSE Tear(Then(sync_window(y), Fill))
    IN  Then(create_chain(x, x.dp.clust, 0), Made)

dir_next(x, stretch) ==
    LET i == x.dp.index + 1
        At(y) == [y EXCEPT !.dp.index = i]
        Enter(y, cl) == At([y EXCEPT !.dp.clust = cl,
                                     !.dp.sect = clust2sect(cl)])
        EnterNew(y) == Enter(y, y.cl)
        NextCluster(y) ==
            IF y.win[y.dp.clust] < 2 THEN Set(y, "int_err")
            ELSE IF y.win[y.dp.clust] \in Clusters
            THEN Enter(y, y.win[y.dp.clust])
            ELSE IF ~stretch THEN Set(y, "no_file")
            ELSE Then(Stretch(y), EnterNew)
        s == [x EXCEPT !.dp.sect = @ + 1]
    IN  IF x.dp.sect = 0 THEN Set(x, "no_file")
        ELSE IF i % SecEntries # 0 THEN At(x)
        ELSE IF x.dp.clust = 0
        THEN IF i >= n_rootdir THEN Set(s, "no_file") ELSE At(s)
        ELSE IF (i \div SecEntries) % csize # 0 THEN At(s)
        ELSE Then(move_window(s, FatSector), NextCluster)

(* A block of nent free entries; the current entry is its last one.        *)
RECURSIVE FindFree(_, _, _)
FindFree(x, n, nent) ==
    LET Look(y) ==
            LET m == IF Entry(y).k \in {"end", "del"} THEN n + 1 ELSE 0
                On(z) == FindFree(z, m, nent)
            IN  IF m = nent THEN y ELSE Then(dir_next(y, TRUE), On)
    IN  Then(move_window(x, x.dp.sect), Look)

dir_alloc(x, nent) ==
    LET Full(z) == IF z.res = "no_file" THEN Set(z, "denied") ELSE z
    IN  Full(Then(dir_sdi(x, 0), LAMBDA z : FindFree(z, 0, nent)))

-----------------------------------------------------------------------------
(* Names.  A name to look for: fn, whether fn is lossy, and the long name  *)
(* (<<>> when only the short name counts).                                 *)

create_name(n) ==
    [fn |-> Basis[n], loss |-> n \in NS_LOSS, lfn |-> Long[n]]

gen_numname(fn, seq) == <<fn[1], seq>>

cmp_lfn(lfn, e) ==
    /\ e.ord <= Len(lfn) /\ lfn[e.ord] = e.part
    /\ e.last => e.ord = Len(lfn)

NoOrd == 255

(* ord and sum are those of the sequence of long entries being matched.    *)
RECURSIVE FindScan(_, _, _, _)
FindScan(x, nm, ord, sum) ==
    LET Look(y) ==
            LET e == Entry(y)
                top == e.k = "lfn" /\ nm.lfn # <<>> /\ e.last
                o == IF top THEN e.ord ELSE ord
                s == IF top THEN e.sum ELSE sum
                matched == \/ ord = 0 /\ sum = Sum[e.name]
                           \/ ~nm.loss /\ e.name = nm.fn
                next == CASE e.k # "lfn" -> NoOrd
                          [] nm.lfn = <<>> -> ord
                          [] OTHER -> IF /\ e.ord = o /\ e.sum = s
                                         /\ cmp_lfn(nm.lfn, e)
                                      THEN o - 1 ELSE NoOrd
                top_at == IF e.k # "lfn" THEN None
                          ELSE IF top THEN y.dp.index ELSE y.dp.lfn_idx
                On(z) == FindScan(z, nm, next, s)
            IN  IF e.k = "end" THEN Set(y, "no_file")
                ELSE IF e.k = "sfn" /\ matched THEN y
                ELSE Then(dir_next([y EXCEPT !.dp.lfn_idx = top_at], FALSE), On)
    IN  Then(move_window(x, x.dp.sect), Look)

dir_find(x, nm) ==
    Then(dir_sdi(x, 0), LAMBDA y :
         FindScan([y EXCEPT !.dp.lfn_idx = None], nm, NoOrd, NoOrd))

(* The next object, its long name in x.lfn; dot entries are passed over.   *)
RECURSIVE ReadScan(_, _, _)
ReadScan(x, ord, sum) ==
    LET Look(y) ==
            LET e == Entry(y)
                skip == \/ e.k = "del"
                        \/ e.k = "sfn" /\ e.name \in {Dot, DotDot}
                top == e.k = "lfn" /\ e.last
                o == IF top THEN e.ord ELSE ord
                s == IF top THEN e.sum ELSE sum
                picked == e.k = "lfn" /\ e.ord = o /\ e.sum = s
                next == IF skip \/ ~picked THEN NoOrd ELSE o - 1
                long == [i \in 1 .. (IF top THEN e.ord ELSE Len(y.lfn)) |->
                            IF i = e.ord THEN e.part
                            ELSE IF top THEN "?" ELSE y.lfn[i]]
                seen == [y EXCEPT !.lfn = IF picked THEN long ELSE @,
                                  !.dp.lfn_idx = IF top THEN y.dp.index ELSE @]
                On(z) == ReadScan(z, next, s)
            IN  IF e.k = "end" THEN Set(y, "no_file")
                ELSE IF e.k = "sfn" /\ ~skip
                THEN IF ord = 0 /\ sum = Sum[e.name] THEN y
                     ELSE [y EXCEPT !.dp.lfn_idx = None]
                ELSE Then(dir_next(seen, FALSE), On)
    IN  Then(move_window(x, x.dp.sect), Look)

dir_read(x) ==
    LET Ended(y) == IF Ok(y) THEN y ELSE [y EXCEPT !.dp.sect = 0]
    IN  Ended(IF x.dp.sect = 0 THEN Set(x, "no_file")
              ELSE ReadScan(x, NoOrd, NoOrd))

-----------------------------------------------------------------------------
(* Entering and removing an object.                                        *)

(* Mutant: the number is not looked up.                                    *)
NumberUnchecked(x, n, seq) == [x EXCEPT !.fn = gen_numname(Basis[n], seq)]

(* The short name: the first number no short name of the table has.        *)
RECURSIVE Number(_, _, _)
Number(x, n, seq) ==
    LET fn == gen_numname(Basis[n], seq)
        Try(y) == CASE Ok(y) -> Number(y, n, seq + 1)
                    [] y.res = "no_file" -> [y EXCEPT !.res = "ok", !.fn = fn]
                    [] OTHER -> y
    IN  IF seq > MaxSeq THEN Set(x, "denied")
        ELSE Try(dir_find(x, [fn |-> fn, loss |-> FALSE, lfn |-> <<>>]))

RECURSIVE PutLong(_, _, _)
PutLong(x, lfn, ord) ==
    LET Fit(z) == Put(z, LfnEntry(ord, ord = Len(lfn), Sum[z.fn], lfn[ord]))
        Step(z) == dir_next(z, FALSE)
        On(z) == PutLong(z, lfn, ord - 1)
    IN  IF ord = 0 THEN x
        ELSE Then(Then(Then(move_window(x, x.dp.sect), Fit), Step), On)

dir_register(x, n) ==
    LET lfn == IF n \in NS_LFN THEN Long[n] ELSE <<>>
        named == IF n \in NS_LOSS THEN Number(x, n, 1)
                 ELSE [x EXCEPT !.fn = Basis[n]]
        Longs(y) == IF lfn = <<>> THEN y
                    ELSE Then(dir_sdi(y, y.dp.index - Len(lfn)),
                              LAMBDA z : PutLong(z, lfn, Len(lfn)))
        Window(y) == move_window(y, y.dp.sect)
        Short(y) == Put(y, Object(y.fn, FALSE, FALSE, 0))
    IN  Then(Then(Then(Then(named, LAMBDA y : dir_alloc(y, Len(lfn) + 1)),
                       Longs), Window), Short)

(* Mutant: the long entries are left.                                      *)
dir_removeShort(x) ==
    LET Mark(y) == Put(y, Deleted)
        Window(y) == move_window(y, y.dp.sect)
    IN  Then(Then(dir_sdi(x, x.dp.index), Window), Mark)

RECURSIVE Wipe(_, _)
Wipe(x, last) ==
    LET Mark(y) == Put(y, Deleted)
        On(y) == Wipe(y, last)
        Further(y) == IF y.dp.index >= last THEN y
                    ELSE Then(dir_next(y, FALSE), On)
    IN  Then(Then(move_window(x, x.dp.sect), Mark), Further)

dir_remove(x) ==
    LET Ended(y) == IF y.res = "no_file" THEN Set(y, "int_err") ELSE y
        first == IF x.dp.lfn_idx = None THEN x.dp.index ELSE x.dp.lfn_idx
    IN  Ended(Then(dir_sdi(x, first), LAMBDA y : Wipe(y, x.dp.index)))

RECURSIVE Follow(_, _)
Follow(x, path) ==
    LET Down(y) ==
            CASE Len(path) = 1 -> y
              [] Len(path) > 1 /\ y.res = "no_file" -> Set(y, "no_path")
              [] Len(path) > 1 /\ Ok(y) ->
                    IF ~Entry(y).dir THEN Set(y, "no_path")
                    ELSE Follow([y EXCEPT !.dp.sclust = Entry(y).clust],
                                Tail(path))
              [] OTHER -> y
    IN  Down(dir_find(x, create_name(Head(path))))

follow_path(x, path) == Follow([x EXCEPT !.dp.sclust = 0], path)

Leaf(path) == path[Len(path)]

-----------------------------------------------------------------------------
(* The file functions, on x.                                               *)

(* F, if the search that ended in x found no such object.                  *)
Absent(x, F(_)) == IF Ok(x) THEN Set(x, "exist")
                   ELSE IF x.res = "no_file" THEN F(Set(x, "ok")) ELSE x

(* With FA_CREATE_NEW: the entry is in the window when it returns.         *)
f_open(x, path) ==
    Absent(follow_path(x, path), LAMBDA y : dir_register(y, Leaf(path)))

(* The table of a new directory, of cluster x.cl.                          *)
NewTable(x) ==
    LET dots == [i \in 1 .. SecEntries |->
                    CASE i = 1 -> Object(Dot, TRUE, FALSE, x.cl)
                      [] i = 2 -> Object(DotDot, TRUE, FALSE, x.dp.sclust)
                      [] OTHER -> End]
        Dots(z) == sync_window([z EXCEPT !.win = dots, !.wflag = TRUE,
                                         !.winsect = clust2sect(x.cl)])
        Rest(z) == Clear([z EXCEPT !.win = Zeros, !.winsect = @ + 1], csize - 1)
        Last(z) == [z EXCEPT !.winsect = @ - 1]
    IN  Then(Then(Then(sync_window(x), Dots), Rest), Last)

NewDir(x, n) ==
    LET Fill(z) == Put(z, Object(z.fn, TRUE, FALSE, x.cl))
        Ended(z) == IF Ok(z) THEN Then(Fill(z), sync_fs)
                    ELSE Set(remove_chain(Set(z, "ok"), x.cl), z.res)
    IN  IF x.cl = 0 THEN Set(x, "denied")
        ELSE Ended(Then(NewTable(x), LAMBDA z : dir_register(z, n)))

f_mkdir(x, path, last) ==
    Absent(follow_path(x, path), LAMBDA y :
           Then(create_chain(y, 0, last), LAMBDA z : NewDir(z, Leaf(path))))

(* Only a directory without objects is removed.                            *)
Probe(x, clust) ==
    LET Verdict(r) == [(CASE Ok(r) -> Set(r, "denied")
                          [] r.res = "no_file" -> Set(r, "ok")
                          [] OTHER -> r) EXCEPT !.dp = x.dp]
    IN  Verdict(Then(dir_sdi([x EXCEPT !.dp.sclust = clust], 2), dir_read))

Delete(x, e) ==
    LET Chain(z) == IF e.clust # 0 THEN remove_chain(z, e.clust) ELSE z
        empty == IF e.dir /\ e.clust # 0 THEN Probe(x, e.clust) ELSE x
    IN  IF e.ro THEN Set(x, "denied")
        ELSE Then(Then(Then(empty, dir_remove), Chain), sync_fs)

f_unlink(x, path) ==
    Then(follow_path(x, path), LAMBDA y : Delete(y, Entry(y)))

(* Mutant: ".." is forgotten.                                              *)
SetParentNever(x, clust) == x

(* The ".." of a directory whose first sector is in the window.            *)
SetParent(x, clust) ==
    IF x.win[2].name = DotDot
    THEN [x EXCEPT !.win[2].clust = clust, !.wflag = TRUE] ELSE x

(* The new entry is at x.dp, the old one was e, at dp.  Both hold the      *)
(* object until the old one is removed.                                    *)
Replace(x, e, dp) ==
    LET both == Put(x, Object(x.fn, e.dir, e.ro, e.clust))
        Parent(w) == SetParent(w, x.dp.sclust)
        Remove(w) == dir_remove([w EXCEPT !.dp = dp])
        Kept(w) == IF e.dir THEN Tear(w) ELSE w
    IN  Kept(Then(Then(IF e.dir /\ dp.sclust # x.dp.sclust
                       THEN Then(move_window(both, clust2sect(e.clust)), Parent)
                       ELSE both,
                       Remove), sync_fs))

f_rename(x, old, new) ==
    Then(follow_path(x, old), LAMBDA y :
         Absent(follow_path(y, new), LAMBDA z :
                Then(dir_register(z, Leaf(new)), LAMBDA r :
                     Replace(r, Entry(y), y.dp))))

f_chmod(x, path, ro) ==
    LET Apply(y) == Put(y, [Entry(y) EXCEPT !.ro = ro])
    IN  Then(Then(follow_path(x, path), Apply), sync_fs)

(* A call of f_readdir: the object, or none in x.dp.sect = 0, in x.info.   *)
f_readdir(x) ==
    LET Item(y) ==
            LET e == Entry(y)
                info == [name |-> e.name, dir |-> e.dir, ro |-> e.ro,
                         clust |-> e.clust,
                         long |-> IF y.dp.lfn_idx = None THEN <<>> ELSE y.lfn]
            IN  [y EXCEPT !.info = <<info>>]
        On(z) == dir_next(z, FALSE)
        AtLast(z) == IF z.res # "no_file" THEN z
                     ELSE [z EXCEPT !.res = "ok", !.dp.sect = 0]
        Listed(y) == IF y.res = "no_file"
                     THEN [y EXCEPT !.res = "ok", !.info = <<>>]
                     ELSE AtLast(Then(Then(y, Item), On))
    IN  Listed(dir_read(x))

-----------------------------------------------------------------------------
(* What is in the directories.                                             *)

NoDir == [sclust |-> 0, index |-> 0, clust |-> 0, sect |-> 0, lfn_idx |-> None]

Start(fault, D) ==
    [disk |-> D, win |-> win, winsect |-> winsect, wflag |-> wflag,
     used |-> 0, left |-> fault.at, lasting |-> fault.kind # "once",
     res |-> "ok", torn |-> torn, cl |-> 0, fn |-> <<>>, lfn |-> <<>>,
     info |-> <<>>, dp |-> NoDir]

(* The medium with the edit that waits in the window.                      *)
View(x) == IF x.wflag THEN [x.disk EXCEPT ![x.winsect] = x.win] ELSE x.disk

Opened(D, sclust) ==
    LET x == [Start(NoFault, D) EXCEPT !.winsect = None, !.wflag = FALSE]
    IN  [x EXCEPT !.dp.sclust = sclust]

RECURSIVE Readdir(_)
Readdir(x) ==
    LET Rest(y) == IF y.info = <<>> \/ ~Ok(y) THEN <<>>
                   ELSE y.info \o Readdir(y)
    IN  Rest(f_readdir(x))

List(D, sclust) == Readdir(dir_sdi(Opened(D, sclust), 0))

(* The objects below a directory, each with the short names on its path.   *)
RECURSIVE Below(_, _, _)
Below(D, sclust, at) ==
    LET Of(items) ==
            UNION {{[at |-> at, short |-> o.name, long |-> o.long,
                     dir |-> o.dir, ro |-> o.ro]}
                   \cup (IF o.dir THEN Below(D, o.clust, Append(at, o.name))
                                  ELSE {})
                   : o \in {items[i] : i \in DOMAIN items}}
    IN  Of(List(D, sclust))

Tree(D) == Below(D, 0, <<>>)

-----------------------------------------------------------------------------
(* The calls.                                                              *)

Asks(f, p, q) == [f |-> f, p |-> p, q |-> q, res |-> "ok"]

(* With the power the window goes; the next call mounts again.             *)
Finish(call, x, fault) ==
    LET kept == fault.kind # "power" /\ x.winsect # None
    IN  /\ disk' = x.disk
        /\ win' = IF kept THEN x.win ELSE <<>>
        /\ winsect' = IF kept THEN x.winsect ELSE None
        /\ wflag' = (fault.kind # "power" /\ x.wflag)
        /\ ret' = [call EXCEPT !.res = IF fault.kind = "power" THEN "lost"
                                      ELSE x.res]
        /\ torn' = x.torn
        /\ calls' = calls + 1
        /\ struck' = IF fault = NoFault THEN struck ELSE struck + 1
        /\ stable' = IF x.torn THEN {}
                     ELSE IF x.disk = disk THEN stable ELSE Tree(x.disk)
        /\ tree' = IF x.torn \/ fault.kind = "power" \/ ~x.wflag THEN stable'
                   ELSE IF View(x) = x.disk THEN stable' ELSE Tree(View(x))
        /\ UNCHANGED fs_type

(* The power may also go right after the last access.                      *)
FaultsOf(used) ==
    [at : 0 .. used - 1, kind : Faults]
    \cup [at : {used}, kind : Faults \cap {"power"}]

(* How many accesses a call makes is known from the same call without a    *)
(* fault.  Behaviours end at MaxCalls, and when nothing is promised.       *)
Call(call, F(_)) ==
    /\ calls < MaxCalls /\ ~torn
    /\ \E fault \in {NoFault} \cup
                    (IF struck < MaxFaults
                     THEN FaultsOf(F(Start(NoFault, disk)).used) ELSE {}) :
            \E x \in {F(Start(fault, disk))} : Finish(call, x, fault)

Create == \E p \in Paths :
    Call(Asks("f_open", p, <<>>), LAMBDA x : f_open(x, p))

(* last: where FSINFO says to look for a free cluster, any value it has.   *)
Mkdir == \E p \in Paths, last \in Clusters :
    Call(Asks("f_mkdir", p, <<>>), LAMBDA x : f_mkdir(x, p, last))

Unlink == \E p \in Paths :
    Call(Asks("f_unlink", p, <<>>), LAMBDA x : f_unlink(x, p))

(* The caller does not move a directory into itself: f_rename would.       *)
Into(old, new) ==
    Len(old) < Len(new) /\ \A i \in DOMAIN old : old[i] = new[i]
Rename == \E p, q \in Paths :
    /\ ~Into(p, q)
    /\ Call(Asks("f_rename", p, q), LAMBDA x : f_rename(x, p, q))

Chmod == \E p \in Paths :
    Call(Asks("f_chmod", p, <<>>), LAMBDA x : f_chmod(x, p, TRUE))

(* f_sync or f_close of some file (FatVolume and FileData model it).       *)
Sync == Call(Asks("f_sync", <<>>, <<>>), sync_fs)

(* The clusters hold what a volume in use before a quick format left.      *)
Old == [i \in 1 .. SecEntries |-> Ghost]
Init ==
    /\ fs_type \in Types
    /\ disk = [s \in Sectors |->
                IF s = FatSector
                THEN [c \in Clusters |->
                        IF c = 2 /\ fs_type = "FAT32" THEN EOC ELSE 0]
                ELSE IF s < clust2sect(IF fs_type = "FAT32" THEN 3 ELSE 2)
                THEN Zeros ELSE Old]
    /\ win = <<>> /\ winsect = None /\ wflag = FALSE
    /\ ret = Asks("f_mount", <<>>, <<>>) /\ torn = FALSE /\ tree = {} /\ stable = {}
    /\ calls = 0 /\ struck = 0

Next == Create \/ Mkdir \/ Unlink \/ Rename \/ Chmod \/ Sync

Spec == Init /\ [][Next]_vars

-----------------------------------------------------------------------------

NS == INSTANCE NameSpace WITH
    scarred <- struck > 0, broken <- torn

(* The entries of directories, in the tables of a subtree.                 *)
RECURSIVE DirsBelow(_, _)
DirsBelow(D, sclust) ==
    LET Of(here) == here \cup UNION {DirsBelow(D, e.to) : e \in here}
        Dirs(items) == {[parent |-> sclust, slot |-> i, to |-> items[i].clust]
                        : i \in {j \in DOMAIN items : items[j].dir}}
    IN  Of(Dirs(List(D, sclust)))

-----------------------------------------------------------------------------
(* Properties.                                                             *)

TypeOK ==
    /\ fs_type \in Types /\ DOMAIN disk = Sectors
    /\ winsect \in Sectors \cup {None} /\ wflag \in BOOLEAN /\ torn \in BOOLEAN
    /\ wflag => winsect # None

(* The window is the sector it says it is, also after the functions that   *)
(* fill it by hand and count winsect on by themselves (f_mkdir, and        *)
(* dir_next when it stretches a table), however they end.                  *)
WindowTrue == winsect # None /\ ~wflag => win = disk[winsect]

(* Directories share no cluster, are never on a free one, and know         *)
(* themselves by "." and their parent by "..", in memory and on the        *)
(* medium, whatever call a fault has cut short.                            *)
TablesApartIn(D) ==
    LET dirs == DirsBelow(D, 0)
        tab == D[FatSector]
    IN  /\ \A d \in dirs :
            /\ \A c \in ChainIn(tab, d.to) : tab[c] # 0
            /\ D[clust2sect(d.to)][1].clust = d.to
            /\ D[clust2sect(d.to)][2].clust = d.parent
        /\ \A d, e \in dirs :
            d # e => ChainIn(tab, d.to) \cap ChainIn(tab, e.to) = {}
        /\ fs_type = "FAT32" => \A d \in dirs : 2 \notin ChainIn(tab, d.to)
TablesApart ==
    /\ TypeOK /\ WindowTrue
    /\ ~torn => TablesApartIn(disk) /\ TablesApartIn(View(Start(NoFault, disk)))

(* As long as no call has met a fault, a name has one answer: no two       *)
(* objects of a directory have the same short name, the numbered ones and  *)
(* those that are names themselves, or the same long name.                 *)
NamesUnique == struck = 0 => \A o, p \in tree :
    o # p /\ o.at = p.at =>
        o.short # p.short /\ (o.long = <<>> \/ o.long # p.long)

(* The calls keep the promises of NameSpace.                               *)
Promise == NS!Spec

=============================================================================
