# Verification of StratifyOS-fatfs

TLA+ modules, TLC runs and TLAPS proofs for the FAT file system of StratifyOS:
ChaN's FatFs (`src/src/ff.c`) under a POSIX layer (`fatfs.c`), over a retrying
drive interface (`diskio.c`, `fatfs_dev.c`), with a mutex per volume
(`option/syscall.c`). The build modelled is the one `ffconf.h` configures:
`_FS_TINY 0`, `_FS_READONLY 0`, `_FS_LOCK 0`, `_FS_REENTRANT 1`,
`_FS_NOFSINFO 0`, `_USE_LFN 2`, `_USE_MKFS 1`, sectors of 512 bytes.

## 1. Inventory

| Part | State | Operations | Correct when |
|---|---|---|---|
| Window (`ff.c` sync_window, move_window, sync_fs) | `win`, `winsect`, `wflag` | load a sector, write the dirty one back, compose FSINFO or a new directory in place | a hit shows the truth; edits reach the medium whole and in order; the second FAT copy never runs ahead |
| Allocation table (get_fat, put_fat, create_chain, remove_chain, f_getfree) | the FAT, `free_clust`, `last_clust`, `fsi_flag` | allocate and link, free a chain, count | no cluster in two chains, none lost, none linked while free; the count is exact or unknown; the scan ends |
| Directory (dir_sdi, dir_next, dir_alloc, dir_find, dir_read, dir_register, dir_remove) | entries of 32 bytes in sectors and clusters, `FDIR` | walk, find, allocate, stretch, register, remove | an entry names the start of its chain and a size the chain covers; a name finds one object; tables share no cluster |
| File objects (f_open, f_read, f_write, f_lseek, f_sync, f_close, f_truncate) | `FIL`: offset, size, start and current cluster, flags, sector buffer | as named | the current cluster is the chain's at the offset; the buffer is the sector it names; a read gives the bytes last written; what f_sync reported saved is on the medium |
| Name functions (f_unlink, f_rename, f_mkdir, f_stat, f_chmod, f_utime) | none of their own | as named | a failure half-way loses no file |
| Mounting (find_volume, check_fs, f_mount, validate) | `fs_type`, `id`, `FatFs[]` | mount on first use, unmount, reject stale objects | counters match the medium; a stale object is refused |
| Volume lock (`option/syscall.c`, ENTER_FF/LEAVE_FF) | one recursive mutex a volume | lock with a time-out, unlock, create, destroy, force unlock | one file function at a time; every path unlocks |
| Drive (`diskio.c`, `fatfs_dev.c`) | the shared drive handle | read, write (8 tries), wait while busy, erase, open | success means transferred; a wait ends |
| POSIX layer (`fatfs.c`) | handles | seek then read or write, open flags, mount | offsets belong to their caller |
| Volume creation (f_mkfs) | the layout on the drive | compute, write boot sector, FAT, root, FSINFO | what it wrote mounts, with the same areas, inside the drive |
| Long names (create_name, gen_numname, cmp_lfn, fit_lfn) | entries in front of a short one | make, number, compare | two names never answer for one object |
| Code pages (`option/cc*.c`) | - | convert characters | see section 8 |

**Interaction.** A caller enters through `fatfs.c`, which builds a path and
calls one `ff.c` function. That function takes the volume lock in `find_volume`
(by path; mounts if needed) or `validate` (by object) and gives it back in
`LEAVE_FF`. In between it moves the one window of the volume over FAT and
directory sectors; nothing is written until the window leaves a dirty sector or
`sync_fs` runs. Every transfer goes through `disk_read`/`disk_write` to the
drive, which may fail after having written.

**What is hard here.** A file function is a series of single-sector writes, any
of which can fail or be the last before power is lost; their order is decided
by which sectors happen to share the window. Cached state (current cluster,
free count, hint, raw pointers into the window) outlives the function that set
it. Several functions continue after an error with part of their work done.
`f_close` gives the lock back in its middle. The complete list is `hazards` in
`PROJECT.json`, each at its line.

## 2. Modules

| Module | What it is |
|---|---|
| `OrderedStore` | Abstract: a store of sectors with one dirty edit at a time ahead of the medium, written back before another sector is edited. Theorems inside. |
| `FatWindow` | The window, one disk transfer a step: two FAT copies, failures, power loss, FSINFO, f_mkdir's direct use. Implements `OrderedStore`. |
| `FatWindowProofs` | Its inductive invariant and the refinement, proved. |
| `FatVolume` | The core: FAT, directory, FSINFO, FATFS and FIL objects under f_open, f_write, f_lseek, f_sync, f_close, f_unlink, f_rename, f_getfree, f_stat, mount, unmount, power loss. |
| `FatVolumeProofs` | Its inductive invariants, proved: type correctness, window coherence and what the medium may become; who owns a cluster (no dangling start, no cluster in two chains); what a chain holds (sizes covered, FIL objects on their chains). |
| `FatVolumeFlush` | Proved on top of that: what reaches the medium (what was synced survives), the free count, and that no cluster is lost. |
| `DiskService` | Abstract: what `ff.c` counts on from the disk functions. A transfer may do part of its work in pieces; "ok" means all of it was done. |
| `DriveIO` | `disk_read`, `disk_write` and `CTRL_SYNC` over `fatfs_dev.c`: polls, transfers, resets, retries. Implements `DiskService`. |
| `DriveIOProofs` | Its inductive invariant, the refinement, and the conditions under which it waits for the drive, proved. |
| `VolumeLock` | `option/syscall.c`, ENTER_FF/LEAVE_FF, `validate` and `find_volume` around the lock, f_mount without it: one lock operation a step, several tasks. |
| `PosixLayer` | The calls of `fatfs.c` over `VolumeLock` (it EXTENDS it): handles, seek then transfer, mount and unmount. |
| `PosixLayerProofs` | The safety of both, proved. |
| `ByteFile` | Abstract: an open file as a sequence of bytes and a place in it, with what a failed write may damage. |
| `FileData` | f_read, f_write, f_lseek, f_truncate, f_sync and f_close over the private sector buffer and the direct path. Implements `ByteFile`. |
| `FileDataProofs` | Its two inductive invariants and the refinement, proved. |
| `NameSpace` | Abstract: a tree of named objects, the part of it on the medium, and calls that do all or nothing, or one of the few things a fault may leave. |
| `DirTree` | Directory tables with long names: dir_sdi, dir_next, dir_alloc, dir_find, dir_read, dir_register, dir_remove, follow_path, and f_open (creation), f_mkdir, f_unlink, f_rename, f_chmod, f_opendir and f_readdir on them. Implements `NameSpace`. |
| `VolumeLayout` | f_mkfs, find_volume, clust2sect and the bytes of get_fat and put_fat, FAT12 included, with the real sizes. |
| `VolumeLayoutProofs` | Its inductive invariant and all its properties, proved for drives of any size. |
| `MC...` | Values for TLC: sectors, names, drives, the functions a run calls, a view. |

The layers meet at their contracts. `FatVolume`, `DirTree` and `VolumeLayout`
take from `FatWindow` that what is read through the window is the edited metadata
and that edits go out in order, whole or not at all (`OrderedStore`). `FatWindow`
and `FileData` take from `DriveIO` that an OK transfer is done and that a failed
one may have been done, in part or not (`DiskService`). That a file function
runs alone, which every module but `PosixLayer` builds on, is what
`MutualExclusion` proves. `FileData` takes the chain of its file from
`FatVolume`, which takes from `FileData` that data go to the sectors of that
chain, but for one write of a failed f_truncate (`OwnSectors`, section 4).
`PosixLayer` takes from `FatVolume` that the chain of a file covers its size
(`SizeCovered`). `FatVolume` writes a FAT entry in one step: `VolumeLayout`
shows that this is so for FAT16 and FAT32, and for FAT12 only where the entry
does not lie across two sectors.

Definitions whose comment starts with "Mutant:" are plausible mistakes in the
definition that follows them. They are not part of any specification; each is
put in the place of its original to see that a property notices.

### How FatVolume stands for the code

* `fat` and `dir` are the metadata as the code reads them through the window;
  `dfat` and `ddir` are what the medium holds. They differ only in the sector
  under a dirty window (`WindowCoherent`). `Visit(S, last, edit)` is what a
  series of `move_window` calls over the sectors `S` does, ending on `last`,
  where the caller edits: if all of `S` is under the window nothing moves, else
  the dirty sector goes out first. Only the first miss can write, so a step
  makes at most one write to the medium. `WriteBackFails` and `LoadFails` are
  its two failures: a write-back that reported an error, whether or not the
  medium took it, and a read after it, which leaves `winsect` invalid.
* The volume lock makes file functions atomic to one another, so `pc` is the
  next step of the one that runs and `op` its locals. Steps are cut where a
  write to the medium can fall: the links of a chain, the entry, FSINFO.
* `f_close` is `f_sync` (`SyncStart`/`SyncClean` with `closing`) followed by
  `Close` under a second lock; other functions run in between.
* `create_chain` is `ChainFollowed`, `ChainBroken`, `ChainMark` then
  `ChainLink`, `ChainFull`, `ChainFails`; `remove_chain` one `RemoveLink` a turn,
  `RemoveStops`, `RemoveFails`. Both return to the step `op.ret` names.
* `free_clust` keeps `0xFFFFFFFF` (`Unknown`, which is also what 0 - 1 wraps to).
* `Exclusive` says that the application does what `_FS_LOCK` would enforce: it
  does not open a file twice when one of them writes, nor remove or rename an
  open one. One run sets it FALSE.
* `durable` is a history variable: the size f_sync or f_close promised.

**Abstractions.** Offsets and sizes are whole clusters and f_write writes one
cluster at a boundary (the cluster bookkeeping happens only there). The
directory does not stretch, a file takes one entry (`DirTree` has the rest).
With `FsInfo` the volume is FAT32-like: the directory has the cluster `Root` and
FSINFO exists. `CTRL_SYNC` always succeeds, which is what `diskio.c:113-117`
does (section 4), and the result of the FSINFO write is ignored (`ff.c:737`), as
in the code.

### How DriveIO stands for the code

* `pc` is where the disk function is: polling in `fatfs_dev_waitbusy`, about to
  attempt the transfer, or at the test that ends the retry loop. `after` is where
  `fatfs_dev_waitbusy` returns to: the attempt, `reinitalize_drive`, the second
  wait a read does after a reset, or `disk_ioctl(CTRL_SYNC)`. These differ in what
  they do with a time-out: the first and third return an error, the others
  ignore it.
* `WaitEnds` and `Expired` are the loop condition and the test after the loop;
  they are separate because the code tests the count and not the last poll.
* `drive` is the environment: busy or ready, changed by transfers, by itself and
  by other users of the shared handle. A short write takes any subset of the
  sectors, a short read leaves anything in the buffer.
* Time is the number of polls; the back-off of the wait is left out.
  `MAX_RETRIES` (8 in the code) and the limit of polls are parameters.

### How VolumeLock and PosixLayer stand for the code

* `task[t]` is the file function of a task: `pc` its place, `fn` which one, `obj`
  its FIL or FDIR, `res` its result. The places are what other tasks can come
  between: the test of the object outside the lock (`Entered`), the wait
  (`TimedLock`, `TimedOut`), the scheduler call that delays signals (`SetDelay`),
  `disk_status`, the mount, the body, the two halves of leaving (`Leave`,
  `Unlock`), and the three steps of f_mount (`DeleteLock`, `CreateLock`,
  `ClearMounted`).
* `mutex` is the one recursive pthread mutex of the volume; `sobj` says whether it
  is created or destroyed.
* `Leave` has the condition of `unlock_fs`, which gives nothing back for
  FR_INVALID_DRIVE, FR_INVALID_OBJECT and FR_TIMEOUT. f_rename looks at the drive
  number of its new path with the lock held (`ff.c:3727`), so it can leave with
  the lock; so do f_close and f_closedir, which call `unlock_fs` only after FR_OK.
  `leaks` counts these ways out and nothing else. A task that has leaked
  `MaxLeaks` locks makes no further call.
* `job[t]` is the call of `fatfs.c` a task is in. `fatfs_read` and `fatfs_write`
  compare `loc` with `f->fptr` and make one or two file functions (`Read`,
  `SeekDone`, `Transfer`); `fatfs_close` is `f_sync` and the rest of `f_close`
  (`CloseGoesOn`). `user` is the allocation of the handle.
* `file[o]` is what `fatfs.c` and the two functions of a transfer see of a FIL:
  `fptr`, `fsize`, FA_WRITE and whether ABORT has marked it. `Outcomes` is what a
  body makes of it. f_lseek answers FR_OK at three places (`Seeked`): at the
  one it was asked for; for a handle that only reads, at the end of the file
  (`ff.c:3085`); for one that writes, wherever the disk got full, with the size
  stretched so far (`ff.c:3104-3119`, `3152`). `fatfs_read` and `fatfs_write` look
  at the result only, and so does the model. A transfer moves the offset by one
  place, or not at all at the end of the file or of the disk (`Ends`).
* `Marked` is the one form of a marked object and of freed memory: f_read, f_write
  and f_lseek turn it away, so that its offset decides nothing more.
* Environment: the drive may lose its initialization (`Eject`), a process may be
  killed where no delay is set (`Killed`, which frees its lock as
  `fatfs_unlock` does), and `ff_cre_syncobj` may answer 0 or -1.

**Assumptions on what is outside `src/`.** The mutex is recursive, a lock or an
unlock of a dead one fails, and one that is held or dead is not destroyed; while
a task's delay mutex is set no signal kills it; the forced unlock takes a lock
only from the process that dies. A handle is used by the process that opened it, and
a file is not removed or opened a second time while one handle writes it (what
`Exclusive` says in `FatVolume`). The volume is mounted at start-up.

### How FileData stands for the code

A turn of the loop of f_read or f_write is a step: direct (`WriteDirect`,
`ReadDirect`), at a sector boundary through the buffer (`WriteSector`,
`ReadSector`), inside a sector (`WriteInside`, `ReadInside`). `fil` is the FIL,
`req` the locals. A step that fails can fail in the FAT, at the write-back of
the buffer, which the medium may have taken, or after some sectors of the run.
The chain is a sequence of clusters that `create_chain` may stretch by any free
one or not. The memory of a request may be word aligned or not, which is what
the code tests (`ff.c:2593`, `2723`). An object whose f_truncate failed with a
dirty buffer is `TruncateFailed`: marked, with a request of nobody, and at its own
end, where no other failure leaves an object with a dirty buffer.

### How DirTree stands for the code

The functions keep their names and are operators on a record: the medium, the
window (`win`, `winsect`, `wflag`), the running result and the FDIR. Each access
of the drive goes through `Access`, which counts. A call is one step, because
it runs under the lock; what the drive does in it is chosen when it starts: all
well, one access that fails, a drive that fails from some access on, or power
loss there. After the call `tree` and `stable` are what listing all directories
gives, in memory and on the medium (`List`, over f_opendir and f_readdir): the
variables of `NameSpace`.

**Abstractions.** The FAT is one sector. A name is given by its parts of 13
characters and the short name `create_name` makes of it; the checksum of short
names has no collisions in the instance. Files are empty. f_utime is not there
(f_chmod on another field). The caller does not rename a directory into itself.
`torn` marks the state after a failure inside the stretching of a table, or
inside the f_rename of a directory, which then has two names; there `NameSpace` is
`broken` and promises nothing (section 4) and the behaviour ends. Sectors of free clusters hold entries
of an older volume, so a table that is not cleared is seen.

### How VolumeLayout stands for the code

f_mkfs, a mount and a put_fat are one step each, with the sectors the drive
refuses in it. Only sectors that were written are kept: records for boot,
partition and FSINFO sectors, bytes for the tables. Sizes are real (512-byte
sectors, the tables `vst` and `cst`, the limits 4086 and 65526). A DWORD
difference that goes below zero becomes `Wrapped`; a drive has at most
`MaxSectors` sectors (cluster numbers have 28 bits), below which no other DWORD of
this code overflows. `BitAnd` is the `&` of the alignment, bit by bit. The erase request, the backup
boot sector of FAT32 and the partition table of a drive that has one are left
out. Power loss is between two functions, or in f_mkfs as a write from which on
all is refused.

## 3. Runs

| Run | Asks | Instance |
|---|---|---|
| `window` | the window under all faults; refinement of `OrderedStore` | 2 FAT sectors, 2 others, 3 contents, all faults |
| `volume` | everything that holds between two functions without faults | 4 clusters (one is the directory's) in 2 FAT sectors, 2 entries, 2 handles, files up to 3 clusters, FSINFO, all functions |
| `volume_crash` | power loss between any two writes | 3 clusters in 2 FAT sectors, 2 entries, 2 handles |
| `volume_faults` | failed transfers and power loss together | 3 clusters in 2 FAT sectors, 2 entries, 1 handle; f_open, f_write, f_lseek and f_sync |
| `volume_careless` | what remains when open files are removed and written on (`Exclusive` FALSE); every function ends | 2 clusters, 2 entries, 1 handle |
| `drive` | short transfers, failed polls, a busy drive, other users; refinement of `DiskService`; every disk function ends | 2 sectors, 2 contents, 3 tries, 2 polls a wait |
| `lock` | who holds the lock, who mounts, which handle is whose; every call returns | 2 tasks, 1 object, 2 mount IDs, a file of one place or none, for reading or writing, seeks inside it and past its end, a full disk, 1 leak a task, all faults |
| `file_data` | what is read is what was written; the buffer; data in the file's own sectors | 2 clusters of 2 sectors of 2 bytes, files up to 6 bytes, requests of 3 and 4, all faults, aligned memory |
| `directory` | names, tables and long entries under any one fault; refinement of `NameSpace` | sectors of 2 entries, clusters of 2 sectors, 2 or 3 clusters, a root of 4 entries or a chain, 3 names in 4 paths, 5 calls |
| `layout` | what f_mkfs lays out mounts, inside the drive; entries in their bytes | 8 drives, 3 allocation units, 7 foreign boot sectors, 2 formats in 3 calls |
| `sync_retry`, `unaligned` | findings: TLC shows the code against its documentation | smallest that shows it |

The safety runs of `FatVolume` use the symmetry `Interchangeable`: names are only
compared with one another, and so are handles. The runs with a liveness
property do not use it. `directory` uses the view `NoHistory`, which leaves out
`ret` (no step reads it) and `tree` and `stable`, which are functions of the rest.

**Why the bounds suffice.**

* `FatVolume`. Every order of write-backs needs two FAT sectors and one directory
  sector (marking and linking in different sectors, the entry in a third): all
  fault runs have them. Two names and two handles (in `volume` and
  `volume_crash`) give the interference of two files; the run with failed
  transfers has one handle, whose retries and reopenings are what matters there,
  and frees chains through the f_open that truncates: f_unlink is the same
  remove_chain behind a cleared entry (it has power loss in `volume_crash`, failed
  transfers in `directory`).
  A chain of three clusters has a first, a middle and a last. A full disk, a
  wrapped scan and a reused hole all occur. `n_fatent`, `NumSlots`, `MaxSize`
  (clusters of the largest file) and `Functions` are the only bounds. With power
  loss and FSINFO the count on the medium can drift without end, so the crash
  runs have no FSINFO; the count is checked in `volume`.
* `DriveIO`. Three tries are a first, a middle and a last one; two polls likewise.
  `MAX_RETRIES` and `wait_busy_timeout_count` are parameters of the code itself.
* `PosixLayer`. Two tasks can be at any two places of the lock. With `MaxLoc` 1 an
  offset is before, at or past the end of the file. `MaxMounts` mounts make an object stale; `MaxLeaks` bounds the recursion of the mutex; the
  theorems of section 5 need none of these bounds.
* `FileData`. Two sectors a cluster and two clusters give every position of a run
  in a cluster and in the chain; requests of 4 bytes are a cluster, or a run and
  a rest, or two rests, those of 3 a sector and a rest before or after it (a turn
  of the loop is a step, so a request inside one sector adds nothing); `MaxSize` 6 ends inside the second cluster.
* `DirTree`. A long name takes two entries, which is as much as a sector, so that
  its entries start in either half and lie across sectors and clusters; two
  names of four collide in their numbered short name, or are that number. Five
  calls fill a table, stretch it, empty it and fill it again; `MaxFaults` 1 is
  one fault anywhere in the five. All three are bounds.
* `VolumeLayout`. The drives are the sizes where f_mkfs changes its mind: too
  small by one sector, the smallest, eaten by the alignment, the limits of FAT12
  and FAT16 and of FAT16 and FAT32. `NearStart` holds the first entries and the
  one (341) that lies across the first two sectors of a FAT12; the last entry
  and the one past it are always tried. `MaxFormats` and `MaxCalls` are bounds.

**Deadlock.** Deadlock checking is on in every run but `directory`, whose
behaviours end after `MaxCalls` calls. Everywhere else some call can always be
made.

**Fairness.** `FatVolume!FairSpec` is weak fairness of `Progress`: a file
function that has started takes its next step. That is the C code running to
its return; the callers get none, so no run assumes that anyone ever calls f_sync
or f_close. `DriveIO!FairSpec` is weak fairness of `Wait \/ Transfer`, the disk
function's own steps, for the same reason. The drive gets no fairness: with a
limit on the polls (`wait_busy_timeout_count` not 0) the functions return even
when it stays busy for ever. With the limit 0 they do not, by design of that
setting, and `CallsEnd` is not claimed for it. `PosixLayer!FairSpec` is weak
fairness of the steps of each task: the scheduler runs every task that can run.
`TimedOut` is one of them, as the wait for the mutex ends after five seconds
(`syscall.c:112`); nobody is assumed to release a lock, to mount, or to bring a
drive back, and weak fairness lets a task wait while the lock is free now and
then.

## 4. Findings

With a run:

* `sync_retry`: `f_sync` clears `FA__WRITTEN` (`ff.c:2820`) before `sync_fs`
  writes. If that fails, the retry, or `f_close`, returns `FR_OK` and the entry
  is not on the medium.
* `unaligned`: for memory that is not word aligned, f_read and f_write move whole
  sectors through the private buffer (`ff.c:2597-2604`, `2726-2732`) while `dsect`
  goes on naming the sector it held, and `FA__DIRTY` what it had to write. The
  next access to that sector is served from other bytes, and a flush writes
  them. With aligned memory `BufferCoherent` holds (`file_data`).

Met while modelling, without a run of their own:

* `f_getfree` stores the partial count of a scan a disk error broke off
  (`ff.c:3440`); `FreeCountExact` is checked without failed transfers.
* `CTRL_SYNC` drops the result of `fatfs_dev_waitbusy` (`diskio.c:115`), so
  `sync_fs`, which checks the answer, cannot see a drive that stays busy.
* `result = ioctl(...) > 0` (`fatfs_dev.c:231`) stores the comparison: a failed
  poll becomes 0, the transfer starts, and the test `result < 0` is dead code.
* `validate` compares the mount ID before it takes the lock (`ff.c:2334`): a
  remount in between is not seen, and the function works with an object of the
  old mount. `MutualExclusion` does not help there: it is about who, not which.
* `f_close` and `f_closedir` keep the lock when the drive is not ready; `f_rename`
  keeps it when the new path has a bad drive number (`ff.c:3727`, only for a
  caller that does not come through `fatfs.c`). `LockBalance` says that these are
  all; the other tasks then get FR_TIMEOUT until the task comes back or dies.
* `ff_cre_syncobj` returns -1, which f_mount takes for success
  (`syscall.c:44`): the volume is registered with a destroyed mutex and every
  call times out. `MutualExclusion` holds even so.
* `dir_next` links a cluster to a table before it clears it (`ff.c:1116-1126`): a
  failure in between makes what an older file left there entries of the
  directory. f_rename of a directory that fails after it has registered the new
  entry leaves two names for one table. `DirTree!torn` marks both states.
* f_mkfs checks that the volume is large enough (`ff.c:4132`) before it moves the
  data area to an erase block boundary: a small drive is then formatted with no
  cluster at all and FR_OK, and does not mount. `FormatMounts` names the case.
* f_mkfs ignores the result of writing FSINFO (`ff.c:4279`), takes no lock, and
  writes the boot sector before the FAT (`ff.c:4229`): cut in between, it leaves
  a volume that mounts with the FAT of the old one.
* find_volume tries four partitions and forgets a disk error of one when a later
  one has no file system (`ff.c:2218-2223`).
* `fatfs_readdir_r` takes `dp->sect == 0` for the end (`fatfs.c:336`), which also
  holds after the last entry of a full table was read: that entry is dropped.
  `fatfs_chmod` passes FA_READ and FA_WRITE for attributes (`fatfs.c:276-286`):
  FA_READ is AM_RDO, FA_WRITE is AM_HID.
* A directory can be renamed into its own subtree, which cuts it off.
* f_truncate frees the tail of the chain first and writes the dirty buffer last
  (`ff.c:3474-3493`). When it fails in between, the buffer stays dirty and
  `FA__WRITTEN` is set, and f_sync or f_close, which do not look at `fp->err`
  (`ff.c:2801-2806`), write it to a sector that may be free, or another file's, by
  then. `OwnSectors` allows this one write and no other.
* `fatfs_read` and `fatfs_write` do not see that f_lseek has clipped the place. A
  read past the end of a file opened for reading gets nothing. On a handle opened
  for writing the seek of a read makes the file longer (`ff.c:3114`, `3152`). A
  write for whose place the disk is full gets nothing either, unless somebody frees
  clusters between the two functions (`fatfs.c:453`, `460`): then its bytes go to
  the end of the file, before the place asked for. `TransfersAtLoc` names the case.
* `f_write` sets `sclust` (`ff.c:2704`) before the data go out, so an aborted first
  write leaves an object of size 0 with a start cluster, against `ff.h`. A
  transfer that is complete at the eighth and last attempt is answered with an
  error (`fatfs_dev.c:153`), and so is a wait whose last poll found the drive
  ready (`fatfs_dev.c:247`); both are on the safe side of `DiskService`.

## 5. Proofs

The theorems hold for every value of the constants under the named assumptions
of each module (`VolumeAssumption`, `WindowAssumption`, `DriveAssumption`,
`LockAssumption`, `PosixAssumption`, `DataAssumption`, `LayoutAssumption`, which
TLC evaluates in every run). They hold for every combination of faults, except
where a theorem states what it needs: `Scope`, `Sure` and `Calm` in the two
modules about `FatVolume`,
`WordAligned` in `FileDataProofs`. Each of these is a choice of the constants that a
run makes too, and each leaves out something the code really gets wrong (below).

* `OrderedStore`: memory and medium differ at most at the dirty sector
  (`StoreCoherent`), and the medium only ever moves to the memory of the moment
  (`StoreWriteOrder`).
* `FatWindowProofs`: `WindowInv` is inductive. From it follow `WindowTruth` (a
  clean window shows the medium), `MirrorAfterPrimary` (the second FAT copy only
  receives what the first holds) and the refinement of `OrderedStore`, whose
  memory is the window where it is dirty and the medium elsewhere.
* `FatVolumeProofs`: `VolumeInv` is inductive and gives `TypeOK`,
  `WindowCoherent` and `MediumFollows`. `TypeOK` is not inductive: a step of a
  file function indexes the tables with its locals, so it needs that they are in
  range at that step. `Locals` says so for every value of `pc` (for instance what
  each of the three callers of `create_chain` relies on after it returns:
  `Pending`), and `Objects` says it of what survives from one function to the
  next in a FIL. The proof has two halves. Every action is a `Visit`, a failed
  visit, or leaves the store alone, and `VisitKeeps`, `VisitFailsKeeps` and their
  corollaries show once for all that these keep `WindowCoherent` and the types of
  the two tables and move the medium only to the memory; the lemmas per step
  group cite them. The other half is arithmetic on the locals, one lemma per
  group of steps.
* `FatVolumeProofs`, who owns a cluster: `OwnersInv` is inductive and gives
  `NoDangling`, `FilesApart` and `NoCrossLink`, in memory and on the medium. None
  of them is inductive: between marking a cluster and linking it, or clearing an
  entry and freeing its chain, the running function has the only reference to a
  cluster. `Loose` is an allocated cluster nothing in the tables points to,
  `Detached` one that no FIL has either; `RunHeads` says at which places the
  locals hold one, `Agrees` and `Apart` which start a FIL may have before its entry
  has it. One lemma for each kind of edit says what it does to the
  tables (`MarkTables`, `LinkTables`, `FreeTables`, `EmptyTables`, `SaveTables`,
  `RenamedTables`). The medium needs its own
  copy (`MediumTables`): it is a past state of both tables, so whatever holds of
  the memory at every step holds after a power loss. The hypothesis `Scope` is
  `Exclusive` (an open file is not removed nor opened twice for writing, which is
  what `_FS_LOCK` would enforce) and that f_rename is not called where transfers
  fail or power is lost: it has two entries for one chain in its middle, and a
  failure there leaves both.
* `FatVolumeProofs`, what a chain holds: `ChainsInv` is inductive and gives
  `SizeCovered` and `FilOnChain` under `Scope`. Both are about `Walk`, a recursive
  function on numbers. The library's induction theorems cannot be used here (they
  take an operator); but a set of numbers has a least element (`Least`, from the
  well-foundedness of finite sets), which gives induction over a set
  (`Induction`), which the provers can instantiate. With it `Walked` and `Covered`
  get their laws: a walk over tables without cross links never comes back to a
  cluster (`WalkedOnce`), so it is no longer than there are clusters (`WalkedShort`,
  by the pigeonhole theorem), and it survives an edit of a link it does not take
  (`WalkedKept`). `Running` is the invariant inside the loop of f_lseek, where the
  current cluster is one ahead of where it stands in a FIL at rest.
* `FatVolumeFlush`, promises: `SyncInv` is inductive and gives `SyncedSurvives`
  under `Sure`, which is `Scope` without failed transfers (power loss stays): with
  them the property is false (`sync_retry`, section 4). An entry is ahead of the
  medium only while a FIL is marked `FA__WRITTEN` or the running function is on
  its way to `sync_fs` (`Behind`), names are unique, and while a file is renamed
  its promise passes to the new entry (`Renaming`).
* `FatVolumeFlush`, counting: `CleanInv` is inductive and gives `FreeCountExact` and
  `CleanWhenClosed` under `Calm`: `Exclusive` and no faults at all. With a failed
  transfer the count is wrong (f_getfree, section 4), and after a power loss an
  unmounted volume is rightly not clean. `Counted` is the arithmetic of cardinalities
  with the cluster `create_chain` has marked and not counted yet; `Flushed` says
  that whenever the medium lags (`Lag`), somebody is due to flush (`Due`).
* `FatVolumeFlush`, no cluster is lost: `KeptInv` is inductive and gives
  `NoLostCluster` under `Calm` (a function that fails, or is cut off, half-way may
  lose clusters; FAT has no journal). That each allocated cluster is reachable is
  said without walks: it is in every set of clusters that holds the known starts
  and follows the links (`Held`). Each edit changes such sets in an obvious way, and
  only the theorem at the end turns the statement into walks.
* `FileDataProofs`, places: `DataInv` is inductive for every combination of failures
  and of alignments. It says where a FIL stands in its file: its chain has no
  cluster twice and covers its size, the current cluster is that of the last byte
  before the offset, inside a sector the buffer is of that sector, a dirty buffer
  is of a sector of the chain or its object is `TruncateFailed` (`Owned`), and what
  the running request has left fits. `OwnSectors` follows: data go to the sectors of
  the file and to no other's, but for the buffer that a failed f_truncate has left.
* `FileDataProofs`, bytes: under `WordAligned` `FileInv` is inductive. It adds
  `Coherent` (a clean buffer is its sector) and `Saved` (a dirty buffer that f_sync
  does not know of differs from the medium only in bytes the running or failed
  f_write is about). For unaligned memory both are false (`unaligned`, section 4).
  `BufferCoherent` is the first.
* `FileDataProofs`, the refinement of `ByteFile` (`ObjectIsFile`), the same
  hypothesis: byte i of the file is byte `i % SS` of the `View` of its sector, the
  buffer where it is dirty and the medium elsewhere (`ByteAt`). Each group of
  steps has a lemma on what it does to the views and one that names the abstract
  step: turns of the loop put or get a run of bytes, write-backs and the rest of
  a sector leave every byte alone, failed writes clobber only `Doubt`, and after
  f_open the file is what the medium had when it was synced. That two bytes at
  different offsets never share a place of the medium rests on `Distinct(chain)`,
  which `NoCrossLink` of `FatVolume` gives for whole volumes.
* `DriveIOProofs`: `DriveInv` is inductive; it needs that after a reset the last
  transfer was a short one, because the test at the end of the loop believes
  `ret`. It gives the refinement of `DiskService`. Two more theorems bound the
  findings: only a failed poll lets a transfer start on a busy drive
  (`ReadyUnlessPollFails`), and `CTRL_SYNC` keeps its promise when polls work and
  are not limited (`SyncWaitsWithoutLimit`).
* `PosixLayerProofs`, the lock: `LockInv` is inductive and gives
  `MutualExclusion`, `LockBalance`, `MountedUnderLock` and `BodyNotKilled`, for any
  number of tasks. Mutual exclusion needs `CreateInv`: f_mount makes the mutex free without
  holding it, which is harmless because only one task at a time is between
  deleting and creating it, and in between nobody can hold it. The balance
  needs `LeaveInv`: the only result with which `unlock_fs` keeps the lock and that
  a body can give is f_rename's. `BodyNotKilled` needs `DelayInv`: the delay is
  set from the grant to the release. `CallsStepLock` shows that the calls of
  `fatfs.c` do to the lock only what a file function does, so the proof has one
  lemma per lock operation.
* `PosixLayerProofs`, the handles: `HandleInv` gives `TransfersAtLoc` and
  `HandlesOwned`. It ties the function a task is in to its call (`CallInv`) and to
  the object of the call (`PlaceInv`), says which objects can point to the volume
  while a call opens or closes them (`OpenInv`, `CloseInv`), and that after the
  seek, and from then on, the object is where the call wants it or, clipped, at
  the end of its file before that (`LocInv`, `Reached`). The second is what
  f_lseek promises with FR_OK (`SeekReaches`); the rest is that nobody else moves
  the object in between.

* `VolumeLayoutProofs`, the layout: `LayoutInv` is inductive (TLC finds it to hold
  of the instance of `layout`). Each record is where f_mkfs puts such records
  (`Recorded`), a mounted object is what find_volume makes of a boot sector that is
  on the drive (`Standing`), and what f_mkfs says it has laid out is on the drive,
  record by record and byte by byte until the first put (`LaidOut`). It needs what
  f_mkfs writes when the drive refuses a sector (`FormattedIs`: nothing is called
  done that is not) and what it computes (`LayoutIs`, from `ClusterSizeIs`,
  `PaddingIs` and `TableCovers`: the table is large enough for the clusters that
  are left after the alignment, the sub-type that find_volume will count is the
  one f_mkfs chose, and the fields fit their WORDs). From it `VolumeInside`,
  `FormatMounts` and `FreshCount` follow for every drive up to `MaxSectors`
  sectors, every erase block and every allocation unit: `ObjectIs` is the arithmetic
  of find_volume, `BootRecordIs` that of f_mkfs and find_volume together.
* `VolumeLayoutProofs`, the entries: `Put12Is` and `PutWholeIs` say what put_fat does
  to the bytes in the window and on the medium in every order of load, write-back
  and failure (`Puts`), from where the bytes of an entry are (`PlaceIs`), that whole
  entries share none (`PlacesApart`) and that neighbours of FAT12 share a byte of
  which each has one half (`NeighbourKept`). `EntriesApart` and `EntriesWhole` follow,
  the former for every entry (`EveryEntryApart`) and not only those of the run.

## 6. Only model-checked

* `FunctionsEnd`, `CallsEnd` and `CallsReturn`: liveness under fairness, which is
  out of this prover's reach.
* `DirTree`: everything (`TablesApart`, `NamesUnique`, `Promise`). Its functions are
  recursive operators, as the code's loops over entries are, which the prover does
  not take.

Every invariant and action property that a run checks of `FatWindow`, `FatVolume`,
`DriveIO`, `PosixLayer`, `FileData` and `VolumeLayout`, and the three refinements
among them, are theorems. Outside the hypotheses of section 5 nothing is claimed of
them; the runs stay inside these too, but for the two findings.

## 7. Plan

1. f_truncate as steps of `FatVolume`, to see its order of writes on the medium.
2. f_rename under power loss: how far the tables can be apart (one extra entry, and
   no other damage) as a weaker invariant than `NoCrossLinkIn`, proved like
   `OwnersInv`.
3. `DirTree` with its loops as steps or as folds, to prove `TablesApart` and
   `NamesUnique` of it.
4. The other ways of `fatfs.c` through the directory (readdir, stat), and f_utime.

## 8. Not modelled

* Code pages and case conversion (`option/cc*.c`, `unicode.c`): some 30000 of the
  37000 lines of the sources are these constant tables, and a search in them
  that keeps no state. Names are model values, or parts of 13 characters.
* Fast seek (`_USE_FASTSEEK` is 0), `_FS_LOCK`, `_FS_TINY`, volume labels, exFAT and
  the relative paths that `ffconf.h` leaves out.
* The drive's information and erase requests (`_USE_TRIM` is 0), opening it, and
  the timing of its polls: values passed through.
* The conversions of `fatfs.c` (flags, modes, result codes, paths): values passed
  through.
* Time stamps and the attributes other than read-only and directory: written to
  an entry and never read by the code that decides anything here.
* f_mkfs while the volume is in use: it takes no lock, and nothing of `fatfs.c`
  keeps a caller from it.
