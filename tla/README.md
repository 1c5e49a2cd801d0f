# A verification project for sqlfuse

sqlfuse keeps a whole file system in one SQLite (SQLCipher) database and serves
it through FUSE. This directory holds TLA+ models of the parts of it that carry
its logic, the TLC configurations that check them on small instances, and
proofs, checked by TLAPS, that the safety properties of those models hold for
any number of names, inodes, entries and processes and any block size. Paths
below are those of the repository.

    tlc -config MCSqlfs.cfg MCSqlfs       # a run; there are twelve
    tlapm SqlfsProofs.tla                 # proofs; there are eight such modules

## The system

| Part | State | Operations | Status |
|---|---|---|---|
| Namespace, `sqlfs.c` | tables `metadata`, `direntries`, `filedata` | mkdir, mknod, rmdir, unlink, rename, purge, purge_all, lookup, stat | `Sqlfs` |
| File contents, `sqlfs.c` | `filedata` rows and `size` of a file | read, write, set_attr(size) | `FileData` |
| Request handlers, `sqlfuse.c`, `intmap.c` | lookup counts | one handler per FUSE request, init, destroy | `Sqlfuse` |
| Directory handles, `sqlfuse.c`, `sqlfs.c` | `dir_handle`, a cursor | opendir, readdir, releasedir | `ReadDir` |
| Transactions, `sqlfs.c` | the savepoint stack | savepoint, rollback, release | `SqlfsTx` |
| Create, open, close, `sqlfs.c` | the file, its journal mode, locks | create, open, close, rekey, vacuum | `Lifecycle`; cipher settings left out |
| Durability, `sqlfs.c` | database, WAL | commit, checkpoint, sync | `Lifecycle` |
| Mounting, `main.c` | a pipe, two processes | fork, report, session, exit | `Lifecycle`, `Sqlfuse` |
| Commands, `main.c` | none | create, mount, compact, rekey, check | `Lifecycle`; arguments and passwords left out |
| Timestamps, `sqlfs.c` | none | two conversions | `Times` |
| Logging | none | file I/O | left out |

How the parts meet:

- The kernel sends requests to `fuse_session_loop`, which serves one at a time:
  the daemon has one thread, and all concurrency is between *requests*. What
  makes it hard is that clients, each of which needs several requests, are
  interleaved; that an inode outlives its name for as long as the kernel holds
  references to it; and that a listing takes many requests.
- Each handler of `sqlfuse.c` makes one or two calls of `sqlfs.c`. A call is a
  transaction, but two calls of a handler are two transactions: the process may
  die, or the second fail, between `unlink` and the purge that follows it.
- The number of references the kernel holds lives in memory only (`intmap.c`).
  A crash loses it. So unlinked inodes are purged at the next mount
  (`main.c:100`), and until then nothing else tells them apart.
- `sqlfs.c` keeps redundant data: the `nlink` column, the `entry_type` column, a
  `..` row (stored under the name `""`) in each directory, and a `size` that
  determines which `filedata` rows there are. Nothing in the schema enforces
  that they agree; every operation has to.
- Several processes may open the same database: a daemon, another one, and the
  commands `compact`, `rekey`, `check`. Nothing in the program coordinates them
  but the locks SQLite takes on the file, which depend on the journal mode, and
  so on how the last process that used it ended.
- A mount in the background is three processes long: the command forks, since
  locks do not survive a fork, the child opens the database and mounts, and a
  byte in a pipe tells the parent what to exit with.
- SQLite chooses inode numbers as one more than the largest, so those of purged
  inodes come back. Whatever a purge leaves behind becomes part of a new file.

What makes each part correct:

- *Namespace*: the tables agree (keys, joins, types, link counts, parents), all
  that is linked can be reached from the root, nothing is left of what was
  purged, and each call does to the tree what `sqlfs.h` says or nothing.
- *Contents*: the blocks match the size, and reads return the bytes that were
  written, or zeroes for gaps.
- *Handlers*: the daemon's counts match the kernel's references; an inode that
  is referred to is not purged; one that is unlinked and no longer referred to
  is, by the request that unlinks it, by the last `FORGET`, at the end, or at
  the next mount.
- *Listings*: entries that stay are listed once, whatever else comes and goes.
- *Transactions*: whatever statement fails, whatever call it is nested in, and
  whenever the process dies, the database changes by whole calls; savepoints are
  paired; what a call returns is what it did.
- *Processes on one file*: nobody writes behind the back of another; what
  `fsync` has confirmed survives; a database that was closed properly can be
  mounted read-only; the exit status of `mount` is true, and it comes.
- *Times*: conversions do not overflow, keep the order, and do not move a time
  that is only read and written back.

## The modules

    FsTree     what sqlfs.h promises of the namespace: a tree, without tables
    Sqlfs      the tables and the calls                     implements FsTree
    SqlfsTx    EXTENDS Sqlfs: calls as statements         implements Sqlfs
    Sqlfuse    EXTENDS Sqlfs: kernel, lookup counts, process      adds no call
    ReadDir    one directory, one handle, other clients
    FileBytes  what sqlfs.h promises of one file: a sequence of bytes
    FileData   one file as blocks                           implements FileBytes
    Lifecycle  one database file, the processes that use it, and a crash
    Times      the conversions of timestamps (no state)
    SqlfsProofs, TreeProofs    theorems about Sqlfs; Sqlfs implements FsTree
    SqlfsTxProofs              theorems about SqlfsTx
    SqlfuseProofs              theorems about Sqlfuse
    ReadDirProofs              theorems about ReadDir
    FileDataProofs             theorems about FileData, and that it implements FileBytes
    LifecycleProofs            theorems about Lifecycle
    TimesProofs                theorems about Times
    MC*        instances for TLC

### Sqlfs

`meta` is the metadata table (type and `nlink`), `rows` the direntries table as
a set of rows, `filedata` the inodes that have filedata rows, and `res` what the
last call returned. Each exported function is one action. It has the outcomes
of the code, in the order of its tests; a refused call leaves the tables alone
(its savepoint is rolled back), and any call may be refused with `EIO`, since a
statement may fail at any time (`Fails`). `CHECK` failures are the result
`"ABORT"`. `Rename` is the largest: it stats the source, removes a target with
`remove_impl()` in a nested savepoint, moves the row, and, for a directory that
changes parent, updates the `..` row and two link counts.

`NextAnyCaller` drops what the kernel promises: that nothing is created in a
directory that was removed. The other promise, which `sqlfs.h` asks of callers
of `sqlfs_rename`, is that a directory is not moved below itself
(`MakesNoCycle`).

Left out: owners, permissions, times, symbolic links' contents, device numbers.
No property here depends on them.

### SqlfsTx

Here a call of `Sqlfs` takes a step for each statement. `Start` is what a call
does until its first update: it opens a savepoint and makes its reads, which
decide how it goes on. The updates that then remain are a sequence `todo` of
statements (`Links` is `STMT_UPDATE_NLINK`, `Move` is `STMT_RENAME`, and so on),
so that the order of the code is the order of the sequence, and a nested call
(`remove_impl` in a rename, `sqlfs_purge` in `purge_all`) is the part between
`Savepoint` and `Release`. `purge_all` finds its next row only when it gets
there (`TurnStmts`), in the table as its nested calls have left it.

`stack` has the tables as they were at each open savepoint. `Run` executes a
statement. `RunFails` fails it: either for the reason the tables give
(`StmtErr`), or because SQLite could not write, in which case it undoes the
statement or, if `AutoRollback`, the whole transaction. `Unwind` is the error
path, ROLLBACK TO and RELEASE of the innermost savepoint, from nested call to
outer one. `Commit` is the last RELEASE, `CommitFails` and `UnwindFails` are the
CHECKs on the two statements, and `Restart` is death and a new process.

`meta`, `rows` and `filedata` are what the connection sees; another process
would see `Committed`, and that is what `ImplementsSqlfs` maps to the tables of
`Sqlfs`. A call of `Sqlfs` happens at `Commit`, or with an error at the last
`Unwind`; everything before is a stutter.

### Lifecycle

Two processes run any commands, one after the other, on one file. Each goes
through the steps of its command at which something of it shows to the others:
`Create`, `CreateSchema`; `ReadVersion`, `EnableWal`, `Prepare`, which are
`sqlfs_open`; `PurgeAll`, `Rewrite`, `MountFuse`, `Report`, the session with
`Write` and `Sync`, `Destroy`, `Close`. Each may fail where the code goes to
its error path: through `sqlfs_close` (`Fail`) or without it (`Vanish`), as when
the purge fails in `sqlfuse_main` (`main.c:100`). `Crash` kills a process
anywhere, `ParentKilled` its parent, and `PowerFailure` all of them, with any
number of the last commits in the log.

Of the contents of the database only matters whether there is a schema and
whether there are unlinked inodes. The state of the file is its journal mode,
what is in it, and what is in its log. What SQLite does is external, taken from
its documentation and from how its library behaves with the program's own
pragmas: in exclusive locking mode a lock is kept from the first use on, shared
after a read and exclusive after a write; changing the journal mode needs the
exclusive lock, and is nothing when the mode is the same; a commit in WAL mode
with `synchronous = normal` is safe from a crash of the process and not from a
power failure. No command waits for a lock.

One assumption carries weight: a rekey commits as any other transaction does,
under the exclusive lock (`Rewrite`). The code trusts `sqlite3_rekey()` with less
(`sqlfs.c:1268`), and what it asks for instead, that nobody else has the file
open when the rekey begins, is `RekeyIsAlone`, which looks at the locks alone.

`behind`, `survivors`, `mounted` and `incident` are history. They change no
behaviour. `survivors` has the contents a power failure may leave without breaking
a promise: a commit adds to it, and a checkpoint that was reported as done
(`Sync`, `Close`) leaves only what was there at that moment.

### Times

`timespec_to_nanos` and `nanos_to_timespec` as operators, with C's division
towards zero. `NANOS_PER_SECOND` and `INT64_MAX` are parameters: the one
assumption is that the range does not end with a whole second, as 2^63 does not.

### Sqlfuse

Over the tables it adds the daemon (`pc`, `cur`, the intmap `lookups`) and the
kernel (`held`, and `pending`, references given up by FORGETs not yet served).
`pc` separates the transactions of a handler: a request that creates or finds an
inode goes on to `"reply"` (`reply_entry`), one that removes an entry to
`"purge"` (`maybe_purge`), and `Crash` may come between. A reply may fail
to reach the kernel, as for an interrupted request. FORGETs are queued, may be
split, and come in any order relative to other requests. `Unmount` drops those
that are queued, `DestroyOne` is a turn of the loop in `sqlfuse_destroy`, and
`Mount` purges what is unlinked and starts with one reference to the root.
`purgeFailed` records the inodes whose purge failed, which the code only logs.

The kernel is external: modelled from what the handlers and their tests rely on.

### ReadDir

One directory whose entry names are numbers, in the order of `ORDER BY`. Other
requests add and delete rows, or remove the empty directory, between any two
calls. `Readdir(cap)` is one whole call: it opens a cursor at the saved name,
adds `.` at the beginning, fills the buffer with as many names as fit (`cap`
differs from call to call), and saves the first that does not fit. A step of the
cursor may fail, which the code takes for the end.

### FileData

One file: `size`, and `blocks` from index to bytes. `Write` follows the loop of
`sqlfs_write` over the chunks, with the copy offsets, the temporary block, and
the bytes of it nobody set (`Garbage`); `SetAttrSize` follows `resize_filedata`.
The CHECKs of the loop, and the bounds `memcpy` relies on, decide whether a call
aborts. Integers are unbounded: to write near offset 2^63 a file would first
have to be extended to there, block by block.

## The runs

| Run | Instance | What it shows |
|---|---|---|
| `sqlfs` | names {a, b}, 4 inodes | eight invariants of the tables, and `ImplementsTree` |
| `sqlfs_any_caller` | same, without the kernel's promise | an entry can be created in a removed directory (finding 1) |
| `sqlfuse` | {a, b}, 3 inodes, 2 references each | counting and purging, with crashes and failures |
| `sqlfuse_live` | {a}, 3 inodes, 2 references | the two liveness properties of the daemon |
| `readdir` | 4 names, buffers of 1 to 3 entries | completeness, no duplicates, termination |
| `readdir_abort` | same | a listing can abort the daemon (finding 2) |
| `filedata` | blocks of 3 bytes, files up to 8 | blocks, reads, CHECKs, and `ImplementsBytes` |
| `filedata_unchecked` | with empty buffers and a negative size | two arguments that abort the daemon (findings 3, 4) |
| `sqlfs_tx` | names {a, b}, 3 inodes, with `AutoRollback` | savepoints, and `ImplementsSqlfs` |
| `sqlfs_tx_write_errors` | same, without `AutoRollback` | a commit that cannot be written aborts (finding 5) |
| `lifecycle` | 2 processes, all commands, a log of 1 commit | locks, durability, the read-only mount, the parent's answer |
| `lifecycle_mount_twice` | same | two mounts, one writable, at the same time (finding 6) |

Why the bounds are enough to be interesting:

- Four inodes and two names are the root and three more: a directory moved
  between two others, a directory moved over an empty one in the parent it
  leaves, a file in a directory that is renamed, a number that comes back after
  a purge. Names are symmetric. When numbers run out, creation is simply not
  possible; the other calls still are. The proofs cover the rest.
- Two references (`MaxLookups`) let a FORGET carry a part of what is held, and
  let lookups race with the FORGET of an earlier reference.
- With four names and buffers of one to three, a listing takes from two to five
  calls, and names can be added or removed before, at and after the saved one.
- Three blocks, the last of two bytes, give a first, a middle and a last block;
  with three bytes to a block, offsets fall on a boundary, before it and after
  it. Buffers hold distinct bytes for each length, none zero, so that a byte in
  the wrong place, or a gap that is not zero, is seen.

- Three inodes in `sqlfs_tx` are the root and two more: enough for a rename of a
  directory over another, with its nested call; for a directory that moves into
  another; and for a `purge_all` of two, the second after the first is gone. A
  fourth multiplies the states in the middle of a call beyond a run's time.
- In `lifecycle`, every lock conflict is between two processes, and with a log
  of one commit the next one is a checkpoint, so that both kinds of commit
  occur, and a power failure that loses something or nothing. Each process can
  run any number of commands one after the other. (A log of two shows no more.)
- `filedata` also evaluates what `TimesProofs` proves, as assumptions of
  `MCFileData`, for 30 numbers and seconds of four parts.

Deadlock is checked in every run: there is always a call to make, a mount to
retry, or a listing to start.

### Properties

Those of `Sqlfs` relate tables that no constraint of the schema relates:
`DirentsMatchMetadata`, `NlinkCountsRows`, `ParentAgrees`,
`RemovedDirsAreEmpty`, `LinkedIsReachable`, `NoOrphanData`, and `NeverAborts`
for the CHECK on the number of entries of a directory to be removed. Most need a
history of several calls to break. `ImplementsTree` maps the tables to the map
from directories and names to inodes of `FsTree`, in which a link count is not
stored but counted.

Those of `Sqlfuse` relate the two sides of the kernel boundary:
`LookupBalance`, `HeldInodesExist` and `UnlinkedIsAccountedFor`; then
`ForgottenIsPurged` and `UnmountEnds`. (That the daemon changes the tables by calls
of `Sqlfs` only is how the module is built: each of its actions conjoins one, or
leaves them alone.)

In `ReadDir`, `StableEntriesListed` says that a finished listing has each entry
that was there from `opendir` to the end, `NoEntryTwice` speaks of entries that
come and go as well, and `ListingEnds` is liveness.

In `FileData`, `BlocksMatchSize` is the layout `sqlfs_schema.h` describes;
`ReadsReturnContents` compares every read in every state with the contents;
`ImplementsBytes` says those contents are what `FileBytes` makes of the same
calls.

In `SqlfsTx`, `ImplementsSqlfs` carries all that is checked and proved of `Sqlfs`
over to the database a crash leaves. `SavepointsPaired` and the depth of the
stack in `TxTypeOK` are what the code's comments ask of its savepoints. That the loop
of `purge_all` ends is not among the properties: its cursor is SQLite's, and
`UnlinkedAfter` takes from SQLite that it goes on with larger numbers.

In `Lifecycle`, `NobodyWritesBehind` relates a commit of one process to another
that has the file open, and it holds even in the states of finding 6.
`RekeyIsAlone` does not: it says that a rekey begins with nobody else there unless an
earlier writer was killed or failed.
`ReadyForReadOnly` relates how a writer ended to whether the next reader can
start; `SyncedSurvives` the contents after a power failure to those of the last
`fsync` or proper end, and to what was committed since; `ReportIsTrue` and
`ParentReturns` the exit status of a command to what its daemon did.

### Fairness

- The daemon's own steps (`ReplyEntry`, `MaybePurge`, `DestroyOne`,
  `DestroyDone`) are weakly fair: it runs to the end of each handler, and the
  loop of `sqlfuse_destroy` has nothing to wait for.
- `FuseForget` is strongly fair: between two requests the daemon is back at
  `"idle"`, so a queued FORGET is not enabled all the time, but again and again;
  and the kernel's queue does not pass it over for ever.
- Nothing is assumed of the kernel otherwise: it may never forget, never
  unmount, and the process may crash. `ForgottenIsPurged` therefore starts when
  the kernel has given up all references, and ends also with the session.
- In `Lifecycle`, a process takes its next step (`Advance`), since nothing waits
  for a lock, except that a session may last for ever; and the parent takes its
  own (`Parent`). Nobody need be killed, and nobody need unmount.
- A reader goes on calling `readdir` until it sees the end (`ListingEnds`).
  Nothing is assumed of those who add and remove entries.

## Findings

1. `stat_dir()` (`sqlfs.c:1316`) refuses directories with `st_nlink == 0`, but
   `fill_stat()` adds one for `.`: a removed directory has 1. Entries can be
   created in it, against the comment at 1299-1301. The kernel does not ask for
   it.
2. `CHECK(pos > 0)` (`sqlfuse.c:481`) fails, in a call other than the first, if
   all entries from the saved name on were removed in the meantime. The
   comment above it gives a small buffer as the only reason.
3. `sqlfs_write` of zero bytes inside a block fails `CHECK(bytes_to_copy > 0)`
   (`sqlfs.c:1955`).
4. `sqlfs_set_attr` (`sqlfs.c:1790`) tests the sign of the size the file has in
   place of the size asked for, so that a negative one reaches a CHECK
   (`sqlfs.c:1672`) and not `EINVAL`. (One run shows 3 and 4; it stops at the
   first it meets.)
5. RELEASE of the outermost savepoint is the commit. If it cannot be written, as
   when the disk is full, the CHECK in `sql_release_savepoint` (`sqlfs.c:340`)
   aborts the daemon, where the comment at 20-24 promises `EIO` and a file system
   that can still be read. If SQLite ends the transaction when a statement fails,
   ROLLBACK TO finds no savepoint, and the CHECK at 346 does the same. In both
   cases the database is as before the call (`ImplementsSqlfs`).
6. `enable_wal` takes the exclusive lock by changing the journal mode. If the
   last writer left the file in WAL mode, nothing is changed, and two mounts
   succeed, against `USAGE.txt:40-42` and the comment on `enable_exclusive`. Until
   both have gone neither can write: requests that write get `EIO`. For the same reason
   `sqlfs_rekey` may be called while another process has the file open, although it
   relies on the exclusive lock of `sqlfs_open` (`sqlfs.c:1268`).

Seen on the way, without a run:

- When the purge at mount fails, `sqlfuse_main` returns without `sqlfs_close`,
  which `sqlfs.h:74` asks for, and leaves the file in WAL mode (`main.c:100`).
  `sqlfs_create` does so when it fails after `enable_wal`.
- Times reach from 1677 to 2262, not "between the year 1823 and 2116"
  (`sqlfs.c:410`, `sqlfs.h`). Of the first second of the range, the part that
  could be stored is clamped as well (`RoundTripIsExact`).

## The proofs

`SqlfsProofs` proves `Spec => []IInv`, and from it each invariant of the run
`sqlfs`, for every set of names and every number of inodes. Assumed are
`NamesAssumption` (regular names are none of `""`, `.`, `..`) and
`MaxInoAssumption`; and `Next` has the two promises of callers given above.

The invariants of the run are not inductive one by one. `rmdir` keeps
`NlinkCountsRows` only if the removed directory has no row but `..`, which rests
on its count of entries being that of a directory with a parent
(`ParentAgrees`); a removed directory stays empty only since nothing links it,
which is `NlinkCountsRows` again; and a rename keeps everything reachable only
if the moved directory's `..` is the row that changes. `IInv` is the
conjunction of

- `Good`, of the tables: types, the joins (`JoinGood`), the counts
  (`CountGood`), and `RowsGood`, which speaks of `rows` alone: a key, one entry
  for a directory, the root's `..`, the parents, `..` only in linked
  directories, and reachability. Reachability is stated as: every set of
  directories that has the root and is closed under its entries has them all.
  This needs no path and no recursion, so its steps are about one set each;
- `DataGood`, that only files that exist have contents;
- the result of the last call, which is no abort.

Steps that change the tables are reduced to a few transformations: a link is
added, a directory is added, an entry is removed, a row is moved, inodes are
deleted. The first lemmas have the facts on the finite sets of rows and on how
they change the counts; then one lemma for each transformation says that it keeps
`Good`, and one for each action cites them. A rename over a target is
a removal followed by a move, and both lemmas apply in turn.

`TimesProofs` proves, for integers of any width, that `timespec_to_nanos` never
overflows (`ConversionNeverOverflows`), that `nanos_to_timespec` normalises
(`TimesAreNormal`), that order is kept, and exactly which times come back as
they were. Products with `NANOS_PER_SECOND` are not linear; `MultiplesAreApart`
has the one fact about them, that multiples of it are apart by as much, and
`Limits` uses the assumption to place the last whole second on both sides.
`WhatIsStored` then says what is stored by cases that exclude each other, and
the rest follows from it.

`LifecycleProofs` proves the five invariants of the run `lifecycle`, and the action
property `SyncedSurvives`, for any number of processes, any set of commands and a
log of any length. Assumed are
`CommandsAssumption` and `MaxWalAssumption`. Five invariants, each inductive
given the ones before it, and none of which follows from what the run checks:

- `LockInv`: a process that has the file open holds a lock on it. Since a commit
  needs that nobody else does, nobody's back is ever written behind
  (`NobodyWrites`).
- `ReportInv`: as long as the parent has not got its answer, a pipe that is open
  belongs to a daemon that does not serve yet, one that is closed to one that
  has ended without, and a byte to one that got there (`ReportsAreTrue`).
- `FileInv`: whoever has found a schema never finds it gone (`NotBlank`, which
  `TypesAreKept` rests on); a writer has enabled WAL and holds a lock as long as
  that is so (`WalIsOn`); and without an incident, contents that are not in order
  have a writer who holds the exclusive lock and has the purge still before it,
  while a file in WAL mode has one who has yet to change the mode back
  (`WriterTidies`). When all have ended there is no such writer, and so the file
  can be mounted read-only (`ReadOnlyCanFollow`).
- `DurableInv`: the contents of the file, and of each commit in the log, are among
  the `survivors`, so that wherever a power failure cuts the log, what is left is
  one of them (`SyncedIsOnDisk`). A checkpoint keeps this because it empties the log
  into the file (`CheckpointKeepsDurableInv`), a commit because what it writes is
  added (`CommitKeepsDurableInv`).
- `OwnerInv`: an exclusive lock is the only lock; and without an incident, whoever has
  enabled WAL has it, since nobody finds the database in WAL mode with only shared
  locks on it. So a rekey begins alone (`RekeysAreAlone`).

`CommitIsSeen` has what a commit does to the log and who could have prevented it;
`CommitKeepsFileInv`, `MoveKeepsFileInv` and `VanishKeepsFileInv` each stand for
the actions of one shape.

`TreeProofs` proves `Spec => ImplementsTree`. `TreeIs` shows that the map from
inodes to places is what the rows with names say, and that the directories of
the tree are the linked ones; each action of `Sqlfs` is then one call of
`FsTree`. Where the tables refuse a call, the reason is one the tree gives: a
count of rows becomes "has children" (`TreeRemoveErr`), and a link count of zero
"has no place". `IInv` is assumed before and after each step.

`SqlfsTxProofs` proves that savepoints are paired, whatever fails. The strengthening
`TInv` speaks of what a call has still to do (`RestGood`): `todo` is a sequence of
statements of the kinds a call may run, and there is a function from its
positions to depths, one or two, that begins at the depth of the stack, changes
by one at each `Savepoint` and `Release`, and ends at one (`Nests`); the loop of
`purge_all` turns only at depth one. Each call is shown to begin with such a
sequence (`CreateRest` to `TurnRest`), and each step to keep it. Depths make
nesting a matter of gluing functions (`NestsThen`, `NestsTail`) and need no
recursion. `RollbackFindsSavepoint` says where the CHECK in finding 5 can fail: only
if SQLite ends the transaction itself.

The same module proves `TxSpec => ImplementsSqlfs` (`TxImplementsSqlfs`), so that
what is proved of `Sqlfs`, `ImplementsTree` included, holds of what a crash leaves.
While a call runs, the tables of the connection are those of no state of `Sqlfs`; what
the invariant `RInv` says is where the call is going. `DoneAt` is the effect of one
statement on a point in a call (tables, number given back, error); `Leads` runs
the statements that are left, and `WillEnd` says that they end as a call of
`Sqlfs` on the tables in the database may end, and that each of them, should
it fail, fails with an error that call may return with the number given back so
far. The proof has three parts:

- each call begins so (`MkdirRuns`, `MknodRuns`, `RemoveRuns`, `RenameRuns`, `PurgeRuns`,
  `PurgeAllRuns`, `SetSizeRuns`): its statements one after another are the one
  update `Sqlfs` makes of it, or the first that fails does so for a reason
  `Sqlfs` has. `RenameRuns` puts the nested removal and the move together, and needs
  the key of `direntries` in the tables and in every savepoint (`KeysHold`): the
  UPDATE moves the rows with a key, `Sqlfs` the one row it has found. The loop of
  `purge_all` is one `next` statement that stands for the rows it has still to
  delete (`Purged`), and `TurnLeads` unrolls one turn;
- each step keeps `RInv` (`RunStep` to `NothingStep`): a statement takes the head off what
  leads to the end, a failure takes the error of the head;
- what may happen at the end is a step of `Sqlfs` (`BaseDoes`, `BaseRefuses`), and
  every other step leaves `Committed` and the result alone (`BaseStutters`).

`In(t)` is the module at the tables t, since the proof speaks of the tables of the
connection, those in the database and those in between with the same operators.

`SqlfuseProofs` proves the invariants of the run `sqlfuse` for any number of names and
inodes. `FInv` adds to `IInv` what holds between the transactions of a handler:
`StepGood`, that the inode about to be replied exists and the one about to be
purged has no name; `UnlinkedGood`, the reason why each unlinked inode is still
there; and that nobody holds an inode when nothing is mounted. `LookupBalance`
keeps `HeldInodesExist`: a purge needs a count of zero, a count of zero means
that the kernel holds nothing and has nothing in its queue. Each call of
`sqlfs.c` is summarised by what it does to names and inodes (`Creates`,
`Removes`, `Purges`), so that the cases are few. `FuseNextCalls` lets `NextInv` of
`SqlfsProofs` keep `IInv` under the daemon.

`ReadDirProofs` proves that a listing is complete and has nothing twice, for any
finite set of names, and buffers of any size. `GoesOn` says where an open handle
stands: all that was listed is below the saved name, and everything stable below
it has been listed. The lemmas on `Ordered` (a sequence in the order of names
holds exactly the rows, each once) are proved from ranks, without induction; and
`OneBatch` says of one call that what it leaves out is at or above the name it
saves.

`FileDataProofs` proves for any block size that files in blocks are sequences of
bytes: the layout (`BlocksMatch`), the reads (`ReadsAreContents`), the CHECKs
(`WritesNeverAbort`) and the refinement (`BlocksImplementBytes`). `DInv` says that
the rows are those the size asks for, with their lengths, and that no byte in
them is one nobody set. The argument goes row by row (`RowHolds`): a write leaves
in row i the bytes of the buffer that fall there, and keeps the others. `Place`
has the one fact about division that all of it needs. Chunks that copy into an
old row can only be the first and the last (`FirstMixed`, `MixedFits`), which is
what the CHECKs of the loop say. The last two theorems assume `KernelAsks`: no
empty write and no negative size. The kernel sends neither; findings 3 and 4
(run `filedata_unchecked`) are what happens otherwise. `DataTypeCorrect` assumes
that no size above the model's bound is asked for.

Model-checked only: liveness (`ForgottenIsPurged`, `UnmountEnds`,
`ListingEnds`, `ParentReturns`), which is out of the prover's reach.

## What is not modelled

- Which password and which cipher settings open a file, the retries with older
  settings in `sqlfs_open`, and `cipher_migrate`: what matters there happens
  inside SQLCipher. In `Lifecycle`, `ReadVersion` may fail for any reason.
- The errors replied to the kernel after a change was made (`sqlfuse.c:344`).
- Permissions, owners, device numbers, symbolic links' contents.
- Arguments, prompts, help, logging.
- Hazards in the code that no property covers are listed in `PROJECT.json`, each
  with the reason.

## Plan

What was planned is modelled, and what the prover can reach of it is proved. Next:

1. The reply of `unlink`, `rmdir` and `rename` when the change is committed and the
   purge after it fails (`sqlfuse.c:344`), and a listing cut short by an error of
   the cursor (`sqlfuse.c:451`), as outcomes of their own in `Sqlfuse` and `ReadDir`.
2. The retries of `sqlfs_open` with older cipher settings, as steps of `Lifecycle`.
