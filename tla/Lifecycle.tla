----------------------------- MODULE Lifecycle -----------------------------
(***************************************************************************)
(* One database file and the sqlfuse processes that use it: the commands   *)
(* of main.c, sqlfs_create, sqlfs_open and sqlfs_close with their locks and *)
(* journal modes, the parent of a daemon and the pipe between them, and    *)
(* processes and machines that die. SQLite's locks and its log are         *)
(* external; a commit is a step, and of the contents only matters whether  *)
(* there are unlinked inodes.                                              *)
(***************************************************************************)
EXTENDS Integers, Sequences

CONSTANTS
    Procs,      \* the commands that may run at the same time
    Commands,   \* which ones are run
    MaxWal      \* commits the log holds before SQLite checkpoints it

Writers == {"mount", "compact", "rekey"}    \* SQLFS_OPEN_MODE_READWRITE
Readers == {"mount_ro", "check"}            \* SQLFS_OPEN_MODE_READONLY
Mounts == {"mount", "mount_ro"}

ASSUME CommandsAssumption == Commands \subseteq Writers \cup Readers \cup {"create"}
ASSUME MaxWalAssumption == MaxWal \in Nat

VARIABLES
    journal,    \* the journal mode in the file: "delete" or "wal" ("none": no file)
    disk,       \* contents of the database file: "blank" has no schema yet
    wal,        \* contents after each commit that is only in the log
    pc, cmd,    \* what each process does next, and for which command
    lock,       \* its lock on the file
    walOn,      \* sqlfs->wal_enabled
    version,    \* did it find the schema version it expects?
    parent,     \* the process that forked it, for a mount in the background
    pipe,       \* the pipe between them
    mounted,    \* history: the command came as far as serving requests
    behind,     \* history: processes behind whose back another has committed
    survivors,  \* history: the contents last declared durable, and those committed since
    incident    \* history: the last writer was killed, or something it did failed

fileVars == <<journal, disk, wal>>
procVars == <<pc, cmd, lock, walOn, version>>
reportVars == <<parent, pipe, mounted>>
history == <<behind, survivors, incident>>
vars == <<fileVars, procVars, reportVars, history>>

\* The process has what sqlfs_open() returned.
Opened == {"purge", "fuse", "report", "serve", "destroy", "vacuum", "rekey"}
PCs == {"idle", "open", "wal", "prepare", "create", "schema", "close"} \cup Opened

Contents == IF wal = <<>> THEN disk ELSE wal[Len(wal)]
IsOpen(p) == pc[p] \in Opened

Goto(p, l) == pc' = [pc EXCEPT ![p] = l]
SetLock(p, l) == lock' = [lock EXCEPT ![p] = l]

-----------------------------------------------------------------------------
(* SQLite *)

OthersHold(p, locks) == \E q \in Procs \ {p} : lock[q] \in locks

\* A write transaction needs the exclusive lock, and in exclusive locking mode
\* keeps it; SQLite does not wait for it.
MayWrite(p) == cmd[p] \notin Readers /\ ~OthersHold(p, {"shared", "exclusive"})

\* Variant: the log grows past its limit.
CommitWal_NoCheckpoint(p, c) ==
    /\ MayWrite(p)
    /\ SetLock(p, "exclusive")
    /\ wal' = Append(wal, c) /\ UNCHANGED disk
    /\ behind' = behind \cup {q \in Procs \ {p} : IsOpen(q)}
    /\ survivors' = survivors \cup {c}

\* p commits contents c, to the log.
CommitWal(p, c) ==
    /\ MayWrite(p)
    /\ SetLock(p, "exclusive")
    /\ IF Len(wal) < MaxWal THEN wal' = Append(wal, c) /\ UNCHANGED disk
       ELSE wal' = <<>> /\ disk' = c
    /\ behind' = behind \cup {q \in Procs \ {p} : IsOpen(q)}
    /\ survivors' = survivors \cup {c}

-----------------------------------------------------------------------------
(* Commands begin and end *)

\* The write end of the child is closed, by close() or because it exits.
Hangup(p) == pipe' = [pipe EXCEPT ![p] = IF @ = "byte" THEN "byte" ELSE "closed"]

\* run_*(): the path is validated, the password is read, and run_mount() forks
\* unless it stays in the foreground.
Begin(p, c) ==
    /\ pc[p] = "idle" /\ parent[p] \notin {"forked", "waiting"}
    /\ (journal = "none") <=> (c = "create")
    /\ Goto(p, IF c = "create" THEN "create" ELSE "open")
    /\ cmd' = [cmd EXCEPT ![p] = c]
    /\ \E forks \in BOOLEAN :
        /\ forks => c \in Mounts
        /\ parent' = [parent EXCEPT ![p] = IF forks THEN "forked" ELSE "none"]
        /\ pipe' = [pipe EXCEPT ![p] = IF forks THEN "open" ELSE "closed"]
    /\ mounted' = [mounted EXCEPT ![p] = FALSE]
    /\ behind' = behind \ {p}
    /\ UNCHANGED <<fileVars, lock, walOn, version, survivors, incident>>

\* The process ends; its connection is gone, and so is what it knew (cmd and version
\* are as they were at first).
Gone(p) ==
    /\ Goto(p, "idle")
    /\ SetLock(p, "none")
    /\ walOn' = [walOn EXCEPT ![p] = FALSE]
    /\ cmd' = [cmd EXCEPT ![p] = "create"]
    /\ version' = [version EXCEPT ![p] = FALSE]
    /\ Hangup(p)
    /\ UNCHANGED <<parent, mounted, behind>>

\* It ends without disable_wal().
Vanish(p) ==
    /\ Gone(p)
    /\ incident' = (incident \/ walOn[p])
    /\ UNCHANGED <<fileVars, survivors>>

\* A step of sqlfs_open() or of a command fails: on to sqlfs_close().
Fail(p) == Goto(p, "close") /\ UNCHANGED <<fileVars, cmd, lock, walOn, version,
                                          reportVars, history>>

-----------------------------------------------------------------------------
(* sqlfs_create *)

\* The file is opened or made, and put in WAL mode under the exclusive lock. Since
\* the path was validated another process may have made it.
Create(p) ==
    /\ pc[p] = "create"
    /\ \/ Vanish(p)
       \/ /\ ~OthersHold(p, {"shared", "exclusive"})
          /\ journal' = "wal"
          /\ SetLock(p, "exclusive")
          /\ walOn' = [walOn EXCEPT ![p] = TRUE]
          /\ Goto(p, "schema")
          /\ UNCHANGED <<disk, wal, cmd, version, reportVars, history>>

\* The schema and the root directory, in one transaction; it must be a new file.
CreateSchema(p) ==
    /\ pc[p] = "schema"
    /\ \/ Vanish(p)
       \/ /\ Contents = "blank"
          /\ CommitWal(p, "linked")
          /\ Goto(p, "close")
          /\ UNCHANGED <<journal, cmd, walOn, version, reportVars, incident>>

-----------------------------------------------------------------------------
(* sqlfs_open *)

\* The first query: get_user_version_with_status(). Locking is not exclusive yet,
\* so only a database in WAL mode stays locked. (A reader of one in WAL mode may
\* lack the right to make the files that takes.)
ReadVersion(p) ==
    /\ pc[p] = "open"
    /\ \/ Fail(p)
       \/ /\ ~OthersHold(p, {"exclusive"})
          /\ SetLock(p, IF journal = "wal" THEN "shared" ELSE "none")
          /\ version' = [version EXCEPT ![p] = Contents # "blank"]
          /\ Goto(p, IF cmd[p] \in Writers THEN "wal" ELSE "prepare")
          /\ UNCHANGED <<fileVars, cmd, walOn, reportVars, history>>

\* Variant: enable_wal() without enable_exclusive(), so that the exclusive lock is
\* held only for the change of the mode.
EnableWal_NotExclusive(p) ==
    /\ pc[p] = "wal"
    /\ \/ Fail(p)
       \/ /\ IF lock[p] = "shared" THEN UNCHANGED lock
             ELSE ~OthersHold(p, {"shared", "exclusive"}) /\ SetLock(p, "shared")
          /\ journal' = "wal"
          /\ walOn' = [walOn EXCEPT ![p] = TRUE]
          /\ Goto(p, "prepare")
          /\ UNCHANGED <<disk, wal, cmd, version, reportVars, history>>

\* enable_exclusive() and enable_wal(). Changing the mode takes the exclusive lock;
\* for a database that was in WAL mode when p read its version, there is nothing to
\* change, and its lock remains a shared one until it writes.
EnableWal(p) ==
    /\ pc[p] = "wal"
    /\ \/ Fail(p)
       \/ /\ IF lock[p] = "shared" THEN UNCHANGED lock
             ELSE ~OthersHold(p, {"shared", "exclusive"}) /\ SetLock(p, "exclusive")
          /\ journal' = "wal"
          /\ walOn' = [walOn EXCEPT ![p] = TRUE]
          /\ Goto(p, "prepare")
          /\ UNCHANGED <<disk, wal, cmd, version, reportVars, history>>

AfterOpen(c) == CASE c = "rekey" -> "rekey" [] c = "check" -> "close" [] OTHER -> "purge"

\* Variant: read-only connections do not set PRAGMA locking_mode = exclusive.
Prepare_ReadersNotExclusive(p) ==
    /\ pc[p] = "prepare"
    /\ \/ Fail(p)
       \/ /\ version[p]
          /\ ~OthersHold(p, {"exclusive"})
          /\ Goto(p, AfterOpen(cmd[p]))
          /\ UNCHANGED <<lock, fileVars, cmd, walOn, version, reportVars, history>>

\* The version is checked and the statements are prepared. That reads the schema,
\* and a reader in exclusive locking mode keeps its shared lock. (It cannot be the
\* first to open a database that has got into WAL mode since it read the version.)
Prepare(p) ==
    /\ pc[p] = "prepare"
    /\ \/ Fail(p)
       \/ /\ version[p]
          /\ IF lock[p] # "none" THEN UNCHANGED lock
             ELSE journal = "delete" /\ ~OthersHold(p, {"exclusive"}) /\ SetLock(p, "shared")
          /\ Goto(p, AfterOpen(cmd[p]))
          /\ UNCHANGED <<fileVars, cmd, walOn, version, reportVars, history>>

-----------------------------------------------------------------------------
(* Commands *)

\* sqlfs_purge_all() as the first thing a mount or run_compact() does. When it
\* fails, sqlfuse_main() returns without sqlfs_close().
PurgeAll(p) ==
    /\ pc[p] = "purge"
    /\ \/ cmd[p] = "compact" /\ Fail(p)
       \/ cmd[p] \in Mounts /\ Vanish(p)
       \/ /\ Contents = "linked"
          /\ Goto(p, IF cmd[p] = "compact" THEN "vacuum" ELSE "fuse")
          /\ UNCHANGED <<fileVars, cmd, lock, walOn, version, reportVars, history>>
       \/ /\ Contents = "unlinked"
          /\ CommitWal(p, "linked")
          /\ Goto(p, IF cmd[p] = "compact" THEN "vacuum" ELSE "fuse")
          /\ UNCHANGED <<journal, cmd, walOn, version, reportVars, incident>>

\* sqlfs_vacuum(), sqlfs_rekey(): a transaction that rewrites the file. (run_rekey
\* may also end before it, for want of a new password.) Assumed of SQLite: a rekey is
\* a write transaction like any other, under the exclusive lock. The code trusts it with
\* less: "sqlite3_rekey() does NOT check this" (sqlfs.c:1268); see RekeyIsAlone.
Rewrite(p) ==
    /\ pc[p] \in {"vacuum", "rekey"}
    /\ \/ Fail(p)
       \/ /\ CommitWal(p, Contents)
          /\ Goto(p, "close")
          /\ UNCHANGED <<journal, cmd, walOn, version, reportVars, incident>>

Serve(p) == Goto(p, "serve") /\ mounted' = [mounted EXCEPT ![p] = TRUE]

\* fuse_mount(), the session, its signal handlers and finish_daemonization().
MountFuse(p) ==
    /\ pc[p] = "fuse"
    /\ \/ Fail(p)
       \/ /\ parent[p] = "none"
          /\ Serve(p)
          /\ UNCHANGED <<fileVars, cmd, lock, walOn, version, parent, pipe, history>>
       \/ /\ parent[p] # "none"
          /\ Goto(p, "report")
          /\ UNCHANGED <<fileVars, cmd, lock, walOn, version, reportVars, history>>

\* The status byte is written and the pipe closed. Nobody reads it when the parent
\* was killed; the daemon goes on all the same.
Report(p) ==
    /\ pc[p] = "report"
    /\ pipe' = [pipe EXCEPT ![p] = IF parent[p] = "killed" THEN "closed" ELSE "byte"]
    /\ Serve(p)
    /\ UNCHANGED <<fileVars, cmd, lock, walOn, version, parent, history>>

\* A request is a transaction that leaves unlinked inodes or does not. (One that
\* fails changes nothing.)
Write(p) ==
    /\ pc[p] = "serve"
    /\ \E c \in {"linked", "unlinked"} : CommitWal(p, c)
    /\ UNCHANGED <<journal, pc, cmd, walOn, version, reportVars, incident>>

\* Variant: the status of the checkpoint is not looked at.
Sync_IgnoreStatus(p) ==
    /\ pc[p] = "serve" /\ walOn[p]
    /\ \/ wal' = <<>> /\ disk' = Contents
       \/ UNCHANGED <<disk, wal>>
    /\ survivors' = {Contents}
    /\ UNCHANGED <<journal, procVars, reportVars, behind, incident>>

\* sqlfs_sync(), for fsync and fsyncdir. (When the checkpoint fails the reply is
\* EIO, and nothing has changed.)
Sync(p) ==
    /\ pc[p] = "serve" /\ walOn[p]
    /\ wal' = <<>> /\ disk' = Contents
    /\ survivors' = {Contents}
    /\ UNCHANGED <<journal, procVars, reportVars, behind, incident>>

\* fuse_session_loop() returns: unmounted, or interrupted by a signal.
EndSession(p) ==
    /\ pc[p] = "serve"
    /\ Goto(p, "destroy")
    /\ UNCHANGED <<fileVars, cmd, lock, walOn, version, reportVars, history>>

\* Variant: inodes the kernel had not forgotten are not purged.
Destroy_NoPurge(p) ==
    /\ pc[p] = "destroy"
    /\ Goto(p, "close")
    /\ UNCHANGED <<fileVars, cmd, lock, walOn, version, reportVars, history>>

\* sqlfuse_destroy() purges what the kernel had not forgotten. A purge that fails
\* is ignored.
Destroy(p) ==
    /\ pc[p] = "destroy"
    /\ Goto(p, "close")
    /\ \/ /\ Contents = "linked"
          /\ UNCHANGED <<fileVars, lock, history>>
       \/ /\ Contents = "unlinked"
          /\ incident' = TRUE
          /\ UNCHANGED <<fileVars, lock, behind, survivors>>
       \/ /\ Contents = "unlinked"
          /\ CommitWal(p, "linked")
          /\ UNCHANGED <<journal, incident>>
    /\ UNCHANGED <<cmd, walOn, version, reportVars>>

\* sqlfs_close(): if it has enabled WAL, disable_wal() writes the log to the file
\* and changes the mode back. It needs the exclusive lock; failure is only logged.
Close(p) ==
    /\ pc[p] = "close"
    /\ \/ Vanish(p)
       \/ /\ walOn[p]
          /\ ~OthersHold(p, {"shared", "exclusive"})
          /\ journal' = "delete"
          /\ disk' = Contents /\ wal' = <<>> /\ survivors' = {Contents}
          /\ incident' = (incident /\ Contents # "linked")
          /\ Gone(p)

-----------------------------------------------------------------------------
(* The parent: run_mount() after fork() *)

\* It closes its own write end, or it is killed before it could.
ParentCloses(p) ==
    /\ parent[p] = "forked"
    /\ parent' = [parent EXCEPT ![p] = "waiting"]
    /\ UNCHANGED <<fileVars, procVars, pipe, mounted, history>>

\* Variants: the end of the pipe counts as success; it is never seen, because the
\* parent itself holds a write end.
Status_EofIsSuccess(p) ==
    CASE pipe[p] \in {"byte", "closed"} -> "exit_0" [] OTHER -> "waiting"
Status_KeepsWriteEnd(p) ==
    CASE pipe[p] = "byte" -> "exit_0" [] OTHER -> "waiting"

\* What read() tells the parent, if it does not block.
Status(p) ==
    CASE pipe[p] = "byte" -> "exit_0"
      [] pipe[p] = "closed" -> "exit_1"
      [] OTHER -> "waiting"

ParentReads(p) ==
    /\ parent[p] = "waiting" /\ Status(p) # "waiting"
    /\ parent' = [parent EXCEPT ![p] = Status(p)]
    /\ UNCHANGED <<fileVars, procVars, pipe, mounted, history>>

-----------------------------------------------------------------------------
(* What may happen at any time *)

\* A process is killed, or a CHECK fails.
Crash(p) == pc[p] # "idle" /\ Vanish(p)

ParentKilled(p) ==
    /\ parent[p] \in {"forked", "waiting"}
    /\ parent' = [parent EXCEPT ![p] = "killed"]
    /\ UNCHANGED <<fileVars, procVars, pipe, mounted, history>>

\* Nobody is left. With synchronous = normal the log is written to the disk by a
\* checkpoint only, and any number of the last commits are lost.
PowerFailure ==
    /\ \E k \in 0..Len(wal) : wal' = SubSeq(wal, 1, k)
    /\ pc' = [p \in Procs |-> "idle"]
    /\ lock' = [p \in Procs |-> "none"]
    /\ walOn' = [p \in Procs |-> FALSE]
    /\ cmd' = [p \in Procs |-> "create"]
    /\ version' = [p \in Procs |-> FALSE]
    /\ parent' = [p \in Procs |-> "none"]
    /\ pipe' = [p \in Procs |-> "closed"]
    /\ mounted' = [p \in Procs |-> FALSE]
    /\ behind' = {}
    /\ incident' = (incident \/ journal = "wal")
    /\ UNCHANGED <<journal, disk, survivors>>

-----------------------------------------------------------------------------

Init ==
    /\ journal = "none" /\ disk = "blank" /\ wal = <<>>
    /\ pc = [p \in Procs |-> "idle"]
    /\ cmd = [p \in Procs |-> "create"]
    /\ lock = [p \in Procs |-> "none"]
    /\ walOn = [p \in Procs |-> FALSE]
    /\ version = [p \in Procs |-> FALSE]
    /\ parent = [p \in Procs |-> "none"]
    /\ pipe = [p \in Procs |-> "closed"]
    /\ mounted = [p \in Procs |-> FALSE]
    /\ behind = {} /\ survivors = {"blank"} /\ incident = FALSE

\* The steps a process takes by itself.
Advance(p) ==
    \/ Create(p) \/ CreateSchema(p)
    \/ ReadVersion(p) \/ EnableWal(p) \/ Prepare(p)
    \/ PurgeAll(p) \/ Rewrite(p) \/ MountFuse(p) \/ Report(p)
    \/ Destroy(p) \/ Close(p)

Parent(p) == ParentCloses(p) \/ ParentReads(p)

Next ==
    \/ \E p \in Procs :
        \/ \E c \in Commands : Begin(p, c)
        \/ Advance(p) \/ Parent(p)
        \/ Write(p) \/ Sync(p) \/ EndSession(p)
        \/ Crash(p) \/ ParentKilled(p)
    \/ PowerFailure

\* Nothing waits for a lock, so each process gets on by itself; but a session may
\* last for ever.
Spec == Init /\ [][Next]_vars
             /\ \A p \in Procs : WF_vars(Advance(p)) /\ WF_vars(Parent(p))

-----------------------------------------------------------------------------
(* Properties *)

\* Every variable has its type.
TypeOK ==
    /\ journal \in {"none", "delete", "wal"}
    /\ disk \in {"blank", "linked", "unlinked"}
    /\ wal \in Seq({"linked", "unlinked"}) /\ Len(wal) <= MaxWal
    /\ pc \in [Procs -> PCs]
    /\ cmd \in [Procs -> Writers \cup Readers \cup {"create"}]
    /\ lock \in [Procs -> {"none", "shared", "exclusive"}]
    /\ walOn \in [Procs -> BOOLEAN]
    /\ version \in [Procs -> BOOLEAN]
    /\ parent \in [Procs -> {"none", "forked", "waiting", "killed", "exit_0", "exit_1"}]
    /\ pipe \in [Procs -> {"open", "byte", "closed"}]
    /\ mounted \in [Procs -> BOOLEAN]
    /\ behind \subseteq Procs
    /\ survivors \subseteq {"blank", "linked", "unlinked"}
    /\ incident \in BOOLEAN

\* The exit status of "sqlfuse mount" is true: 0 only when the daemon got as far
\* as serving the file system, after open, purge, mount and daemonization; 1 only
\* when it did not, and never will.
ReportIsTrue ==
    \A p \in Procs : /\ parent[p] = "exit_0" => mounted[p]
                     /\ parent[p] = "exit_1" => ~mounted[p] /\ pc[p] = "idle"

\* While a process has the file system open, read-only or not, no other commits a
\* change to the database, so that what the kernel has cached stays true.
NobodyWritesBehind == \A p \in behind : ~IsOpen(p)

\* "We rely on an exclusive lock being obtained in sqlfs_open() to guarantee that no
\* other process is using the database while we rekey" (sqlfs.c:1268): true unless
\* there was an incident, after which the lock may be a shared one.
RekeyIsAlone ==
    \A p, q \in Procs : p # q /\ pc[p] = "rekey" /\ ~incident => ~IsOpen(q)

\* When all have ended and there was no incident since the last writer opened the
\* database (a process killed, a purge or disable_wal() that failed, a power
\* failure), it can be mounted read-only: it is not in WAL mode, and there is
\* nothing left to purge.
ReadyForReadOnly ==
    (\A p \in Procs : pc[p] = "idle") /\ journal # "none" /\ ~incident
        => journal = "delete" /\ Contents = "linked"

\* What a power failure leaves is the contents that the last fsync, or the proper
\* end of the last writer, declared durable, or contents committed after that; never
\* older ones, though no commit waits for the disk.
SyncedSurvives == [][PowerFailure => Contents' \in survivors]_vars

\* "sqlfuse mount" in the background returns, whatever becomes of the daemon: it
\* gets its byte, or the end of the pipe.
ParentReturns ==
    \A p \in Procs :
        parent[p] \in {"forked", "waiting"} ~> parent[p] \notin {"forked", "waiting"}

\* "It is not possible to mount the same database at more than one mountpoint at a
\* time, unless all instances are mounted in readonly mode" (USAGE.txt).
OneWritableMount ==
    \A p, q \in Procs :
        p # q /\ pc[p] = "serve" /\ pc[q] = "serve"
            => cmd[p] = "mount_ro" /\ cmd[q] = "mount_ro"
=============================================================================
