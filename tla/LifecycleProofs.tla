-------------------------- MODULE LifecycleProofs --------------------------
(***************************************************************************)
(* Invariants of Lifecycle for any number of processes, any commands and a *)
(* log of any length: who may write, and what the parent of a daemon is    *)
(* told.                                                                   *)
(***************************************************************************)
EXTENDS Lifecycle, TLAPS

\* The parts of TypeOK the proofs below need, by what they speak of.
ProcTypes ==
    /\ pc \in [Procs -> PCs]
    /\ cmd \in [Procs -> Writers \cup Readers \cup {"create"}]
    /\ lock \in [Procs -> {"none", "shared", "exclusive"}]
    /\ walOn \in [Procs -> BOOLEAN]
    /\ version \in [Procs -> BOOLEAN]
    /\ behind \subseteq Procs

ReportTypes ==
    /\ parent \in [Procs -> {"none", "forked", "waiting", "killed", "exit_0", "exit_1"}]
    /\ pipe \in [Procs -> {"open", "byte", "closed"}]
    /\ mounted \in [Procs -> BOOLEAN]

\* A process that has the file system open holds a lock, and so nobody else has
\* written.
OpenIsLocked ==
    /\ \A p \in Procs : IsOpen(p) => lock[p] # "none"
    /\ behind = {}

\* What the two ends of the pipe say of each other.
PipeIsTrue ==
    \A p \in Procs :
        /\ pipe[p] = "byte" => mounted[p]
        /\ parent[p] \in {"forked", "waiting"} /\ pipe[p] = "open" => ~mounted[p]
        /\ parent[p] \in {"forked", "waiting"} /\ pipe[p] = "closed"
             => ~mounted[p] /\ pc[p] = "idle"

LockInv == ProcTypes /\ OpenIsLocked
ReportInv == ProcTypes /\ ReportTypes /\ PipeIsTrue /\ ReportIsTrue

-----------------------------------------------------------------------------

\* Who commits finds nobody else who has the file system open.
LEMMA WritersAreAlone ==
    ASSUME LockInv, NEW p \in Procs, NEW c, CommitWal(p, c)
    PROVE  /\ behind' = {}
           /\ lock' = [lock EXCEPT ![p] = "exclusive"]
<1>1. \A q \in Procs \ {p} : lock[q] \notin {"shared", "exclusive"}
  BY DEF CommitWal, MayWrite, OthersHold
<1>2. \A q \in Procs \ {p} : ~IsOpen(q)
  BY <1>1 DEF LockInv, ProcTypes, OpenIsLocked
<1> QED BY <1>2 DEF CommitWal, LockInv, OpenIsLocked, SetLock

LEMMA EndKeepsLockInv ==
    ASSUME LockInv, NEW p \in Procs, Gone(p)
    PROVE  LockInv'
BY DEF LockInv, ProcTypes, OpenIsLocked, Gone, Goto, SetLock, Hangup, IsOpen, Opened, PCs

LEMMA FailKeepsLockInv ==
    ASSUME LockInv, NEW p \in Procs, Fail(p)
    PROVE  LockInv'
BY DEF LockInv, ProcTypes, OpenIsLocked, Fail, Goto, IsOpen, Opened, PCs, reportVars,
       history, fileVars

LEMMA LockInvInit == Init => LockInv
BY DEF Init, LockInv, ProcTypes, OpenIsLocked, IsOpen, Opened, PCs

LEMMA LockInvStep ==
    ASSUME LockInv, [Next]_vars
    PROVE  LockInv'
<1> USE DEF LockInv, ProcTypes, OpenIsLocked, IsOpen, Opened, PCs, Goto, SetLock,
            fileVars, procVars, reportVars, history
<1>1. ASSUME NEW p \in Procs, NEW c \in Commands, Begin(p, c)
      PROVE  LockInv'
  BY <1>1, CommandsAssumption DEF Begin
<1>2. ASSUME NEW p \in Procs, Create(p)
      PROVE  LockInv'
  BY <1>2, EndKeepsLockInv DEF Create, Vanish
<1>3. ASSUME NEW p \in Procs, CreateSchema(p)
      PROVE  LockInv'
  BY <1>3, EndKeepsLockInv, WritersAreAlone DEF CreateSchema, Vanish
<1>4. ASSUME NEW p \in Procs, ReadVersion(p)
      PROVE  LockInv'
  BY <1>4, FailKeepsLockInv DEF ReadVersion
<1>5. ASSUME NEW p \in Procs, EnableWal(p)
      PROVE  LockInv'
  BY <1>5, FailKeepsLockInv DEF EnableWal
<1>6. ASSUME NEW p \in Procs, Prepare(p)
      PROVE  LockInv'
  BY <1>6, FailKeepsLockInv DEF Prepare, AfterOpen
<1>7. ASSUME NEW p \in Procs, PurgeAll(p)
      PROVE  LockInv'
  BY <1>7, FailKeepsLockInv, EndKeepsLockInv, WritersAreAlone DEF PurgeAll, Vanish
<1>8. ASSUME NEW p \in Procs, Rewrite(p)
      PROVE  LockInv'
  BY <1>8, FailKeepsLockInv, WritersAreAlone DEF Rewrite
<1>9. ASSUME NEW p \in Procs, MountFuse(p)
      PROVE  LockInv'
  BY <1>9, FailKeepsLockInv DEF MountFuse, Serve
<1>10. ASSUME NEW p \in Procs, Report(p)
       PROVE  LockInv'
  BY <1>10 DEF Report, Serve
<1>11. ASSUME NEW p \in Procs, Destroy(p)
       PROVE  LockInv'
  BY <1>11, WritersAreAlone DEF Destroy
<1>12. ASSUME NEW p \in Procs, Close(p)
       PROVE  LockInv'
  BY <1>12, EndKeepsLockInv DEF Close, Vanish
<1>13. ASSUME NEW p \in Procs, Write(p)
       PROVE  LockInv'
  BY <1>13, WritersAreAlone DEF Write
<1>14. ASSUME NEW p \in Procs, Sync(p) \/ EndSession(p) \/ Parent(p) \/ ParentKilled(p)
       PROVE  LockInv'
  BY <1>14 DEF Sync, EndSession, Parent, ParentCloses, ParentReads, ParentKilled
<1>15. ASSUME NEW p \in Procs, Crash(p)
       PROVE  LockInv'
  BY <1>15, EndKeepsLockInv DEF Crash, Vanish
<1>16. CASE PowerFailure
  BY <1>16 DEF PowerFailure
<1>17. CASE UNCHANGED vars
  BY <1>17 DEF vars
<1> QED
  BY <1>1, <1>2, <1>3, <1>4, <1>5, <1>6, <1>7, <1>8, <1>9, <1>10, <1>11, <1>12,
     <1>13, <1>14, <1>15, <1>16, <1>17 DEF Next, Advance

\* While a process has the file system open, no other changes the database, for
\* any number of processes and commands. (sqlfs.c:919, 932, 1268)
THEOREM NobodyWrites == Spec => []NobodyWritesBehind
<1>1. LockInv => NobodyWritesBehind
  BY DEF LockInv, OpenIsLocked, NobodyWritesBehind
<1> QED BY LockInvInit, LockInvStep, <1>1, PTL DEF Spec

-----------------------------------------------------------------------------

LEMMA ReportInvInit == Init => ReportInv
BY DEF Init, ReportInv, ProcTypes, ReportTypes, PipeIsTrue, ReportIsTrue, PCs, Opened

\* What becomes of the parts of ReportInv when a process ends.
LEMMA EndKeepsReportInv ==
    ASSUME ReportInv, NEW p \in Procs, Gone(p)
    PROVE  ReportTypes' /\ PipeIsTrue' /\ ReportIsTrue'
BY DEF ReportInv, ProcTypes, ReportTypes, PipeIsTrue, ReportIsTrue, Gone, Goto, Hangup,
       PCs, Opened

\* A step that moves a process which is not idle, and leaves the pipe alone.
LEMMA MoveKeepsReportInv ==
    ASSUME ReportInv, NEW p \in Procs, pc[p] # "idle", NEW l, Goto(p, l),
           UNCHANGED reportVars
    PROVE  ReportTypes' /\ PipeIsTrue' /\ ReportIsTrue'
BY DEF ReportInv, ProcTypes, ReportTypes, PipeIsTrue, ReportIsTrue, Goto, reportVars

LEMMA ReportInvStep ==
    ASSUME LockInv, ReportInv, [Next]_vars
    PROVE  ReportInv'
<1> USE DEF ReportInv, Goto, reportVars
<1> DEFINE Kept == ReportTypes' /\ PipeIsTrue' /\ ReportIsTrue'
<1>a. ProcTypes'
  BY LockInvStep DEF LockInv
<1>b. ASSUME NEW p \in Procs, Fail(p), pc[p] # "idle"
      PROVE  Kept
  BY <1>b, MoveKeepsReportInv DEF Fail
<1>1. ASSUME NEW p \in Procs, NEW c \in Commands, Begin(p, c)
      PROVE  Kept
  BY <1>1 DEF Begin, ProcTypes, ReportTypes, PipeIsTrue, ReportIsTrue
<1>2. ASSUME NEW p \in Procs, Create(p)
      PROVE  Kept
  BY <1>2, EndKeepsReportInv, MoveKeepsReportInv DEF Create, Vanish
<1>3. ASSUME NEW p \in Procs, CreateSchema(p)
      PROVE  Kept
  BY <1>3, EndKeepsReportInv, MoveKeepsReportInv DEF CreateSchema, Vanish
<1>4. ASSUME NEW p \in Procs, ReadVersion(p) \/ EnableWal(p) \/ Prepare(p)
      PROVE  Kept
  BY <1>4, <1>b, MoveKeepsReportInv DEF ReadVersion, EnableWal, Prepare
<1>5. ASSUME NEW p \in Procs, PurgeAll(p)
      PROVE  Kept
  BY <1>5, <1>b, EndKeepsReportInv, MoveKeepsReportInv DEF PurgeAll, Vanish
<1>6. ASSUME NEW p \in Procs, Rewrite(p)
      PROVE  Kept
  BY <1>6, <1>b, MoveKeepsReportInv DEF Rewrite
<1>7. ASSUME NEW p \in Procs, MountFuse(p)
      PROVE  Kept
  <2>1. CASE Fail(p)
    BY <1>7, <2>1, <1>b DEF MountFuse
  <2>2. CASE parent[p] = "none" /\ Serve(p) /\ UNCHANGED <<parent, pipe>>
    BY <2>2 DEF Serve, ProcTypes, ReportTypes, PipeIsTrue, ReportIsTrue
  <2>3. CASE Goto(p, "report") /\ UNCHANGED reportVars
    BY <1>7, <2>3, MoveKeepsReportInv DEF MountFuse
  <2> QED BY <1>7, <2>1, <2>2, <2>3 DEF MountFuse
<1>8. ASSUME NEW p \in Procs, Report(p)
      PROVE  Kept
  BY <1>8 DEF Report, Serve, ProcTypes, ReportTypes, PipeIsTrue, ReportIsTrue
<1>9. ASSUME NEW p \in Procs, Destroy(p) \/ EndSession(p)
      PROVE  Kept
  BY <1>9, MoveKeepsReportInv DEF Destroy, EndSession
<1>10. ASSUME NEW p \in Procs, Close(p)
       PROVE  Kept
  BY <1>10, EndKeepsReportInv DEF Close, Vanish
<1>11. ASSUME NEW p \in Procs, Write(p) \/ Sync(p)
       PROVE  Kept
  BY <1>11 DEF Write, Sync, procVars, ReportTypes, PipeIsTrue, ReportIsTrue
<1>12. ASSUME NEW p \in Procs, ParentCloses(p) \/ ParentKilled(p)
       PROVE  Kept
  BY <1>12 DEF ParentCloses, ParentKilled, procVars, ReportTypes, PipeIsTrue, ReportIsTrue
<1>13. ASSUME NEW p \in Procs, ParentReads(p)
       PROVE  Kept
  BY <1>13 DEF ParentReads, Status, procVars, ReportTypes, PipeIsTrue, ReportIsTrue
<1>14. ASSUME NEW p \in Procs, Crash(p)
       PROVE  Kept
  BY <1>14, EndKeepsReportInv DEF Crash, Vanish
<1>15. CASE PowerFailure
  <2>1. \A p \in Procs : pc'[p] = "idle" /\ parent'[p] = "none" /\ pipe'[p] = "closed"
    BY <1>15 DEF PowerFailure
  <2>2. /\ parent' = [p \in Procs |-> "none"]
        /\ pipe' = [p \in Procs |-> "closed"]
        /\ mounted' = [p \in Procs |-> FALSE]
    BY <1>15 DEF PowerFailure
  <2>3. ReportTypes'
    BY <2>2, Zenon DEF ReportTypes
  <2>4. PipeIsTrue'
    BY <2>1 DEF PipeIsTrue
  <2>5. ReportIsTrue'
    BY <2>1 DEF ReportIsTrue
  <2> QED BY <1>a, <2>3, <2>4, <2>5
<1>16. CASE UNCHANGED vars
  <2>1. UNCHANGED <<pc, parent, pipe, mounted>>
    BY <1>16 DEF vars, procVars
  <2>2. ReportTypes' /\ PipeIsTrue' /\ ReportIsTrue'
    BY <2>1 DEF ReportTypes, PipeIsTrue, ReportIsTrue
  <2> QED BY <1>a, <2>2
<1> QED
  BY <1>a, <1>1, <1>2, <1>3, <1>4, <1>5, <1>6, <1>7, <1>8, <1>9, <1>10, <1>11, <1>12,
     <1>13, <1>14, <1>15, <1>16 DEF Next, Advance, Parent

\* The exit status of "sqlfuse mount" in the background is 0 only if the daemon got
\* as far as serving, and 1 only if it has ended without. (main.c:123, 621)
THEOREM ReportsAreTrue == Spec => []ReportIsTrue
<1>1. Init => LockInv /\ ReportInv
  BY LockInvInit, ReportInvInit
<1>2. LockInv /\ ReportInv /\ [Next]_vars => LockInv' /\ ReportInv'
  BY LockInvStep, ReportInvStep
<1>3. ReportInv => ReportIsTrue
  BY DEF ReportInv
<1> QED BY <1>1, <1>2, <1>3, PTL DEF Spec

-----------------------------------------------------------------------------

\* The rest of TypeOK.
FileTypes ==
    /\ journal \in {"none", "delete", "wal"}
    /\ disk \in {"blank", "linked", "unlinked"}
    /\ wal \in Seq({"linked", "unlinked"}) /\ Len(wal) <= MaxWal
    /\ incident \in BOOLEAN

\* Without a file, only sqlfs_create() is under way; and nobody who has found the
\* schema, or goes by it, finds it gone.
NotBlank ==
    /\ journal = "none" => \A p \in Procs : pc[p] \in {"idle", "create"}
    /\ \A p \in Procs :
         pc[p] \in Opened \/ (pc[p] \in {"wal", "prepare"} /\ version[p])
            => Contents # "blank"

\* A writer is in WAL mode, with a lock, as long as it has the file open.
WalIsOn ==
    \A p \in Procs :
        /\ walOn[p] => journal = "wal" /\ lock[p] # "none" /\ pc[p] # "idle"
        /\ pc[p] = "schema" => walOn[p] /\ lock[p] = "exclusive"
        /\ pc[p] \in {"open", "wal", "prepare"} \cup Opened => cmd[p] # "create"
        /\ pc[p] \in {"prepare"} \cup Opened /\ cmd[p] \notin Readers => walOn[p]

\* q will leave the file in order, or what happens to it is an incident.
Tidies(q) == walOn[q] /\ lock[q] = "exclusive" /\ pc[q] \in {"schema", "serve", "destroy"}

WriterTidies ==
    /\ journal # "wal" => wal = <<>>
    /\ ~incident /\ journal = "wal" => \E q \in Procs : walOn[q]
    /\ ~incident /\ journal # "none" /\ Contents # "linked" => \E q \in Procs : Tidies(q)

FileInv == FileTypes /\ NotBlank /\ WalIsOn /\ WriterTidies

LEMMA FileInvInit == Init => FileInv
<1> SUFFICES ASSUME Init PROVE FileInv
  OBVIOUS
<1>1. FileTypes
  <2>1. wal \in Seq({"linked", "unlinked"}) /\ Len(wal) = 0
    BY DEF Init
  <2>2. journal = "none" /\ disk = "blank"
    BY DEF Init
  <2>3. incident \in BOOLEAN
    BY Zenon DEF Init
  <2> QED BY <2>1, <2>2, <2>3, MaxWalAssumption DEF FileTypes
<1>2. \A p \in Procs : pc[p] = "idle" /\ ~walOn[p]
  BY DEF Init
<1>3. NotBlank /\ WalIsOn
  BY <1>2 DEF NotBlank, WalIsOn, Opened
<1>4. WriterTidies
  BY DEF Init, WriterTidies
<1> QED BY <1>1, <1>3, <1>4 DEF FileInv

\* A checkpoint, and a step that leaves database and log alone, keep the contents.
LEMMA ContentsKept ==
    ASSUME UNCHANGED <<disk, wal>> \/ (disk' = Contents /\ wal' = <<>>)
    PROVE  Contents' = Contents
BY DEF Contents

LEMMA ContentsType ==
    ASSUME FileTypes
    PROVE  Contents \in {"blank", "linked", "unlinked"}
BY DEF FileTypes, Contents

\* A commit makes c the contents, and no other process could have written.
LEMMA CommitIsSeen ==
    ASSUME FileTypes, NEW p \in Procs, NEW c \in {"linked", "unlinked"}, CommitWal(p, c)
    PROVE  /\ Contents' = c
           /\ disk' \in {"blank", "linked", "unlinked"}
           /\ wal' \in Seq({"linked", "unlinked"}) /\ Len(wal') <= MaxWal
           /\ cmd[p] \notin Readers
           /\ SetLock(p, "exclusive")
           /\ \A q \in Procs \ {p} : lock[q] \notin {"shared", "exclusive"}
<1>1. /\ cmd[p] \notin Readers
      /\ SetLock(p, "exclusive")
      /\ \A q \in Procs \ {p} : lock[q] \notin {"shared", "exclusive"}
  BY DEF CommitWal, MayWrite, OthersHold
<1>2. CASE Len(wal) < MaxWal
  <2>1. wal' = Append(wal, c) /\ disk' = disk
    BY <1>2 DEF CommitWal
  <2>2. /\ wal' \in Seq({"linked", "unlinked"}) /\ Len(wal') = Len(wal) + 1
        /\ wal'[Len(wal')] = c
    BY <2>1 DEF FileTypes
  <2>3. wal' # <<>>
    BY <2>2 DEF FileTypes
  <2> QED BY <1>1, <1>2, <2>1, <2>2, <2>3, MaxWalAssumption DEF FileTypes, Contents
<1>3. CASE ~(Len(wal) < MaxWal)
  BY <1>1, <1>3, MaxWalAssumption DEF CommitWal, FileTypes, Contents
<1> QED BY <1>2, <1>3

\* A process ends without disable_wal().
LEMMA VanishKeepsFileInv ==
    ASSUME ProcTypes, FileInv, NEW p \in Procs, Vanish(p)
    PROVE  FileInv'
<1>1. /\ UNCHANGED <<journal, disk, wal>>
      /\ cmd' = [cmd EXCEPT ![p] = "create"]
      /\ version' = [version EXCEPT ![p] = FALSE]
      /\ pc' = [pc EXCEPT ![p] = "idle"]
      /\ lock' = [lock EXCEPT ![p] = "none"]
      /\ walOn' = [walOn EXCEPT ![p] = FALSE]
      /\ incident' = (incident \/ walOn[p])
  BY DEF Vanish, Gone, fileVars, Goto, SetLock
<1>2. Contents' = Contents
  BY <1>1, ContentsKept
<1>3. FileTypes'
  BY <1>1 DEF FileInv, FileTypes, ProcTypes
<1>4. NotBlank'
  BY <1>1, <1>2 DEF FileInv, NotBlank, ProcTypes, Opened
<1>5. WalIsOn'
  BY <1>1 DEF FileInv, WalIsOn, ProcTypes, Opened
<1>6. WriterTidies'
  BY <1>1, <1>2 DEF FileInv, WriterTidies, Tidies, ProcTypes
<1> QED BY <1>3, <1>4, <1>5, <1>6 DEF FileInv

\* A step from l0 to l that leaves the file and the locks alone.
LEMMA MoveKeepsFileInv ==
    ASSUME ProcTypes, FileInv, NEW p \in Procs, NEW l, Goto(p, l),
           UNCHANGED <<fileVars, cmd, lock, walOn, version, incident>>,
           pc[p] \notin {"idle", "create", "schema"},
           l \notin {"idle", "open", "wal", "prepare", "schema"},
           l \in Opened => pc[p] \in Opened \/ (pc[p] = "prepare" /\ version[p]),
           pc[p] \in {"serve", "destroy"} => l \in {"serve", "destroy"}
    PROVE  FileInv'
<1>1. /\ UNCHANGED <<journal, disk, wal>>
      /\ pc' = [pc EXCEPT ![p] = l]
  BY DEF fileVars, Goto
<1>2. Contents' = Contents
  BY <1>1, ContentsKept
<1>3. FileTypes'
  BY <1>1 DEF FileInv, FileTypes
<1>4. NotBlank'
  BY <1>1, <1>2 DEF FileInv, NotBlank, ProcTypes, Opened
<1>5. WalIsOn'
  BY <1>1 DEF FileInv, WalIsOn, ProcTypes, Opened
<1>6. WriterTidies'
  BY <1>1, <1>2 DEF FileInv, WriterTidies, Tidies, ProcTypes
<1> QED BY <1>3, <1>4, <1>5, <1>6 DEF FileInv

LEMMA FailKeepsFileInv ==
    ASSUME ProcTypes, FileInv, NEW p \in Procs, Fail(p),
           pc[p] \notin {"idle", "create", "schema", "serve", "destroy"}
    PROVE  FileInv'
BY MoveKeepsFileInv DEF Fail, history, Opened

\* A process that has the file open commits c and goes on, to l.
LEMMA CommitKeepsFileInv ==
    ASSUME ProcTypes, FileInv, NEW p \in Procs, NEW l, NEW c \in {"linked", "unlinked"},
           CommitWal(p, c), Goto(p, l), UNCHANGED <<journal, cmd, walOn, version>>,
           incident' = incident,
           pc[p] \in {"schema"} \cup Opened,
           l \in {"close"} \cup Opened, pc[p] = "schema" => l = "close",
           c = "unlinked" => \/ Contents = "unlinked" /\ pc[p] \notin {"schema", "serve", "destroy"}
                             \/ l \in {"serve", "destroy"}
    PROVE  FileInv'
<1>1. /\ Contents' = c
      /\ disk' \in {"blank", "linked", "unlinked"}
      /\ wal' \in Seq({"linked", "unlinked"}) /\ Len(wal') <= MaxWal
      /\ cmd[p] \notin Readers
      /\ lock' = [lock EXCEPT ![p] = "exclusive"]
      /\ \A q \in Procs \ {p} : lock[q] \notin {"shared", "exclusive"}
  BY CommitIsSeen DEF FileInv, SetLock
<1>2. pc' = [pc EXCEPT ![p] = l]
  BY DEF Goto
<1>3. walOn[p] /\ journal = "wal"
  BY <1>1 DEF FileInv, WalIsOn
<1>4. FileTypes'
  BY <1>1 DEF FileInv, FileTypes
<1>5. NotBlank'
  BY <1>1, <1>2, <1>3 DEF FileInv, NotBlank
<1>6. WalIsOn'
  BY <1>1, <1>2, <1>3 DEF FileInv, WalIsOn, ProcTypes, Opened
<1>7. ASSUME ~incident, c # "linked"
      PROVE  Tidies(p)'
  <2>1. CASE l \in {"serve", "destroy"}
    BY <1>1, <1>2, <1>3, <2>1 DEF Tidies, ProcTypes
  <2>2. CASE l \notin {"serve", "destroy"}
    <3>1. Contents = "unlinked" /\ pc[p] \notin {"schema", "serve", "destroy"}
      BY <1>7, <2>2
    <3>2. PICK q \in Procs : Tidies(q)
      BY <1>3, <1>7, <3>1 DEF FileInv, WriterTidies
    <3> QED BY <1>1, <3>1, <3>2 DEF Tidies
  <2> QED BY <2>1, <2>2
<1>8. WriterTidies'
  BY <1>1, <1>3, <1>7 DEF WriterTidies
<1> QED BY <1>4, <1>5, <1>6, <1>8 DEF FileInv

LEMMA EnableWalKeepsFileInv ==
    ASSUME ProcTypes, FileInv, NEW p \in Procs, EnableWal(p)
    PROVE  FileInv'
<1>1. CASE Fail(p)
  BY <1>1, FailKeepsFileInv DEF EnableWal
<1>2. CASE ~Fail(p)
  <2>1. /\ pc[p] = "wal"
        /\ journal' = "wal" /\ UNCHANGED <<disk, wal, cmd, version, incident>>
        /\ pc' = [pc EXCEPT ![p] = "prepare"]
        /\ walOn' = [walOn EXCEPT ![p] = TRUE]
        /\ (lock' = lock /\ lock[p] = "shared") \/ lock' = [lock EXCEPT ![p] = "exclusive"]
    BY <1>2 DEF EnableWal, Goto, SetLock, history
  <2>2. Contents' = Contents
    BY <2>1, ContentsKept
  <2>3. journal # "none"
    BY <2>1 DEF FileInv, NotBlank
  <2>4. FileTypes'
    BY <2>1 DEF FileInv, FileTypes
  <2>5. NotBlank'
    BY <2>1, <2>2 DEF FileInv, NotBlank, ProcTypes, Opened
  <2>6. WalIsOn'
    BY <2>1 DEF FileInv, WalIsOn, ProcTypes, Opened
  <2>7. WriterTidies'
    <3>1. walOn'[p]
      BY <2>1 DEF ProcTypes
    <3>2. \A q \in Procs : Tidies(q) => Tidies(q)'
      BY <2>1 DEF Tidies, ProcTypes
    <3> QED BY <2>1, <2>2, <2>3, <3>1, <3>2 DEF FileInv, WriterTidies
  <2> QED BY <2>4, <2>5, <2>6, <2>7 DEF FileInv
<1> QED BY <1>1, <1>2

LEMMA CreateKeepsFileInv ==
    ASSUME ProcTypes, FileInv, NEW p \in Procs, Create(p)
    PROVE  FileInv'
<1>1. CASE Vanish(p)
  BY <1>1, VanishKeepsFileInv
<1>2. CASE ~Vanish(p)
  <2>1. /\ pc[p] = "create"
        /\ \A q \in Procs \ {p} : lock[q] \notin {"shared", "exclusive"}
        /\ journal' = "wal" /\ UNCHANGED <<disk, wal, cmd, version, incident>>
        /\ pc' = [pc EXCEPT ![p] = "schema"]
        /\ walOn' = [walOn EXCEPT ![p] = TRUE]
        /\ lock' = [lock EXCEPT ![p] = "exclusive"]
    BY <1>2 DEF Create, Goto, SetLock, history, OthersHold
  <2>2. Contents' = Contents
    BY <2>1, ContentsKept
  <2>3. FileTypes'
    BY <2>1 DEF FileInv, FileTypes
  <2>4. NotBlank'
    BY <2>1, <2>2 DEF FileInv, NotBlank, ProcTypes, Opened
  <2>5. WalIsOn'
    BY <2>1 DEF FileInv, WalIsOn, ProcTypes, Opened
  <2>6. walOn'[p] /\ Tidies(p)'
    BY <2>1 DEF Tidies, ProcTypes
  <2>7. WriterTidies'
    BY <2>1, <2>6 DEF WriterTidies
  <2> QED BY <2>3, <2>4, <2>5, <2>7 DEF FileInv
<1> QED BY <1>1, <1>2

LEMMA ReadVersionKeepsFileInv ==
    ASSUME ProcTypes, FileInv, NEW p \in Procs, ReadVersion(p)
    PROVE  FileInv'
<1>1. CASE Fail(p)
  BY <1>1, FailKeepsFileInv DEF ReadVersion
<1>2. CASE ~Fail(p)
  <2> DEFINE l == IF cmd[p] \in Writers THEN "wal" ELSE "prepare"
  <2>1. /\ pc[p] = "open"
        /\ UNCHANGED <<journal, disk, wal, cmd, walOn, incident>>
        /\ pc' = [pc EXCEPT ![p] = l]
        /\ version' = [version EXCEPT ![p] = Contents # "blank"]
        /\ lock' = [lock EXCEPT ![p] = IF journal = "wal" THEN "shared" ELSE "none"]
    BY <1>2 DEF ReadVersion, Goto, SetLock, fileVars, history
  <2>2. Contents' = Contents
    BY <2>1, ContentsKept
  <2>3. FileTypes'
    BY <2>1 DEF FileInv, FileTypes
  <2>4. NotBlank'
    BY <2>1, <2>2 DEF FileInv, NotBlank, ProcTypes, Opened
  <2>5. cmd[p] \in Writers \/ cmd[p] \in Readers
    BY <2>1 DEF FileInv, WalIsOn, ProcTypes
  <2>6. WalIsOn'
    BY <2>1, <2>5 DEF FileInv, WalIsOn, ProcTypes, Opened
  <2>7. \A q \in Procs : Tidies(q) => Tidies(q)'
    BY <2>1 DEF Tidies, ProcTypes
  <2>8. WriterTidies'
    BY <2>1, <2>2, <2>7 DEF FileInv, WriterTidies
  <2> QED BY <2>3, <2>4, <2>6, <2>8 DEF FileInv
<1> QED BY <1>1, <1>2

LEMMA PrepareKeepsFileInv ==
    ASSUME ProcTypes, FileInv, NEW p \in Procs, Prepare(p)
    PROVE  FileInv'
<1>1. CASE Fail(p)
  BY <1>1, FailKeepsFileInv DEF Prepare
<1>2. CASE ~Fail(p)
  <2> DEFINE l == AfterOpen(cmd[p])
  <2>1. /\ pc[p] = "prepare" /\ version[p]
        /\ UNCHANGED <<journal, disk, wal, cmd, walOn, version, incident>>
        /\ pc' = [pc EXCEPT ![p] = l]
    BY <1>2 DEF Prepare, Goto, fileVars, history
  <2>9. lock' = lock \/ (lock[p] = "none" /\ lock' = [lock EXCEPT ![p] = "shared"])
    BY <1>2 DEF Prepare, SetLock
  <2>2. Contents' = Contents
    BY <2>1, ContentsKept
  <2>3. l \in {"rekey", "close", "purge"}
    BY DEF AfterOpen
  <2> HIDE DEF l
  <2>4. FileTypes'
    BY <2>1 DEF FileInv, FileTypes
  <2>5. NotBlank'
    BY <2>1, <2>2, <2>3 DEF FileInv, NotBlank, ProcTypes, Opened
  <2>6. WalIsOn'
    BY <2>1, <2>3, <2>9 DEF FileInv, WalIsOn, ProcTypes, Opened
  <2>7. \A q \in Procs : Tidies(q) => Tidies(q)'
    BY <2>1, <2>9 DEF Tidies, ProcTypes
  <2>8. WriterTidies'
    BY <2>1, <2>2, <2>7 DEF FileInv, WriterTidies
  <2> QED BY <2>4, <2>5, <2>6, <2>8 DEF FileInv
<1> QED BY <1>1, <1>2

LEMMA CloseKeepsFileInv ==
    ASSUME ProcTypes, FileInv, NEW p \in Procs, Close(p)
    PROVE  FileInv'
<1>1. CASE Vanish(p)
  BY <1>1, VanishKeepsFileInv
<1>2. CASE ~Vanish(p)
  <2>1. /\ walOn[p]
        /\ \A q \in Procs \ {p} : lock[q] \notin {"shared", "exclusive"}
        /\ journal' = "delete" /\ disk' = Contents /\ wal' = <<>>
        /\ incident' = (incident /\ Contents # "linked")
        /\ pc' = [pc EXCEPT ![p] = "idle"]
        /\ lock' = [lock EXCEPT ![p] = "none"]
        /\ walOn' = [walOn EXCEPT ![p] = FALSE]
        /\ cmd' = [cmd EXCEPT ![p] = "create"]
        /\ version' = [version EXCEPT ![p] = FALSE]
        /\ pc[p] = "close"
    BY <1>2 DEF Close, Gone, Goto, SetLock, OthersHold
  <2>2. Contents' = Contents
    BY <2>1, ContentsKept
  <2>3. Contents \in {"blank", "linked", "unlinked"}
    BY ContentsType DEF FileInv
  <2>4. FileTypes'
    <3>1. wal' \in Seq({"linked", "unlinked"}) /\ Len(wal') = 0
      BY <2>1
    <3>2. incident' \in BOOLEAN
      BY <2>1, <3>1 DEF FileInv, FileTypes
    <3> QED BY <2>1, <2>3, <3>1, <3>2, MaxWalAssumption DEF FileTypes
  <2>5. NotBlank'
    BY <2>1, <2>2 DEF FileInv, NotBlank, ProcTypes, Opened
  <2>6. \A q \in Procs \ {p} : lock[q] = "none" /\ ~walOn[q] /\ ~Tidies(q)
    BY <2>1 DEF FileInv, WalIsOn, Tidies, ProcTypes
  <2>7. WalIsOn'
    BY <2>1, <2>6 DEF FileInv, WalIsOn, ProcTypes, Opened
  <2>8. Contents = "linked" \/ incident
    <3>1. ~Tidies(p) /\ journal = "wal"
      BY <2>1 DEF Tidies, FileInv, WalIsOn
    <3> QED BY <2>6, <3>1 DEF FileInv, WriterTidies
  <2>9. WriterTidies'
    BY <2>1, <2>2, <2>8 DEF WriterTidies
  <2> QED BY <2>4, <2>5, <2>7, <2>9 DEF FileInv
<1> QED BY <1>1, <1>2

\* A mount or a run_compact() purges, and a session ends with a purge.
LEMMA PurgeKeepsFileInv ==
    ASSUME ProcTypes, FileInv, NEW p \in Procs, PurgeAll(p) \/ Destroy(p)
    PROVE  FileInv'
<1>1. CASE PurgeAll(p)
  <2> DEFINE l == IF cmd[p] = "compact" THEN "vacuum" ELSE "fuse"
  <2>1. pc[p] = "purge" /\ l \in Opened /\ l \notin {"serve", "destroy", "idle", "open",
                                                     "wal", "prepare", "schema"}
    BY <1>1 DEF PurgeAll, Opened
  <2>2. CASE Fail(p)
    BY <2>1, <2>2, FailKeepsFileInv
  <2>3. CASE Vanish(p)
    BY <2>3, VanishKeepsFileInv
  <2>4. CASE Goto(p, l) /\ UNCHANGED <<fileVars, cmd, lock, walOn, version, history>>
    BY <2>1, <2>4, MoveKeepsFileInv DEF history, Opened
  <2>5. CASE /\ CommitWal(p, "linked") /\ Goto(p, l)
             /\ UNCHANGED <<journal, cmd, walOn, version, incident>>
    BY <2>1, <2>5, CommitKeepsFileInv DEF Opened
  <2> QED BY <1>1, <2>2, <2>3, <2>4, <2>5 DEF PurgeAll
<1>2. CASE Destroy(p)
  <2>1. /\ pc[p] = "destroy"
        /\ pc' = [pc EXCEPT ![p] = "close"]
        /\ UNCHANGED <<cmd, walOn, version>>
        /\ Goto(p, "close")
    BY <1>2 DEF Destroy, Goto
  <2>2. CASE CommitWal(p, "linked") /\ UNCHANGED <<journal, incident>>
    BY <2>1, <2>2, CommitKeepsFileInv DEF Opened
  <2>3. CASE /\ UNCHANGED <<journal, disk, wal, lock>>
             /\ (Contents = "linked" /\ incident' = incident) \/ incident' = TRUE
    <3>1. Contents' = Contents
      BY <2>3, ContentsKept
    <3>2. FileTypes'
      BY <2>1, <2>3 DEF FileInv, FileTypes
    <3>3. NotBlank'
      BY <2>1, <2>3, <3>1 DEF FileInv, NotBlank, ProcTypes, Opened
    <3>4. WalIsOn'
      BY <2>1, <2>3 DEF FileInv, WalIsOn, ProcTypes, Opened
    <3>5. WriterTidies'
      BY <2>1, <2>3, <3>1 DEF FileInv, WriterTidies
    <3> QED BY <3>2, <3>3, <3>4, <3>5 DEF FileInv
  <2> QED BY <1>2, <2>2, <2>3 DEF Destroy, fileVars, history
<1> QED BY <1>1, <1>2

LEMMA BeginKeepsFileInv ==
    ASSUME ProcTypes, FileInv, NEW p \in Procs, NEW c \in Commands, Begin(p, c)
    PROVE  FileInv'
<1> DEFINE l == IF c = "create" THEN "create" ELSE "open"
<1>1. /\ pc[p] = "idle" /\ ((journal = "none") <=> (c = "create"))
      /\ pc' = [pc EXCEPT ![p] = l]
      /\ cmd' = [cmd EXCEPT ![p] = c]
      /\ UNCHANGED <<journal, disk, wal, lock, walOn, version, incident>>
  BY DEF Begin, Goto, fileVars
<1>2. Contents' = Contents
  BY <1>1, ContentsKept
<1>3. FileTypes'
  BY <1>1 DEF FileInv, FileTypes
<1>4. NotBlank'
  BY <1>1, <1>2 DEF FileInv, NotBlank, ProcTypes, Opened
<1>5. WalIsOn'
  BY <1>1 DEF FileInv, WalIsOn, ProcTypes, Opened
<1>6. \A q \in Procs : Tidies(q) => Tidies(q)'
  BY <1>1 DEF Tidies, ProcTypes
<1>7. WriterTidies'
  BY <1>1, <1>2, <1>6 DEF FileInv, WriterTidies
<1> QED BY <1>3, <1>4, <1>5, <1>7 DEF FileInv

LEMMA SyncKeepsFileInv ==
    ASSUME ProcTypes, FileInv, NEW p \in Procs, Sync(p)
    PROVE  FileInv'
<1>1. /\ disk' = Contents /\ wal' = <<>>
      /\ UNCHANGED <<journal, pc, cmd, lock, walOn, version, incident>>
  BY DEF Sync, procVars
<1>2. Contents' = Contents
  BY <1>1, ContentsKept
<1>3. FileTypes'
  <2>1. wal' \in Seq({"linked", "unlinked"}) /\ Len(wal') = 0
    BY <1>1
  <2>2. Contents \in {"blank", "linked", "unlinked"}
    BY ContentsType DEF FileInv
  <2> QED BY <1>1, <2>1, <2>2, MaxWalAssumption DEF FileInv, FileTypes
<1>4. NotBlank' /\ WalIsOn' /\ WriterTidies'
  BY <1>1, <1>2 DEF FileInv, NotBlank, WalIsOn, WriterTidies, Tidies
<1> QED BY <1>3, <1>4 DEF FileInv

LEMMA PowerFailureKeepsFileInv ==
    ASSUME ProcTypes, FileInv, PowerFailure
    PROVE  FileInv'
<1>1. PICK k \in 0..Len(wal) : wal' = SubSeq(wal, 1, k)
  BY DEF PowerFailure
<1>2. /\ \A p \in Procs : pc'[p] = "idle" /\ lock'[p] = "none" /\ ~walOn'[p]
      /\ incident' = (incident \/ journal = "wal")
      /\ UNCHANGED <<journal, disk>>
  BY DEF PowerFailure
<1>3. wal' \in Seq({"linked", "unlinked"}) /\ Len(wal') <= Len(wal)
  BY <1>1 DEF FileInv, FileTypes
<1>4. FileTypes'
  BY <1>2, <1>3, MaxWalAssumption DEF FileInv, FileTypes
<1>5. NotBlank' /\ WalIsOn'
  BY <1>2 DEF NotBlank, WalIsOn, Opened
<1>6. ASSUME journal # "wal"
      PROVE  wal = <<>> /\ wal' = <<>> /\ ~\E q \in Procs : Tidies(q)
  <2>1. wal = <<>> /\ ~\E q \in Procs : Tidies(q)
    BY <1>6 DEF FileInv, WriterTidies, WalIsOn, Tidies
  <2>2. Len(wal') = 0
    BY <1>3, <2>1
  <2> QED BY <1>3, <2>1, <2>2
<1>7. WriterTidies'
  <2>1. CASE journal = "wal"
    BY <1>2, <2>1 DEF WriterTidies
  <2>2. CASE journal # "wal"
    <3>1. wal' = <<>> /\ Contents' = Contents
      BY <1>2, <1>6, <2>2, ContentsKept
    <3>2. ~incident' /\ journal' # "none" => Contents' = "linked"
      BY <1>2, <1>6, <2>2, <3>1 DEF FileInv, WriterTidies
    <3> QED BY <1>2, <2>2, <3>1, <3>2 DEF WriterTidies
  <2> QED BY <2>1, <2>2
<1> QED BY <1>4, <1>5, <1>7 DEF FileInv

LEMMA FileInvStep ==
    ASSUME ProcTypes, FileInv, [Next]_vars
    PROVE  FileInv'
<1>1. ASSUME NEW p \in Procs, NEW c \in Commands, Begin(p, c)
      PROVE  FileInv'
  BY <1>1, BeginKeepsFileInv
<1>2. ASSUME NEW p \in Procs, CreateSchema(p)
      PROVE  FileInv'
  <2>1. CASE Vanish(p)
    BY <2>1, VanishKeepsFileInv
  <2>2. CASE ~Vanish(p)
    BY <1>2, <2>2, CommitKeepsFileInv DEF CreateSchema
  <2> QED BY <2>1, <2>2
<1>3. ASSUME NEW p \in Procs, Create(p) \/ ReadVersion(p) \/ EnableWal(p) \/ Prepare(p)
      PROVE  FileInv'
  BY <1>3, CreateKeepsFileInv, ReadVersionKeepsFileInv, EnableWalKeepsFileInv,
     PrepareKeepsFileInv
<1>4. ASSUME NEW p \in Procs, PurgeAll(p) \/ Destroy(p) \/ Close(p)
      PROVE  FileInv'
  BY <1>4, PurgeKeepsFileInv, CloseKeepsFileInv
<1>5. ASSUME NEW p \in Procs, Rewrite(p)
      PROVE  FileInv'
  <2>1. pc[p] \in {"vacuum", "rekey"}
    BY <1>5 DEF Rewrite
  <2>2. CASE Fail(p)
    BY <2>1, <2>2, FailKeepsFileInv
  <2>3. CASE ~Fail(p)
    <3>1. Contents \in {"linked", "unlinked"}
      BY <2>1, ContentsType DEF FileInv, NotBlank, Opened
    <3>2. pc[p] \in Opened /\ pc[p] \notin {"schema", "serve", "destroy"}
      BY <2>1 DEF Opened
    <3> DEFINE c == Contents
    <3>3. /\ CommitWal(p, c) /\ Goto(p, "close")
          /\ UNCHANGED <<journal, cmd, walOn, version>> /\ incident' = incident
      BY <1>5, <2>3 DEF Rewrite
    <3> QED BY <3>1, <3>2, <3>3, CommitKeepsFileInv
  <2> QED BY <2>2, <2>3
<1>6. ASSUME NEW p \in Procs, MountFuse(p) \/ Report(p) \/ EndSession(p)
      PROVE  FileInv'
  <2>1. CASE Fail(p) /\ pc[p] = "fuse"
    BY <2>1, FailKeepsFileInv
  <2>2. CASE /\ Goto(p, "report") /\ pc[p] = "fuse"
             /\ UNCHANGED <<fileVars, cmd, lock, walOn, version, history>>
    BY <2>2, MoveKeepsFileInv DEF history, Opened
  <2>3. CASE /\ Goto(p, "serve") /\ pc[p] \in {"fuse", "report"}
             /\ UNCHANGED <<fileVars, cmd, lock, walOn, version, history>>
    BY <2>3, MoveKeepsFileInv DEF history, Opened
  <2>4. CASE /\ Goto(p, "destroy") /\ pc[p] = "serve"
             /\ UNCHANGED <<fileVars, cmd, lock, walOn, version, history>>
    BY <2>4, MoveKeepsFileInv DEF history, Opened
  <2> QED BY <1>6, <2>1, <2>2, <2>3, <2>4 DEF MountFuse, Report, EndSession, Serve
<1>7. ASSUME NEW p \in Procs, Write(p)
      PROVE  FileInv'
  <2>1. Goto(p, "serve") /\ pc[p] = "serve"
    BY <1>7 DEF Write, Goto, ProcTypes
  <2>2. PICK c \in {"linked", "unlinked"} : CommitWal(p, c)
    BY <1>7 DEF Write
  <2>3. UNCHANGED <<journal, cmd, walOn, version>> /\ incident' = incident
    BY <1>7 DEF Write
  <2> QED BY <2>1, <2>2, <2>3, CommitKeepsFileInv DEF Opened
<1>8. ASSUME NEW p \in Procs, Sync(p)
      PROVE  FileInv'
  BY <1>8, SyncKeepsFileInv
<1>9. ASSUME NEW p \in Procs, Crash(p)
      PROVE  FileInv'
  BY <1>9, VanishKeepsFileInv DEF Crash
<1>10. CASE PowerFailure
  BY <1>10, PowerFailureKeepsFileInv
<1>11. CASE UNCHANGED <<fileVars, procVars, incident>>
  <2>1. UNCHANGED <<journal, disk, wal, pc, cmd, lock, walOn, version, incident>>
    BY <1>11 DEF fileVars, procVars
  <2>2. Contents' = Contents
    BY <2>1, ContentsKept
  <2> QED BY <2>1, <2>2 DEF FileInv, FileTypes, NotBlank, WalIsOn, WriterTidies, Tidies
<1>12. ASSUME NEW p \in Procs, Parent(p) \/ ParentKilled(p)
       PROVE  UNCHANGED <<fileVars, procVars, incident>>
  BY <1>12 DEF Parent, ParentCloses, ParentReads, ParentKilled, history
<1>13. UNCHANGED vars => UNCHANGED <<fileVars, procVars, incident>>
  BY DEF vars, history
<1> QED
  BY <1>1, <1>2, <1>3, <1>4, <1>5, <1>6, <1>7, <1>8, <1>9, <1>10, <1>11, <1>12, <1>13
  DEF Next, Advance

-----------------------------------------------------------------------------
(* What was declared durable *)

\* What is in the file, and every commit in the log, is either what was last declared
\* durable or was committed since; so a power failure may stop anywhere.
DurableInv ==
    /\ survivors \subseteq {"blank", "linked", "unlinked"}
    /\ disk \in survivors
    /\ \A k \in 1..Len(wal) : wal[k] \in survivors

\* A commit is one more that a power failure may leave, in the log or in the file.
LEMMA CommitKeepsDurableInv ==
    ASSUME FileTypes, DurableInv, NEW p \in Procs, NEW c \in {"blank", "linked", "unlinked"},
           CommitWal(p, c)
    PROVE  DurableInv'
<1>1. survivors' = survivors \cup {c}
  BY DEF CommitWal
<1>2. CASE Len(wal) < MaxWal
  <2>1. wal' = Append(wal, c) /\ disk' = disk
    BY <1>2 DEF CommitWal
  <2>2. \A k \in 1..Len(wal') : wal'[k] = c \/ (k \in 1..Len(wal) /\ wal'[k] = wal[k])
    BY <2>1 DEF FileTypes
  <2> QED BY <1>1, <2>1, <2>2 DEF DurableInv
<1>3. CASE ~(Len(wal) < MaxWal)
  <2>1. wal' = <<>> /\ disk' = c
    BY <1>3 DEF CommitWal
  <2> QED BY <1>1, <2>1 DEF DurableInv
<1> QED BY <1>2, <1>3

\* fsync and the end of the last writer write everything to the file.
LEMMA CheckpointKeepsDurableInv ==
    ASSUME FileTypes, DurableInv, wal' = <<>>, disk' = Contents, survivors' = {Contents}
    PROVE  DurableInv'
BY ContentsType DEF DurableInv

LEMMA UnchangedKeepsDurableInv ==
    ASSUME DurableInv, UNCHANGED <<disk, wal, survivors>>
    PROVE  DurableInv'
BY DEF DurableInv

LEMMA PowerFailureKeepsDurableInv ==
    ASSUME FileTypes, DurableInv, PowerFailure
    PROVE  DurableInv'
<1>1. PICK k \in 0..Len(wal) : wal' = SubSeq(wal, 1, k)
  BY DEF PowerFailure
<1>2. \A i \in 1..Len(wal') : i \in 1..Len(wal) /\ wal'[i] = wal[i]
  BY <1>1 DEF FileTypes
<1>3. UNCHANGED <<disk, survivors>>
  BY DEF PowerFailure
<1> QED BY <1>2, <1>3 DEF DurableInv

LEMMA DurableInvInit == Init => DurableInv
BY DEF Init, DurableInv

LEMMA DurableInvStep ==
    ASSUME FileInv, DurableInv, [Next]_vars
    PROVE  DurableInv'
<1> USE DEF FileInv
<1>1. \A p : Vanish(p) \/ Fail(p) => UNCHANGED <<disk, wal, survivors>>
  BY DEF Vanish, Fail, fileVars, history
<1>2. ASSUME NEW p \in Procs, NEW c \in Commands, Begin(p, c)
      PROVE  UNCHANGED <<disk, wal, survivors>>
  BY <1>2 DEF Begin, fileVars
<1>3. ASSUME NEW p \in Procs, Create(p) \/ ReadVersion(p) \/ EnableWal(p) \/ Prepare(p)
                                \/ MountFuse(p) \/ Report(p)
      PROVE  UNCHANGED <<disk, wal, survivors>>
  BY <1>1, <1>3 DEF Create, ReadVersion, EnableWal, Prepare, MountFuse, Report, fileVars,
                    history
<1>4. ASSUME NEW p \in Procs, Parent(p) \/ EndSession(p) \/ Crash(p) \/ ParentKilled(p)
      PROVE  UNCHANGED <<disk, wal, survivors>>
  BY <1>1, <1>4 DEF Parent, ParentCloses, ParentReads, EndSession, Crash, ParentKilled,
                    fileVars, history
<1>5. ASSUME NEW p \in Procs, CreateSchema(p) \/ PurgeAll(p) \/ Destroy(p)
      PROVE  CommitWal(p, "linked") \/ UNCHANGED <<disk, wal, survivors>>
  BY <1>1, <1>5 DEF CreateSchema, PurgeAll, Destroy, fileVars, history
<1>6. ASSUME NEW p \in Procs, Write(p)
      PROVE  \E c \in {"linked", "unlinked"} : CommitWal(p, c)
  BY <1>6 DEF Write
<1>7. ASSUME NEW p \in Procs, Rewrite(p)
      PROVE  CommitWal(p, Contents) \/ UNCHANGED <<disk, wal, survivors>>
  BY <1>1, <1>7 DEF Rewrite
<1>8. ASSUME NEW p \in Procs, Close(p) \/ Sync(p)
      PROVE  \/ wal' = <<>> /\ disk' = Contents /\ survivors' = {Contents}
             \/ UNCHANGED <<disk, wal, survivors>>
  BY <1>1, <1>8 DEF Close, Sync
<1>9. UNCHANGED vars => UNCHANGED <<disk, wal, survivors>>
  BY DEF vars, fileVars, history
<1>10. ASSUME NEW p \in Procs, NEW c, CommitWal(p, c), c \in {"linked", "unlinked"} \/ c = Contents
       PROVE  DurableInv'
  <2>1. c \in {"blank", "linked", "unlinked"}
    BY <1>10, ContentsType
  <2> QED BY <1>10, <2>1, CommitKeepsDurableInv
<1>11. (wal' = <<>> /\ disk' = Contents /\ survivors' = {Contents}) => DurableInv'
  BY CheckpointKeepsDurableInv
<1>12. UNCHANGED <<disk, wal, survivors>> => DurableInv'
  BY UnchangedKeepsDurableInv
<1>13. ASSUME NEW p \in Procs, Rewrite(p)
       PROVE  DurableInv'
  BY <1>7, <1>10, <1>12, <1>13
<1>14. ASSUME NEW p \in Procs, Advance(p)
       PROVE  DurableInv'
  BY <1>3, <1>5, <1>8, <1>10, <1>11, <1>12, <1>13, <1>14 DEF Advance
<1>15. ASSUME NEW p \in Procs, Write(p) \/ Sync(p) \/ Parent(p) \/ EndSession(p) \/ Crash(p)
                                 \/ ParentKilled(p)
       PROVE  DurableInv'
  BY <1>4, <1>6, <1>8, <1>10, <1>11, <1>12, <1>15
<1>16. CASE PowerFailure
  BY <1>16, PowerFailureKeepsDurableInv
<1> QED
  BY <1>2, <1>9, <1>12, <1>14, <1>15, <1>16 DEF Next

-----------------------------------------------------------------------------

(* Who holds the exclusive lock *)

\* Unless there was an incident, each process that has enabled WAL got the exclusive
\* lock by changing the journal mode: none has found the database in WAL mode.
OwnerInv ==
    /\ \A p, q \in Procs : p # q /\ lock[p] = "exclusive" => lock[q] = "none"
    /\ \A p \in Procs : pc[p] \in {"create", "open", "wal"} => ~walOn[p]
    /\ \A p \in Procs : ~incident /\ walOn[p] => lock[p] = "exclusive"
    /\ \A p \in Procs : ~incident /\ pc[p] = "wal" => lock[p] # "shared"
    /\ \A p \in Procs : pc[p] = "rekey" => cmd[p] = "rekey"

Later == PCs \ {"create", "open", "wal"}

\* p goes on, and its lock is left alone or it becomes the only one with a lock.
Proceeds(p) ==
    /\ \E l \in Later :
          pc' = [pc EXCEPT ![p] = l] /\ (l = "rekey" => cmd[p] = "rekey")
    /\ cmd' = cmd
    /\ \/ lock' = lock
       \/ /\ lock' = [lock EXCEPT ![p] = "exclusive"]
          /\ ~OthersHold(p, {"shared", "exclusive"})
    /\ walOn' = walOn
    /\ (incident' = incident \/ incident')

LEMMA ProceedsKeepsOwnerInv ==
    ASSUME ProcTypes, OwnerInv, NEW p \in Procs, Proceeds(p)
    PROVE  OwnerInv'
<1>1. PICK l \in Later : pc' = [pc EXCEPT ![p] = l] /\ (l = "rekey" => cmd[p] = "rekey")
  BY DEF Proceeds
<1>2. cmd' = cmd /\ walOn' = walOn /\ (incident' = incident \/ incident')
  BY DEF Proceeds
<1>3. CASE lock' = lock
  BY <1>1, <1>2, <1>3 DEF ProcTypes, OwnerInv, Later
<1>4. CASE /\ lock' = [lock EXCEPT ![p] = "exclusive"]
           /\ ~OthersHold(p, {"shared", "exclusive"})
  <2>1. \A q \in Procs \ {p} : lock[q] = "none"
    BY <1>4 DEF OthersHold, ProcTypes
  <2> QED BY <1>1, <1>2, <1>4, <2>1 DEF ProcTypes, OwnerInv, Later
<1> QED BY <1>3, <1>4 DEF Proceeds

\* A process that ends sets incident only if it had enabled WAL, and clears it only
\* if nobody else holds a lock.
LEMMA GoneKeepsOwnerInv ==
    ASSUME ProcTypes, OwnerInv, FileInv, NEW p \in Procs, Vanish(p) \/ Close(p)
    PROVE  OwnerInv'
<1>1. /\ pc' = [pc EXCEPT ![p] = "idle"]
      /\ lock' = [lock EXCEPT ![p] = "none"]
      /\ walOn' = [walOn EXCEPT ![p] = FALSE]
      /\ cmd' = [cmd EXCEPT ![p] = "create"]
  BY DEF Vanish, Close, Gone, Goto, SetLock
<1>2. (~incident' => ~incident) \/ ~OthersHold(p, {"shared", "exclusive"})
  BY DEF Vanish, Close
<1>3. CASE ~incident' => ~incident
  BY <1>1, <1>3 DEF ProcTypes, OwnerInv
<1>4. CASE ~OthersHold(p, {"shared", "exclusive"})
  <2>1. \A q \in Procs \ {p} : lock[q] = "none" /\ ~walOn[q]
    BY <1>4 DEF OthersHold, ProcTypes, FileInv, WalIsOn
  <2> QED BY <1>1, <2>1 DEF ProcTypes, OwnerInv
<1> QED BY <1>2, <1>3, <1>4

LEMMA ReadVersionKeepsOwnerInv ==
    ASSUME ProcTypes, OwnerInv, FileInv, NEW p \in Procs, ReadVersion(p), ~Fail(p)
    PROVE  OwnerInv'
<1>1. /\ pc[p] = "open" /\ ~OthersHold(p, {"exclusive"})
      /\ \E l \in {"wal", "prepare"} : pc' = [pc EXCEPT ![p] = l]
      /\ UNCHANGED <<cmd, walOn, incident>>
  BY DEF ReadVersion, Goto, history
<1>2. /\ journal = "wal" => lock' = [lock EXCEPT ![p] = "shared"]
      /\ journal # "wal" => lock' = [lock EXCEPT ![p] = "none"]
  BY DEF ReadVersion, SetLock
<1>3. ~walOn[p] /\ \A q \in Procs \ {p} : lock[q] # "exclusive"
  BY <1>1 DEF OthersHold, OwnerInv
<1>4. journal = "wal" => incident
  BY <1>3 DEF FileInv, WriterTidies, OwnerInv
<1>5. CASE journal = "wal"
  BY <1>1, <1>2, <1>3, <1>4, <1>5 DEF ProcTypes, OwnerInv
<1>6. CASE journal # "wal"
  BY <1>1, <1>2, <1>3, <1>6 DEF ProcTypes, OwnerInv
<1> QED BY <1>5, <1>6

LEMMA EnableWalKeepsOwnerInv ==
    ASSUME ProcTypes, OwnerInv, NEW p \in Procs,
           (EnableWal(p) /\ ~Fail(p)) \/ (Create(p) /\ ~Vanish(p))
    PROVE  OwnerInv'
<1>1. /\ \E l \in {"prepare", "schema"} : pc' = [pc EXCEPT ![p] = l]
      /\ walOn' = [walOn EXCEPT ![p] = TRUE]
      /\ cmd' = cmd /\ incident' = incident
  BY DEF EnableWal, Create, Goto, history
<1>2. CASE lock[p] = "shared" /\ pc[p] = "wal" /\ lock' = lock
  <2>1. incident
    BY <1>2 DEF OwnerInv
  <2> QED BY <1>1, <1>2, <2>1 DEF ProcTypes, OwnerInv
<1>3. CASE /\ lock' = [lock EXCEPT ![p] = "exclusive"]
           /\ ~OthersHold(p, {"shared", "exclusive"})
  <2>1. \A q \in Procs \ {p} : lock[q] = "none"
    BY <1>3 DEF OthersHold, ProcTypes
  <2> QED BY <1>1, <1>3, <2>1 DEF ProcTypes, OwnerInv
<1> QED BY <1>2, <1>3 DEF EnableWal, Create, SetLock

LEMMA PrepareKeepsOwnerInv ==
    ASSUME ProcTypes, OwnerInv, FileInv, NEW p \in Procs, Prepare(p), ~Fail(p)
    PROVE  OwnerInv'
<1>1. /\ \E l \in Later : pc' = [pc EXCEPT ![p] = l] /\ (l = "rekey" => cmd[p] = "rekey")
      /\ UNCHANGED <<cmd, walOn, incident>>
  BY DEF Prepare, Goto, AfterOpen, Later, PCs, Opened, history
<1>2. CASE lock' = lock
  BY <1>1, <1>2, ProceedsKeepsOwnerInv DEF Proceeds
<1>3. CASE /\ lock[p] = "none" /\ ~OthersHold(p, {"exclusive"})
           /\ lock' = [lock EXCEPT ![p] = "shared"]
  <2>1. ~walOn[p] /\ \A q \in Procs \ {p} : lock[q] # "exclusive"
    BY <1>3 DEF OthersHold, FileInv, WalIsOn
  <2> QED BY <1>1, <1>3, <2>1 DEF ProcTypes, OwnerInv, Later
<1> QED BY <1>2, <1>3 DEF Prepare, SetLock

LEMMA OwnerInvInit == Init => OwnerInv
BY DEF Init, OwnerInv

LEMMA OwnerInvStep ==
    ASSUME ProcTypes, FileInv, OwnerInv, [Next]_vars
    PROVE  OwnerInv'
<1>1. ASSUME NEW p \in Procs, NEW c \in Commands, Begin(p, c)
      PROVE  OwnerInv'
  <2>1. /\ pc[p] = "idle" /\ \E l \in {"create", "open"} : pc' = [pc EXCEPT ![p] = l]
        /\ UNCHANGED <<lock, walOn, incident>>
        /\ cmd' = [cmd EXCEPT ![p] = c]
    BY <1>1 DEF Begin, Goto
  <2>2. ~walOn[p]
    BY <2>1 DEF FileInv, WalIsOn
  <2> QED BY <2>1, <2>2 DEF ProcTypes, OwnerInv
<1>2. ASSUME NEW p \in Procs, Vanish(p) \/ Close(p) \/ Crash(p)
      PROVE  OwnerInv'
  BY <1>2, GoneKeepsOwnerInv DEF Crash
<1>3. ASSUME NEW p \in Procs, Fail(p)
      PROVE  OwnerInv'
  <2>1. /\ pc' = [pc EXCEPT ![p] = "close"] /\ "close" \in Later
        /\ UNCHANGED <<cmd, lock, walOn, incident>>
    BY <1>3 DEF Fail, Goto, Later, PCs, history
  <2>2. Proceeds(p)
    BY <2>1 DEF Proceeds
  <2> QED BY <2>2, ProceedsKeepsOwnerInv
<1>4. ASSUME NEW p \in Procs, ReadVersion(p) \/ EnableWal(p) \/ Create(p) \/ Prepare(p)
      PROVE  OwnerInv'
  BY <1>2, <1>3, <1>4, ReadVersionKeepsOwnerInv, EnableWalKeepsOwnerInv,
     PrepareKeepsOwnerInv
<1>5. ASSUME NEW p \in Procs, NEW c, NEW l \in Later \ {"rekey"},
             CommitWal(p, c), Goto(p, l), UNCHANGED <<cmd, walOn, incident>>
      PROVE  OwnerInv'
  <2>1. Proceeds(p)
    BY <1>5 DEF CommitWal, MayWrite, Proceeds, Goto, SetLock
  <2> QED BY <2>1, ProceedsKeepsOwnerInv
<1>6. ASSUME NEW p \in Procs, NEW l \in Later \ {"rekey"},
             Goto(p, l), UNCHANGED <<cmd, lock, walOn>>, incident' = incident \/ incident'
      PROVE  OwnerInv'
  BY <1>6, ProceedsKeepsOwnerInv DEF Proceeds, Goto
<1>7. ASSUME NEW p \in Procs, CreateSchema(p) \/ Rewrite(p)
      PROVE  OwnerInv'
  <2>1. "close" \in Later \ {"rekey"}
    BY DEF Later, PCs
  <2> QED BY <1>2, <1>3, <1>5, <1>7, <2>1 DEF CreateSchema, Rewrite
<1>8. ASSUME NEW p \in Procs, PurgeAll(p)
      PROVE  OwnerInv'
  <2> DEFINE l == IF cmd[p] = "compact" THEN "vacuum" ELSE "fuse"
  <2>1. l \in Later \ {"rekey"}
    BY DEF Later, PCs, Opened
  <2>2. \/ Vanish(p) \/ Fail(p)
        \/ Goto(p, l) /\ UNCHANGED <<cmd, lock, walOn>> /\ incident' = incident
        \/ Goto(p, l) /\ CommitWal(p, "linked") /\ UNCHANGED <<cmd, walOn, incident>>
    BY <1>8 DEF PurgeAll, history
  <2> HIDE DEF l
  <2> QED BY <1>2, <1>3, <1>5, <1>6, <2>1, <2>2
<1>9. ASSUME NEW p \in Procs, Destroy(p)
      PROVE  OwnerInv'
  <2>1. "close" \in Later \ {"rekey"}
    BY DEF Later, PCs
  <2>2. /\ Goto(p, "close") /\ UNCHANGED <<cmd, walOn>>
        /\ \/ lock' = lock /\ (incident' = incident \/ incident')
           \/ CommitWal(p, "linked") /\ incident' = incident
    BY <1>9 DEF Destroy, history
  <2> QED BY <1>5, <1>6, <2>1, <2>2
<1>10. ASSUME NEW p \in Procs, MountFuse(p) \/ Report(p) \/ EndSession(p)
       PROVE  OwnerInv'
  <2>1. {"serve", "report", "destroy"} \subseteq Later \ {"rekey"}
    BY DEF Later, PCs, Opened
  <2>2. \/ Fail(p)
        \/ \E l \in {"serve", "report", "destroy"} :
              Goto(p, l) /\ UNCHANGED <<cmd, lock, walOn>> /\ incident' = incident
    BY <1>10 DEF MountFuse, Report, EndSession, Serve, history
  <2> QED BY <1>3, <1>6, <2>1, <2>2
<1>11. ASSUME NEW p \in Procs, Write(p)
       PROVE  OwnerInv'
  <2>1. Goto(p, "serve") /\ "serve" \in Later \ {"rekey"}
    BY <1>11 DEF Write, Goto, ProcTypes, Later, PCs, Opened
  <2>2. (\E c : CommitWal(p, c)) /\ UNCHANGED <<cmd, walOn, incident>>
    BY <1>11 DEF Write
  <2> QED BY <1>5, <2>1, <2>2
<1>12. ASSUME UNCHANGED <<pc, cmd, lock, walOn, incident>>
       PROVE  OwnerInv'
  BY <1>12 DEF OwnerInv
<1>13. ASSUME NEW p \in Procs, Parent(p) \/ ParentKilled(p) \/ Sync(p)
       PROVE  UNCHANGED <<pc, cmd, lock, walOn, incident>>
  BY <1>13 DEF Parent, ParentCloses, ParentReads, ParentKilled, Sync, procVars, history
<1>14. UNCHANGED vars => UNCHANGED <<pc, cmd, lock, walOn, incident>>
  BY DEF vars, procVars, history
<1>15. CASE PowerFailure
  BY <1>15 DEF PowerFailure, OwnerInv
<1> QED
  BY <1>1, <1>2, <1>4, <1>7, <1>8, <1>9, <1>10, <1>11, <1>12, <1>13, <1>14, <1>15
  DEF Next, Advance

-----------------------------------------------------------------------------

(* All of it *)

AllInv == LockInv /\ ReportInv /\ FileInv /\ DurableInv /\ OwnerInv

LEMMA AllInit == Init => AllInv
BY LockInvInit, ReportInvInit, FileInvInit, DurableInvInit, OwnerInvInit DEF AllInv

LEMMA AllStep == AllInv /\ [Next]_vars => AllInv'
<1> SUFFICES ASSUME LockInv, ReportInv, FileInv, DurableInv, OwnerInv, [Next]_vars
             PROVE  AllInv'
  BY DEF AllInv
<1>1. LockInv' /\ ReportInv'
  BY LockInvStep, ReportInvStep
<1>2. FileInv'
  BY FileInvStep DEF LockInv
<1>3. DurableInv'
  BY DurableInvStep
<1>4. OwnerInv'
  BY OwnerInvStep DEF LockInv
<1> QED BY <1>1, <1>2, <1>3, <1>4 DEF AllInv

\* Every variable has its type: what is committed is never blank, and the log stays
\* within its limit. (sqlfs.c:919, 1268)
THEOREM TypesAreKept == Spec => []TypeOK
<1>1. AllInv => TypeOK
  BY DEF AllInv, LockInv, ProcTypes, ReportInv, ReportTypes, FileInv, FileTypes, DurableInv,
         TypeOK
<1> QED BY <1>1, AllInit, AllStep, PTL DEF Spec

\* When a rekey begins, nobody else has the file system open, unless there was an
\* incident: the exclusive lock it relies on has been held since enable_wal().
\* (sqlfs.c:1268)
THEOREM RekeysAreAlone == Spec => []RekeyIsAlone
<1>1. AllInv => RekeyIsAlone
  <2> SUFFICES ASSUME AllInv, NEW p \in Procs, NEW q \in Procs, p # q, pc[p] = "rekey",
                      ~incident
               PROVE  ~IsOpen(q)
    BY DEF RekeyIsAlone
  <2>1. cmd[p] = "rekey" /\ pc[p] \in Opened
    BY DEF AllInv, OwnerInv, Opened
  <2>3. walOn[p]
    BY <2>1 DEF AllInv, FileInv, WalIsOn, Readers
  <2>2. lock[p] = "exclusive" => ~IsOpen(q)
    BY DEF AllInv, OwnerInv, LockInv, OpenIsLocked
  <2> QED BY <2>2, <2>3 DEF AllInv, OwnerInv
<1> QED BY <1>1, AllInit, AllStep, PTL DEF Spec

\* Once all have ended, and unless a writer was killed or something it did failed,
\* the database can be mounted read-only, whoever has used it, in whatever order,
\* at the same time or not. (sqlfs.c:945, 1255, sqlfuse.c:135, main.c:100)
THEOREM ReadOnlyCanFollow == Spec => []ReadyForReadOnly
<1>1. AllInv => ReadyForReadOnly
  <2> SUFFICES ASSUME FileInv, \A p \in Procs : pc[p] = "idle", journal # "none", ~incident
               PROVE  journal = "delete" /\ Contents = "linked"
    BY DEF AllInv, ReadyForReadOnly
  <2>1. ~\E q \in Procs : walOn[q]
    BY DEF FileInv, WalIsOn
  <2> QED BY <2>1 DEF FileInv, FileTypes, WriterTidies, Tidies
<1> QED BY <1>1, AllInit, AllStep, PTL DEF Spec

\* A power failure, which may cut the log anywhere, leaves what an fsync or the end of
\* the last writer has declared durable, or what was committed after it, whatever else
\* happened in between (sqlfs_sync(), disable_wal()).
THEOREM SyncedIsOnDisk == Spec => SyncedSurvives
<1>1. AllInv /\ [Next]_vars => [PowerFailure => Contents' \in survivors]_vars
  <2> SUFFICES ASSUME AllInv, AllInv', PowerFailure
               PROVE  Contents' \in survivors
    BY AllStep
  <2>1. wal' \in Seq({"linked", "unlinked"}) /\ DurableInv'
    BY DEF AllInv, FileInv, FileTypes
  <2>2. Contents' \in survivors'
    <3>1. CASE wal' = <<>>
      BY <2>1, <3>1 DEF DurableInv, Contents
    <3>2. CASE wal' # <<>>
      <4>1. Len(wal') \in 1..Len(wal')
        BY <2>1, <3>2
      <4> QED BY <2>1, <3>2, <4>1 DEF DurableInv, Contents
    <3> QED BY <3>1, <3>2
  <2>3. survivors' = survivors
    BY DEF PowerFailure
  <2> QED BY <2>2, <2>3
<1> QED BY <1>1, AllInit, AllStep, PTL DEF Spec, SyncedSurvives
=============================================================================
