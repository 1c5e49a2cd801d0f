------------------------------ MODULE SqlfsTx ------------------------------
(***************************************************************************)
(* The calls of Sqlfs one SQL statement at a time: savepoints, their       *)
(* nesting, statements that fail, the commit, and the death of the process *)
(* between any two of them. All savepoints have the name "tx". meta, rows  *)
(* and filedata are what the connection sees; what is in the database is   *)
(* Committed. SQLite is external: a statement has all of its effect or     *)
(* none, and only commits are kept.                                        *)
(***************************************************************************)
EXTENDS Sqlfs, Sequences

CONSTANT AutoRollback   \* may SQLite end the transaction when a statement fails?

ASSUME AutoRollbackAssumption == AutoRollback \in BOOLEAN

VARIABLES
    call,       \* what the current call is doing
    stack,      \* the open savepoints: the tables as they were
    todo,       \* the statements the call has still to run
    err,        \* the local variable err of the outermost call
    out         \* the inode number given back so far

txVars == <<call, stack, todo, err, out>>
allVars == <<vars, txVars>>

Tables == [meta |-> meta, rows |-> rows, data |-> filedata]
Committed == IF stack = <<>> THEN Tables ELSE stack[1]

SetTables(t) == meta' = t.meta /\ rows' = t.rows /\ filedata' = t.data

Busy == {"run", "unwind"}
Dead == {"commit_failed", "rollback_failed", "check_failed"}

-----------------------------------------------------------------------------
(* Statements *)

Links(i, k) == [op |-> "links", ino |-> i, add |-> k]
NewMeta(i, t) == [op |-> "newMeta", ino |-> i, type |-> t]
TouchMeta(i) == [op |-> "touchMeta", ino |-> i]
DelMeta(i) == [op |-> "delMeta", ino |-> i]
NewRow(r) == [op |-> "newRow", row |-> r]
DelRow(d, n) == [op |-> "delRow", dir |-> d, name |-> n]
DelRows(d) == [op |-> "delRows", dir |-> d]
Move(d, n, e, m) == [op |-> "move", dir |-> d, name |-> n, to |-> e, as |-> m]
Reparent(i, e) == [op |-> "reparent", ino |-> i, to |-> e]
Data(i, b) == [op |-> "data", ino |-> i, nonEmpty |-> b]

\* Not statements on the tables: a nested call begins and ends, it is refused,
\* a number is given back, the cursor of purge_all moves on.
Savepoint == [op |-> "savepoint"]
Release == [op |-> "release"]
Refusal(e) == [op |-> "refuse", err |-> e]
Out(i) == [op |-> "out", ino |-> i]
NextUnlinked(i) == [op |-> "next", after |-> i]

\* What a statement reports when SQLite runs it: a key that is taken, or a number
\* of changed rows that is not one.
StmtErr(s) ==
    CASE s.op \in {"links", "touchMeta"} ->
            IF s.ino \in DOMAIN meta THEN "OK" ELSE "ENOENT"
      [] s.op = "newRow" ->
            IF RowAt(s.row.dir, s.row.name) = {} THEN "OK" ELSE "EEXIST"
      [] s.op = "move" ->
            IF RowAt(s.dir, s.name) # {} /\ RowAt(s.to, s.as) = {}
            THEN "OK" ELSE "EIO"
      [] s.op = "reparent" -> IF RowAt(s.ino, "") = {} THEN "EIO" ELSE "OK"
      [] s.op = "refuse" -> s.err
      [] OTHER -> "OK"

\* The tables after the statement.
After(s) ==
    CASE s.op = "links" -> [Tables EXCEPT !.meta = AddLinks(meta, s.ino, s.add)]
      [] s.op = "newMeta" -> [Tables EXCEPT !.meta = InsertMeta(meta, s.ino, s.type)]
      [] s.op = "delMeta" -> [Tables EXCEPT !.meta = DeleteMeta(meta, {s.ino})]
      [] s.op = "newRow" -> [Tables EXCEPT !.rows = rows \cup {s.row}]
      [] s.op = "delRow" -> [Tables EXCEPT !.rows = rows \ RowAt(s.dir, s.name)]
      [] s.op = "delRows" -> [Tables EXCEPT !.rows = rows \ Entries(s.dir)]
      [] s.op = "move" ->
            [Tables EXCEPT !.rows = {IF r \in RowAt(s.dir, s.name)
                                     THEN [r EXCEPT !.dir = s.to, !.name = s.as]
                                     ELSE r : r \in rows}]
      [] s.op = "reparent" ->
            [Tables EXCEPT !.rows = {IF r \in RowAt(s.ino, "")
                                     THEN [r EXCEPT !.ino = s.to]
                                     ELSE r : r \in rows}]
      [] s.op = "data" ->
            [Tables EXCEPT !.data = IF s.nonEmpty THEN filedata \cup {s.ino}
                                    ELSE filedata \ {s.ino}]
      [] OTHER -> Tables

-----------------------------------------------------------------------------
(* What each call runs, after its reads *)

MkdirStmts(d, n, i) ==
    <<Links(d, 1), NewMeta(i, "dir"), NewRow(Row(d, n, i, "dir")),
      NewRow(Row(i, "", d, "dir")), Out(i)>>

MknodStmts(d, n, i) ==
    <<NewMeta(i, "file"), NewRow(Row(d, n, i, "file")), Out(i)>>

\* remove_impl() of the child c
RemoveStmts(d, n, c, isDir) ==
    (IF isDir THEN <<DelRows(c.ino), Links(d, -1)>> ELSE <<>>)
        \o <<DelRow(d, n), Links(c.ino, -1), Out(c.ino)>>

\* remove_impl() after its lookup: the checks come before any update. (That a
\* link count has no row shows in the update.)
ChildErr(d, c, isDir) ==
    IF RemoveErr(d, c, isDir) = "ENOENT" THEN "OK" ELSE RemoveErr(d, c, isDir)

\* The target of a rename is removed by a nested call.
ReplaceStmts(e, m, c, isDir) ==
    <<Savepoint>>
        \o (IF ChildErr(e, c, isDir) = "OK" THEN RemoveStmts(e, m, c, isDir)
            ELSE <<Refusal(ChildErr(e, c, isDir))>>)
        \o <<Release>>

MoveStmts(d, n, e, m, r) ==
    <<Move(d, n, e, m)>>
        \o (IF meta[r.ino].type = "dir" /\ d # e
            THEN <<Reparent(r.ino, e), Links(d, -1), Links(e, 1)>> ELSE <<>>)

RenameStmts(d, n, e, m, r) ==
    IF Joined(e, m) = {} THEN MoveStmts(d, n, e, m, r)
    ELSE LET t == CHOOSE t \in Joined(e, m) : TRUE
             c == [ino |-> t.ino, type |-> t.type]
         IN  IF t.ino = r.ino THEN <<>>
             ELSE ReplaceStmts(e, m, c, meta[r.ino].type = "dir")
                    \o MoveStmts(d, n, e, m, r)

PurgeStmts(i) ==
    IF StatNlink(i) > (IF meta[i].type = "dir" THEN 1 ELSE 0) THEN <<>>
    ELSE (IF meta[i].type = "dir" THEN <<>> ELSE <<Data(i, FALSE)>>) \o <<DelMeta(i)>>

\* The rows that "SELECT ino FROM metadata WHERE nlink = 0" has still to yield,
\* while the loop deletes those it has yielded.
UnlinkedAfter(i) == {j \in Unlinked : j > i}

\* Variant: the nested sqlfs_purge() returns without RELEASE.
TurnStmts_NoRelease(after) ==
    LET left == UnlinkedAfter(after)
        i == CHOOSE j \in left : \A k \in left : j <= k
    IN  IF left = {} THEN <<>> ELSE <<Savepoint>> \o PurgeStmts(i) \o <<NextUnlinked(i)>>

\* One turn of the loop in purge_all: a nested sqlfs_purge().
TurnStmts(after) ==
    LET left == UnlinkedAfter(after)
        i == CHOOSE j \in left : \A k \in left : j <= k
    IN  IF left = {} THEN <<>>
        ELSE <<Savepoint>> \o PurgeStmts(i) \o <<Release, NextUnlinked(i)>>

-----------------------------------------------------------------------------
(* Calls begin *)

\* A call returns before it opens a savepoint.
ReturnNow(e) ==
    /\ call = "idle"
    /\ Result(e, NoIno)
    /\ UNCHANGED <<meta, rows, filedata, txVars>>

\* A call opens its savepoint and makes its reads, which end in e; any of them
\* may fail with EIO.
Start(e, stmts) ==
    /\ call = "idle"
    /\ stack' = <<Tables>>
    /\ out' = NoIno
    /\ UNCHANGED <<meta, rows, filedata>>
    /\ \/ /\ e # "ABORT"
          /\ err' \in {e, "EIO"}
          /\ call' = IF err' = "OK" THEN "run" ELSE "unwind"
          /\ todo' = IF err' = "OK" THEN stmts ELSE <<>>
          /\ UNCHANGED res
       \/ /\ e = "ABORT"
          /\ err' = "ABORT" /\ call' = "check_failed" /\ todo' = <<>>
          /\ Result("ABORT", NoIno)

TxMkdir(d, n) ==
    \/ n \notin Names /\ ReturnNow("EINVAL")
    \/ /\ n \in Names
       /\ \E i \in Ino : IsNewIno(i) /\ Start(StatDirErr(d), MkdirStmts(d, n, i))

TxMknod(d, n) ==
    \/ n \notin Names /\ ReturnNow("EINVAL")
    \/ /\ n \in Names
       /\ \E i \in Ino : IsNewIno(i) /\ Start(StatDirErr(d), MknodStmts(d, n, i))

TxRemove(d, n, isDir) ==
    \/ n = "" /\ Start("EINVAL", <<>>)
    \/ n # "" /\ Found(d, n) = {} /\ Start("ENOENT", <<>>)
    \/ /\ n # ""
       /\ \E c \in Found(d, n) :
            Start(ChildErr(d, c, isDir), RemoveStmts(d, n, c, isDir))

TxRename(d, n, e, m) ==
    \/ (n \notin Names \/ m \notin Names) /\ ReturnNow("EINVAL")
    \/ /\ n \in Names /\ m \in Names
       /\ \/ /\ RenameParentsErr(d, n, e, m) # "OK"
             /\ Start(RenameParentsErr(d, n, e, m), <<>>)
          \/ /\ RenameParentsErr(d, n, e, m) = "OK"
             /\ \E r \in Joined(d, n) : Start("OK", RenameStmts(d, n, e, m, r))

TxPurge(i) ==
    \/ i \notin DOMAIN meta /\ Start("ENOENT", <<>>)
    \/ i \in DOMAIN meta /\ Start("OK", PurgeStmts(i))

TxPurgeAll == Start("OK", <<NextUnlinked(0)>>)

TxSetSize(i, nonEmpty) == Start(SetSizeErr(i), <<Data(i, nonEmpty), TouchMeta(i)>>)

-----------------------------------------------------------------------------
(* Calls go on *)

Return(e) ==
    /\ call' = "idle"
    /\ Result(e, out)
    /\ err' = "OK" /\ out' = NoIno

\* The next statement succeeds.
Run ==
    /\ call = "run" /\ todo # <<>>
    /\ LET s == Head(todo) IN
        /\ StmtErr(s) = "OK"
        /\ SetTables(After(s))
        /\ stack' = CASE s.op = "savepoint" -> Append(stack, Tables)
                      [] s.op = "release" -> SubSeq(stack, 1, Len(stack) - 1)
                      [] OTHER -> stack
        /\ todo' = (IF s.op = "next" THEN TurnStmts(s.after) ELSE <<>>) \o Tail(todo)
        /\ out' = IF s.op = "out" THEN s.ino ELSE out
        /\ UNCHANGED <<call, err, res>>

\* It fails, for the reason StmtErr gives or for another (a full disk, a database
\* that is read-only). SQLite undoes the statement, or the whole transaction.
RunFails ==
    /\ call = "run" /\ todo # <<>>
    /\ LET s == Head(todo) IN
        /\ s.op \notin {"savepoint", "release", "out"}
        /\ IF StmtErr(s) = "OK" THEN err' = "EIO" ELSE err' = StmtErr(s)
        /\ \/ UNCHANGED <<meta, rows, filedata, stack>>
           \/ AutoRollback /\ s.op # "refuse"
              /\ SetTables(Committed) /\ stack' = <<>>
    /\ call' = "unwind"
    /\ todo' = <<>>
    /\ UNCHANGED <<out, res>>

\* Variant: the error path has no ROLLBACK TO.
Unwind_KeepChanges ==
    /\ call = "unwind" /\ stack # <<>>
    /\ stack' = SubSeq(stack, 1, Len(stack) - 1)
    /\ IF Len(stack) > 1 THEN UNCHANGED <<call, res, err, out>>
       ELSE Return(err)
    /\ UNCHANGED <<meta, rows, filedata, todo>>

\* Variant: the outer call returns at once when its nested call has failed.
Unwind_InnerOnly ==
    /\ call = "unwind" /\ stack # <<>>
    /\ SetTables(stack[Len(stack)])
    /\ stack' = SubSeq(stack, 1, Len(stack) - 1)
    /\ Return(err)
    /\ UNCHANGED todo

\* The error path of the innermost call: ROLLBACK TO finds the latest savepoint,
\* RELEASE drops it. Then the call around it fails as well.
Unwind ==
    /\ call = "unwind" /\ stack # <<>>
    /\ SetTables(stack[Len(stack)])
    /\ stack' = SubSeq(stack, 1, Len(stack) - 1)
    /\ IF Len(stack) > 1 THEN UNCHANGED <<call, res, err, out>>
       ELSE Return(err)
    /\ UNCHANGED todo

\* There is no savepoint: the CHECK of sql_rollback_to_savepoint() fails.
UnwindFails ==
    /\ call = "unwind" /\ stack = <<>>
    /\ call' = "rollback_failed"
    /\ UNCHANGED <<vars, stack, todo, err, out>>

\* The last RELEASE of the call. When it drops the outermost savepoint, it commits.
Commit ==
    /\ call = "run" /\ todo = <<>>
    /\ stack' = SubSeq(stack, 1, Len(stack) - 1)
    /\ Return("OK")
    /\ UNCHANGED <<meta, rows, filedata, todo>>

\* There is something to write, and it cannot be written: the CHECK of
\* sql_release_savepoint() fails.
CommitFails ==
    /\ call = "run" /\ todo = <<>>
    /\ Len(stack) = 1 /\ Tables # Committed
    /\ call' = "commit_failed"
    /\ UNCHANGED <<vars, stack, todo, err, out>>

\* The process dies, or has died, and another opens the database.
Restart ==
    /\ call # "idle"
    /\ SetTables(Committed)
    /\ stack' = <<>>
    /\ call' = "idle"
    /\ todo' = <<>>
    /\ err' = "OK" /\ out' = NoIno
    /\ UNCHANGED res

-----------------------------------------------------------------------------

TxInit ==
    /\ Init
    /\ call = "idle"
    /\ stack = <<>>
    /\ todo = <<>>
    /\ err = "OK"
    /\ out = NoIno

Proceed == Run \/ RunFails \/ Unwind \/ UnwindFails \/ Commit \/ CommitFails

TxNext ==
    \/ \E d \in Ino, n \in AnyName : NotRemoved(d) /\ TxMkdir(d, n)
    \/ \E d \in Ino, n \in AnyName : NotRemoved(d) /\ TxMknod(d, n)
    \/ \E d \in Ino, n \in AnyName, isDir \in BOOLEAN : TxRemove(d, n, isDir)
    \/ \E d, e \in Ino, n, m \in RowNames :
          NotRemoved(e) /\ MakesNoCycle(d, n, e) /\ TxRename(d, n, e, m)
    \/ \E i \in Ino : TxPurge(i)
    \/ TxPurgeAll
    \/ \E i \in Ino, b \in BOOLEAN : TxSetSize(i, b)
    \/ Proceed
    \/ Restart

TxSpec == TxInit /\ [][TxNext]_allVars

-----------------------------------------------------------------------------
(* Properties *)

TxTypeOK ==
    /\ TypeOK
    /\ call \in {"idle"} \cup Busy \cup Dead
    /\ Len(stack) \in 0..2
    /\ err \in Errors
    /\ out \in Ino \cup {NoIno}

\* "Each call to sql_savepoint() must be paired with a later call to
\* sql_release_savepoint()" (sqlfs.c), on every path through two nested calls and
\* their failures: between calls there is no open savepoint, while one runs there
\* is, and the database has the tables of the outermost one.
SavepointsPaired ==
    /\ call = "idle" => stack = <<>> /\ todo = <<>>
    /\ call \in {"run", "commit_failed"} => stack # <<>>

\* Statement by statement, with nested calls that fail, statements that fail after
\* others have succeeded, commits that fail and processes that die between two
\* statements, the database changes only by the calls of Sqlfs, each at its commit;
\* and what a call returns is what it did.
Base == INSTANCE Sqlfs WITH meta <- Committed.meta,
                            rows <- Committed.rows,
                            filedata <- Committed.data
ImplementsSqlfs == Base!Spec

\* "Error propagation is used for failure of database updates. [...] We shouldn't
\* crash, but still support read-only functionality instead" (sqlfs.c).
WriteErrorsReturned == call \notin {"commit_failed", "rollback_failed"}
=============================================================================
