------------------------------- MODULE Sqlfs -------------------------------
(***************************************************************************)
(* The namespace layer of sqlfs.c: the metadata and direntries tables, the *)
(* set of inodes that own filedata rows, and the calls that change them.   *)
(* Each call is one step: sqlfs.c runs it inside a savepoint that is       *)
(* released on success and rolled back on failure.                         *)
(***************************************************************************)
EXTENDS Integers, FiniteSets

CONSTANTS
    Names,      \* the regular entry names: not "", "." or ".."
    MaxIno      \* bound on inode numbers (a 64-bit rowid in SQLite)

ASSUME NamesAssumption == Names \cap {"", ".", ".."} = {}
ASSUME MaxInoAssumption == MaxIno \in Nat \ {0}

Root == 1       \* SQLFS_INO_ROOT
NoIno == 0      \* SQLFS_INO_NONE
Ino == 1..MaxIno

Types == {"dir", "file"}
RowNames == Names \cup {""}             \* ".." is stored as ""
AnyName == RowNames \cup {".", ".."}    \* what a caller may pass

Errors == {"OK", "EIO", "EINVAL", "ENOENT", "ENOTDIR", "EISDIR", "EEXIST",
           "ENOTEMPTY", "EBUSY", "ABORT"}

VARIABLES
    meta,       \* metadata: inode number -> type and nlink column
    rows,       \* direntries: set of rows
    filedata,   \* the inodes that have rows in the filedata table
    res         \* what the last call returned: errno and inode number

vars == <<meta, rows, filedata, res>>

MetaRow == [type : Types, nlink : Int]
DirRow == [dir : Ino, name : RowNames, ino : Ino, type : Types]
Row(d, n, i, t) == [dir |-> d, name |-> n, ino |-> i, type |-> t]

-----------------------------------------------------------------------------
(* The SQL statements *)

\* SELECT count(entry_name) ... WHERE dir_ino = ?  (".." included)
Entries(d) == {r \in rows : r.dir = d}

RowAt(d, n) == {r \in rows : r.dir = d /\ r.name = n}

\* lookup(): what a name in d refers to. "." is answered without a query.
Found(d, n) ==
    IF n = "."
    THEN {[ino |-> d, type |-> "dir"]}
    ELSE {[ino |-> r.ino, type |-> r.type] :
            r \in RowAt(d, IF n = ".." THEN "" ELSE n)}

\* sqlfs_stat_entry() on a regular name: joined with metadata, so a row whose
\* inode has no metadata is not found, and the type is that of the metadata.
Joined(d, n) == {r \in RowAt(d, n) : r.ino \in DOMAIN meta}

\* The rowid SQLite chooses for a new metadata row: one more than the largest.
\* (The numbers of purged inodes can come back.)
IsNewIno(i) == (i - 1) \in DOMAIN meta /\ \A j \in DOMAIN meta : j < i

\* sql_insert_metadata() with nlink = 1
InsertMeta(m, i, t) ==
    [j \in DOMAIN m \cup {i} |-> IF j = i THEN [type |-> t, nlink |-> 1] ELSE m[j]]

\* sql_update_nlink()
AddLinks(m, i, k) == [m EXCEPT ![i].nlink = @ + k]

DeleteMeta(m, I) == [j \in DOMAIN m \ I |-> m[j]]

\* Variant: st_nlink of a directory without its "." entry.
StatNlink_NoSelf(i) == meta[i].nlink

\* fill_stat(): st_nlink counts the "." entry of a directory as well.
StatNlink(i) == meta[i].nlink + (IF meta[i].type = "dir" THEN 1 ELSE 0)

IsDirectory(i) == i \in DOMAIN meta /\ meta[i].type = "dir"

-----------------------------------------------------------------------------
(* How a call ends *)

Result(err, i) == res' = [err |-> err, ino |-> i]

\* The call fails: its savepoint is rolled back.
Refuse(err) == /\ err # "OK"
               /\ Result(err, NoIno)
               /\ UNCHANGED <<meta, rows, filedata>>

\* Any statement of a call may fail, on a full disk or a read-only database.
Fails(err) == Refuse(err) \/ Refuse("EIO")

-----------------------------------------------------------------------------
(* sqlfs_mkdir and sqlfs_mknod *)

\* stat_dir()
StatDirErr(d) ==
    IF d \notin DOMAIN meta THEN "ENOENT"
    ELSE IF meta[d].type # "dir" THEN "ENOTDIR"
    ELSE IF StatNlink(d) = 0 THEN "ENOENT"
    ELSE "OK"

\* Variant: the key of direntries does not stop a second entry.
CreateErr_NoExist(d, n, i, t) ==
    IF n \notin Names THEN "EINVAL" ELSE StatDirErr(d)

\* i is the inode number the new metadata row gets.
CreateErr(d, n, i, t) ==
    IF n \notin Names THEN "EINVAL"
    ELSE IF StatDirErr(d) # "OK" THEN StatDirErr(d)
    ELSE IF RowAt(d, n) # {} THEN "EEXIST"
    ELSE IF t = "dir" /\ RowAt(i, "") # {} THEN "EEXIST"
    ELSE "OK"

\* Variants: ".." under its own name; no reference to the parent.
NewDirRows_DotDot(d, n, i) == {Row(d, n, i, "dir"), Row(i, "..", d, "dir")}
NewDirRows_NoParent(d, n, i) == {Row(d, n, i, "dir")}

\* The entry of the new directory and its reference to its parent.
NewDirRows(d, n, i) == {Row(d, n, i, "dir"), Row(i, "", d, "dir")}

Mkdir(d, n) ==
    \E i \in Ino :
        /\ IsNewIno(i)
        /\ \/ Fails(CreateErr(d, n, i, "dir"))
           \/ /\ CreateErr(d, n, i, "dir") = "OK"
              /\ meta' = InsertMeta(AddLinks(meta, d, 1), i, "dir")
              /\ rows' = rows \cup NewDirRows(d, n, i)
              /\ Result("OK", i)
              /\ UNCHANGED filedata

Mknod(d, n) ==
    \E i \in Ino :
        /\ IsNewIno(i)
        /\ \/ Fails(CreateErr(d, n, i, "file"))
           \/ /\ CreateErr(d, n, i, "file") = "OK"
              /\ meta' = InsertMeta(meta, i, "file")
              /\ rows' = rows \cup {Row(d, n, i, "file")}
              /\ Result("OK", i)
              /\ UNCHANGED filedata

-----------------------------------------------------------------------------
(* sqlfs_rmdir and sqlfs_unlink: remove_impl() *)

\* Variant: a directory with entries can be removed.
RemoveErr_NonEmpty(d, c, isDir) ==
    IF isDir THEN IF c.type # "dir" THEN "ENOTDIR"
                  ELSE IF c.ino \in {Root, d} THEN "EBUSY" ELSE "OK"
    ELSE IF c.type = "dir" THEN "EISDIR" ELSE "OK"

\* Can the child c, found in d, be removed as a directory / as a file?
\* CHECK(entry_count == 1) aborts the process.
RemoveErr(d, c, isDir) ==
    IF isDir
    THEN IF c.type # "dir" THEN "ENOTDIR"
         ELSE IF c.ino = Root THEN "EBUSY"
         ELSE IF c.ino = d THEN "EINVAL"
         ELSE IF Cardinality(Entries(c.ino)) > 1 THEN "ENOTEMPTY"
         ELSE IF Entries(c.ino) = {} THEN "ABORT"
         ELSE IF {d, c.ino} \subseteq DOMAIN meta THEN "OK" ELSE "ENOENT"
    ELSE IF c.type = "dir" THEN "EISDIR"
         ELSE IF c.ino \in DOMAIN meta THEN "OK" ELSE "ENOENT"

\* The tables after the child c was removed from d under the name n.
RemovedMeta(d, c, isDir) ==
    AddLinks(IF isDir THEN AddLinks(meta, d, -1) ELSE meta, c.ino, -1)

\* Variant: the removed directory keeps its ".." row.
RemovedRows_KeepDotDot(d, n, c, isDir) == rows \ RowAt(d, n)

RemovedRows(d, n, c, isDir) ==
    {r \in rows : /\ ~(r.dir = d /\ r.name = n)
                  /\ ~(isDir /\ r.dir = c.ino)}

Remove(d, n, isDir) ==
    \/ n = "" /\ Fails("EINVAL")
    \/ n # "" /\ Found(d, n) = {} /\ Fails("ENOENT")
    \/ /\ n # ""
       /\ \E c \in Found(d, n) :
            \/ Fails(RemoveErr(d, c, isDir))
            \/ /\ RemoveErr(d, c, isDir) = "OK"
               /\ meta' = RemovedMeta(d, c, isDir)
               /\ rows' = RemovedRows(d, n, c, isDir)
               /\ Result("OK", c.ino)
               /\ UNCHANGED filedata

Rmdir(d, n) == Remove(d, n, TRUE)
Unlink(d, n) == Remove(d, n, FALSE)

-----------------------------------------------------------------------------
(* sqlfs_rename: moves entry n of directory d to name m of directory e *)

ParentErr(d) == IF d \notin DOMAIN meta THEN "ENOENT"
                ELSE IF meta[d].type # "dir" THEN "ENOTDIR" ELSE "OK"

RenameParentsErr(d, n, e, m) ==
    IF n \notin Names \/ m \notin Names THEN "EINVAL"
    ELSE IF ParentErr(d) # "OK" THEN ParentErr(d)
    ELSE IF ParentErr(e) # "OK" THEN ParentErr(e)
    ELSE IF Joined(d, n) = {} THEN "ENOENT"
    ELSE "OK"

\* Variant: the moved directory keeps its old parent.
MovedRows_NoReparent(rs, r, e, m) ==
    (rs \ {r}) \cup {Row(e, m, r.ino, r.type)}

\* sql_rename() of row r, and, for a directory that changes parent,
\* sql_reparent_directory() of its ".." row.
MovedRows(rs, r, e, m) ==
    LET moved == (rs \ {r}) \cup {Row(e, m, r.ino, r.type)}
    IN  IF meta[r.ino].type = "dir" /\ r.dir # e
        THEN {IF q.dir = r.ino /\ q.name = "" THEN [q EXCEPT !.ino = e] ELSE q :
                q \in moved}
        ELSE moved

\* Variant: the new parent's link count is not increased.
MovedMeta_NoInc(mt, r, e) ==
    IF meta[r.ino].type = "dir" /\ r.dir # e THEN AddLinks(mt, r.dir, -1) ELSE mt

MovedMeta(mt, r, e) ==
    IF meta[r.ino].type = "dir" /\ r.dir # e
    THEN AddLinks(AddLinks(mt, r.dir, -1), e, 1)
    ELSE mt

\* The two UPDATEs must change one row each; rs is direntries before them.
MoveErr(rs, r, e, m) ==
    IF \E q \in rs \ {r} : q.dir = e /\ q.name = m
    THEN "EIO"
    ELSE IF meta[r.ino].type = "dir" /\ r.dir # e /\ RowAt(r.ino, "") = {}
    THEN "EIO" ELSE "OK"

\* The target name is free.
RenameToFree(r, e, m) ==
    \/ Fails(MoveErr(rows, r, e, m))
    \/ /\ MoveErr(rows, r, e, m) = "OK"
       /\ meta' = MovedMeta(meta, r, e)
       /\ rows' = MovedRows(rows, r, e, m)
       /\ Result("OK", NoIno)
       /\ UNCHANGED filedata

\* The target name is taken by row t: it is removed first. *old_ino is set when
\* that removal succeeds, even if a later statement fails.
RenameOver(r, e, m, t) ==
    LET c == [ino |-> t.ino, type |-> t.type]
        isDir == meta[r.ino].type = "dir"
    IN  \/ Fails(RemoveErr(e, c, isDir))
        \/ /\ RemoveErr(e, c, isDir) = "OK"
           /\ \/ /\ Result("EIO", t.ino)
                 /\ UNCHANGED <<meta, rows, filedata>>
              \/ /\ MoveErr(RemovedRows(e, m, c, isDir), r, e, m) = "OK"
                 /\ meta' = MovedMeta(RemovedMeta(e, c, isDir), r, e)
                 /\ rows' = MovedRows(RemovedRows(e, m, c, isDir), r, e, m)
                 /\ Result("OK", t.ino)
                 /\ UNCHANGED filedata

Rename(d, n, e, m) ==
    \/ Fails(RenameParentsErr(d, n, e, m))
    \/ /\ RenameParentsErr(d, n, e, m) = "OK"
       /\ \E r \in Joined(d, n) :
            \/ Joined(e, m) = {} /\ RenameToFree(r, e, m)
            \/ \E t \in Joined(e, m) :
                 \/ /\ t.ino = r.ino
                    /\ Result("OK", NoIno)
                    /\ UNCHANGED <<meta, rows, filedata>>
                 \/ t.ino # r.ino /\ RenameOver(r, e, m, t)

-----------------------------------------------------------------------------
(* sqlfs_purge, sqlfs_purge_all *)

\* Variant: the contents of a purged file stay behind.
PurgeOne_KeepData(i) ==
    meta' = DeleteMeta(meta, {i}) /\ UNCHANGED <<rows, filedata>>

\* A directory's entries are left alone: there should be none.
PurgeOne(i) ==
    /\ meta' = DeleteMeta(meta, {i})
    /\ filedata' = IF meta[i].type = "dir" THEN filedata ELSE filedata \ {i}
    /\ UNCHANGED rows

Purge(i) ==
    \/ i \notin DOMAIN meta /\ Fails("ENOENT")
    \/ i \in DOMAIN meta /\ Fails("OK")
    \/ /\ i \in DOMAIN meta
       /\ StatNlink(i) > (IF meta[i].type = "dir" THEN 1 ELSE 0)
       /\ Result("OK", NoIno)
       /\ UNCHANGED <<meta, rows, filedata>>
    \/ /\ i \in DOMAIN meta
       /\ ~ (StatNlink(i) > (IF meta[i].type = "dir" THEN 1 ELSE 0))
       /\ PurgeOne(i)
       /\ Result("OK", NoIno)

Unlinked == {i \in DOMAIN meta : meta[i].nlink = 0}

PurgeAll ==
    \/ Fails("OK")
    \/ /\ meta' = DeleteMeta(meta, Unlinked)
       /\ filedata' = filedata \ {i \in Unlinked : meta[i].type = "file"}
       /\ Result("OK", NoIno)
       /\ UNCHANGED rows

-----------------------------------------------------------------------------
(* sqlfs_write and sqlfs_set_attr, as far as this module sees them: they    *)
(* leave the file with filedata rows (nonEmpty) or without                  *)

SetSizeErr(i) == IF i \notin DOMAIN meta THEN "ENOENT"
                 ELSE IF meta[i].type = "dir" THEN "EISDIR" ELSE "OK"

SetSize(i, nonEmpty) ==
    \/ Fails(SetSizeErr(i))
    \/ /\ SetSizeErr(i) = "OK"
       /\ filedata' = IF nonEmpty THEN filedata \cup {i} ELSE filedata \ {i}
       /\ Result("OK", NoIno)
       /\ UNCHANGED <<meta, rows>>

-----------------------------------------------------------------------------
(* Who calls. sqlfs.h asks the callers of sqlfs_rename to make no cycle; the *)
(* kernel, behind FUSE, keeps that promise, and makes no entry in a removed  *)
(* directory.                                                                *)

NotRemoved(d) == IsDirectory(d) => meta[d].nlink > 0

\* Directory e is neither c nor below c: some set holds e and every directory
\* that leads to e, and not c.
NotBelow(c, e) ==
    \E A \in SUBSET Ino :
        /\ e \in A /\ c \notin A
        /\ \A r \in rows : r.name # "" /\ r.ino \in A => r.dir \in A

MakesNoCycle(d, n, e) ==
    \A r \in RowAt(d, n) : r.type = "dir" => NotBelow(r.ino, e)

-----------------------------------------------------------------------------
(* sqlfs_create: create_root_directory() *)
Init ==
    /\ meta = [i \in {Root} |-> [type |-> "dir", nlink |-> 1]]
    /\ rows = {Row(Root, "", Root, "dir")}
    /\ filedata = {}
    /\ res = [err |-> "OK", ino |-> NoIno]

Maintain ==
    \/ \E i \in Ino : Purge(i)
    \/ PurgeAll
    \/ \E i \in Ino, b \in BOOLEAN : SetSize(i, b)

Next ==
    \/ \E d \in Ino, n \in AnyName : NotRemoved(d) /\ Mkdir(d, n)
    \/ \E d \in Ino, n \in AnyName : NotRemoved(d) /\ Mknod(d, n)
    \/ \E d \in Ino, n \in AnyName : Rmdir(d, n)
    \/ \E d \in Ino, n \in AnyName : Unlink(d, n)
    \/ \E d, e \in Ino, n, m \in RowNames :
          NotRemoved(e) /\ MakesNoCycle(d, n, e) /\ Rename(d, n, e, m)
    \/ Maintain

Spec == Init /\ [][Next]_vars

\* A caller that is not the kernel, and may use the number of a directory that
\* was removed. (It makes no sqlfs_rename, whose callers do owe a promise.)
NextAnyCaller ==
    \/ \E d \in Ino, n \in AnyName : Mkdir(d, n) \/ Mknod(d, n)
    \/ \E d \in Ino, n \in AnyName : Rmdir(d, n) \/ Unlink(d, n)
    \/ Maintain

SpecAnyCaller == Init /\ [][NextAnyCaller]_vars

-----------------------------------------------------------------------------
(* Properties *)

\* Every variable has its type.
TypeOK ==
    /\ DOMAIN meta \subseteq Ino
    /\ meta \in [DOMAIN meta -> MetaRow]
    /\ rows \subseteq DirRow
    /\ filedata \subseteq Ino
    /\ res \in [err : Errors, ino : Ino \cup {NoIno}]

\* (dir_ino, entry_name) is a key of direntries, and every row joins with
\* metadata: it sits in an existing directory and names an existing inode of
\* the type it records.
DirentsMatchMetadata ==
    /\ \A r, q \in rows : r.dir = q.dir /\ r.name = q.name => r = q
    /\ \A r \in rows : /\ IsDirectory(r.dir)
                      /\ r.ino \in DOMAIN meta
                      /\ r.type = meta[r.ino].type

\* The rows that name inode i: its links, and the ".." of its subdirectories.
LinksTo(i) == {r \in rows : r.ino = i}

\* The nlink column, kept up by increments and decrements spread over mkdir,
\* remove_impl and rename, is the number of rows that name the inode.
NlinkCountsRows ==
    \A i \in DOMAIN meta : meta[i].nlink = Cardinality(LinksTo(i))

\* A directory other than the root is linked by one entry at most, and its
\* ".." names the directory that entry is in, after any renames; the root is
\* its own parent and has no entry.
ParentAgrees ==
    /\ \A r, q \in rows : /\ r.name # "" /\ q.name # ""
                          /\ r.ino = q.ino
                          => r = q
    /\ \A r \in rows : r.name # "" => r.ino # Root
    /\ \A r \in rows : r.name # "" /\ r.type = "dir"
                      => Row(r.ino, "", r.dir, "dir") \in rows
    /\ Row(Root, "", Root, "dir") \in rows

\* A removed directory that waits to be purged has no rows at all, not even
\* "..": sqlfs_purge relies on it when it leaves direntries alone, and so does
\* the next inode to get that number.
RemovedDirsAreEmpty ==
    \A i \in DOMAIN meta : meta[i].nlink = 0 => Entries(i) = {}

\* Whatever is linked can be reached from the root: every set of linked inodes
\* without the root is entered from outside. (No lost subtree and no cycle.)
LinkedIsReachable ==
    \A S \in SUBSET {i \in DOMAIN meta \ {Root} : meta[i].nlink > 0} :
        S # {} => \E r \in rows : r.name # "" /\ r.ino \in S /\ r.dir \notin S

\* filedata rows belong to existing files, so a new file, whose number may have
\* been used before, starts empty.
NoOrphanData ==
    \A i \in filedata : i \in DOMAIN meta /\ meta[i].type = "file"

\* CHECK(entry_count == 1) of remove_impl() never fails.
NeverAborts == res.err # "ABORT"

\* "An unlinked directory effectively doesn't exist, so it should not be possible
\* to create files or subdirectories in it" (the comment on stat_dir): no call
\* adds a named row to a directory whose link count is zero.
NothingCreatedInRemovedDir ==
    [][\A r \in rows' \ rows : r.name # "" => NotRemoved(r.dir)]_vars

-----------------------------------------------------------------------------
(* The tables implement the tree of FsTree: an inode is linked where its one *)
(* row with a name says, and every call does to the tree what FsTree says.   *)

EntryOf(i) == CHOOSE r \in rows : r.name # "" /\ r.ino = i

Kinds == [i \in DOMAIN meta |-> meta[i].type]
Places == [i \in {r.ino : r \in {q \in rows : q.name # ""}} |->
              <<EntryOf(i).dir, EntryOf(i).name>>]

Tree == INSTANCE FsTree WITH kind <- Kinds, at <- Places

ImplementsTree == Tree!Spec
=============================================================================
