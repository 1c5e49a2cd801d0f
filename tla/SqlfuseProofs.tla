--------------------------- MODULE SqlfuseProofs ---------------------------
(***************************************************************************)
(* The invariants of the daemon, for any names, any number of inodes and   *)
(* any number of references. The daemon only makes calls of Sqlfs that its *)
(* callers may make, so the tables stay good; and every inode that is      *)
(* unlinked is on somebody's list to be purged. What a call does to the    *)
(* set of unlinked inodes is read off the direntries rows: among good      *)
(* tables, an inode is unlinked exactly when no row names it.              *)
(***************************************************************************)
EXTENDS Sqlfuse, SqlfsProofs

\* The inode of the step that is to follow a call.
StepGood ==
    /\ pc \in {"reply", "purge"} => cur \in Ino
    /\ pc = "reply" => cur \in DOMAIN meta

NobodyHolds == ~Mounted => held = NoCounts /\ pending = NoCounts

\* Every unlinked inode waits for a purge: by a FORGET, by maybe_purge(), by
\* sqlfuse_destroy(), or, where that has failed, by the next mount.
UnlinkedGood ==
    /\ pc \in {"idle", "reply", "destroy"} =>
          Unlinked \subseteq DOMAIN lookups \cup purgeFailed
    /\ pc = "purge" => Unlinked \subseteq DOMAIN lookups \cup purgeFailed \cup {cur}
    /\ pc = "stopped" => Unlinked \subseteq purgeFailed

FInv ==
    /\ IInv /\ FuseTypeOK
    /\ StepGood /\ NobodyHolds /\ UnlinkedGood
    /\ LookupBalance /\ HeldInodesExist

-----------------------------------------------------------------------------
(* What a call does to the set of unlinked inodes *)

\* Among good tables, the unlinked inodes are those that no row names.
LEMMA UnlinkedIsUnnamed ==
    ASSUME NEW m, NEW rs, Good(m, rs), NEW i \in DOMAIN m
    PROVE  m[i].nlink = 0 <=> ~HasEntry(rs, i)
<1>1. CASE m[i].nlink > 0
  <2>1. HasEntry(rs, i)
    BY <1>1, LiveHasEntry
  <2> QED
    BY <1>1, <2>1
<1>2. CASE ~(m[i].nlink > 0)
  <2>1. m[i].nlink = 0 /\ i # Root /\ \A r \in rs : r.ino # i
    BY <1>2, DeadHasNoRows
  <2> QED
    BY <2>1 DEF HasEntry
<1> QED
  BY <1>1, <1>2

\* A call that leaves the entries of all inodes but those of S, and makes no
\* inode without an entry, unlinks no others.
LEMMA EntriesKept ==
    ASSUME IInv, IInv', NEW S,
           \A i : HasEntry(rows, i) => HasEntry(rows', i) \/ i \in S,
           \A i \in DOMAIN meta' : i \in DOMAIN meta \/ HasEntry(rows', i)
    PROVE  Unlinked' \subseteq Unlinked \cup S
<1> SUFFICES ASSUME NEW i \in DOMAIN meta', meta'[i].nlink = 0, i \notin S
             PROVE  i \in Unlinked
  BY DEF Unlinked
<1>1. Good(meta, rows) /\ Good(meta', rows')
  BY DEF IInv, TablesGood
<1>2. ~HasEntry(rows', i)
  BY <1>1, UnlinkedIsUnnamed
<1>3. i \in DOMAIN meta /\ ~HasEntry(rows, i)
  BY <1>2
<1> QED
  BY <1>1, <1>3, UnlinkedIsUnnamed DEF Unlinked

\* A change of a link count keeps the set of inodes.
LEMMA LinksKeepInodes ==
    ASSUME NEW m, NEW i, NEW k
    PROVE  DOMAIN AddLinks(m, i, k) = DOMAIN m
  BY DEF AddLinks

\* A refused call unlinks nothing.
LEMMA RefusedKeeps ==
    ASSUME NEW e, Fails(e)
    PROVE  UNCHANGED <<meta, rows, filedata>> /\ Unlinked' = Unlinked
           /\ res'.err # "OK" /\ res'.ino = NoIno
<1>1. PICK f : f # "OK" /\ res' = [err |-> f, ino |-> NoIno]
               /\ UNCHANGED <<meta, rows, filedata>>
  BY DEF Fails, Refuse, Result
<1>2. res'.err = f /\ res'.ino = NoIno
  BY <1>1
<1> QED
  BY <1>1, <1>2 DEF Unlinked

\* What sqlfs_mkdir and sqlfs_mknod do: the inode they return exists.
Creates ==
    /\ DOMAIN meta \subseteq DOMAIN meta'
    /\ Unlinked' \subseteq Unlinked
    /\ res'.ino \in DOMAIN meta' \cup {NoIno}

\* What the calls that remove an entry do: they unlink at most the inode they
\* return, and only when they succeed.
Removes ==
    /\ DOMAIN meta \subseteq DOMAIN meta'
    /\ Unlinked' \subseteq
          Unlinked \cup (IF res'.err = "OK" THEN {res'.ino} ELSE {})

\* What sqlfs_purge does to inode i.
Purges(i) ==
    /\ DOMAIN meta \ {i} \subseteq DOMAIN meta'
    /\ Unlinked' \subseteq Unlinked
    /\ res'.err = "OK" => i \notin Unlinked'

\* New rows, with a name for the one new inode, unlink nothing.
LEMMA AddedRows ==
    ASSUME IInv, IInv', NEW d, NEW n \in Names, NEW i, NEW t,
           Row(d, n, i, t) \in rows', rows \subseteq rows',
           DOMAIN meta' = DOMAIN meta \cup {i}, Result("OK", i)
    PROVE  Creates
<1>1. HasEntry(rows', i)
  <2>1. Row(d, n, i, t).name # "" /\ Row(d, n, i, t).ino = i
    BY NamesAssumption DEF Row
  <2> QED
    BY <2>1 DEF HasEntry
<1>2. \A j : HasEntry(rows, j) => HasEntry(rows', j) \/ j \in {}
  BY DEF HasEntry
<1>3. Unlinked' \subseteq Unlinked \cup {}
  BY <1>1, <1>2, EntriesKept
<1>4. res'.ino = i
  BY DEF Result
<1> QED
  BY <1>3, <1>4 DEF Creates

\* sqlfs_mkdir unlinks nothing.
LEMMA MkdirCreates ==
    ASSUME IInv, IInv', NEW d \in Ino, NEW n \in Names, Mkdir(d, n)
    PROVE  Creates
<1>1. ASSUME NEW i \in Ino, Fails(CreateErr(d, n, i, "dir"))
      PROVE  Creates
  BY <1>1, RefusedKeeps DEF Creates
<1>2. ASSUME NEW i \in Ino,
             meta' = InsertMeta(AddLinks(meta, d, 1), i, "dir"),
             rows' = rows \cup NewDirRows(d, n, i),
             Result("OK", i)
      PROVE  Creates
  <2>1. DOMAIN meta' = DOMAIN meta \cup {i}
    BY <1>2, LinksKeepInodes DEF InsertMeta
  <2>2. Row(d, n, i, "dir") \in rows' /\ rows \subseteq rows'
    BY <1>2 DEF NewDirRows
  <2> QED
    BY <1>2, <2>1, <2>2, AddedRows
<1> QED
  BY <1>1, <1>2 DEF Mkdir

\* sqlfs_mknod unlinks nothing.
LEMMA MknodCreates ==
    ASSUME IInv, IInv', NEW d \in Ino, NEW n \in Names, Mknod(d, n)
    PROVE  Creates
<1>1. ASSUME NEW i \in Ino, Fails(CreateErr(d, n, i, "file"))
      PROVE  Creates
  BY <1>1, RefusedKeeps DEF Creates
<1>2. ASSUME NEW i \in Ino,
             meta' = InsertMeta(meta, i, "file"),
             rows' = rows \cup {Row(d, n, i, "file")},
             Result("OK", i)
      PROVE  Creates
  <2>1. DOMAIN meta' = DOMAIN meta \cup {i}
    BY <1>2 DEF InsertMeta
  <2>2. Row(d, n, i, "file") \in rows' /\ rows \subseteq rows'
    BY <1>2
  <2> QED
    BY <1>2, <2>1, <2>2, AddedRows
<1> QED
  BY <1>1, <1>2 DEF Mknod
\* remove_impl() unlinks the child it removes, and nothing else.
LEMMA RemoveRemoves ==
    ASSUME IInv, IInv', NEW d \in Ino, NEW n \in Names, NEW isDir \in BOOLEAN,
           Remove(d, n, isDir)
    PROVE  Removes
<1>1. n \in AnyName /\ n # "" /\ n # "." /\ n # ".."
  BY NamesAssumption DEF AnyName, RowNames
<1>2. ASSUME NEW e, Fails(e)
      PROVE  Removes
  BY <1>2, RefusedKeeps DEF Removes
<1>3. ASSUME NEW c \in Found(d, n), RemoveErr(d, c, isDir) = "OK",
             meta' = RemovedMeta(d, c, isDir),
             rows' = RemovedRows(d, n, c, isDir),
             Result("OK", c.ino)
      PROVE  Removes
  <2>1. RemovesWell(d, n, c, isDir)
    BY <1>1, <1>3, RemoveGood
  <2>2. DOMAIN meta' = DOMAIN meta
    BY <1>3, <2>1 DEF RemovesWell, SameTypes
  <2>3. PICK x \in RowAt(d, n) : c.ino = x.ino
    BY <1>1, FoundCases
  <2>4. \A q \in rows \ rows' : q.name # "" => q.ino = c.ino
    <3> SUFFICES ASSUME NEW q \in rows \ rows', q.name # ""
                 PROVE  q.ino = c.ino
      OBVIOUS
    <3>1. q.dir = d /\ q.name = n
      BY <1>3, <2>1 DEF RemovesWell
    <3>2. x \in rows /\ x.dir = d /\ x.name = n
      BY DEF RowAt
    <3>3. q = x
      BY <3>1, <3>2 DEF IInv, TablesGood, Good, RowsGood, KeyGood
    <3> QED
      BY <2>3, <3>3
  <2>5. \A i : HasEntry(rows, i) => HasEntry(rows', i) \/ i \in {c.ino}
    BY <2>4 DEF HasEntry
  <2>6. Unlinked' \subseteq Unlinked \cup {c.ino}
    BY <2>2, <2>5, EntriesKept
  <2>7. res'.err = "OK" /\ res'.ino = c.ino
    BY <1>3 DEF Result
  <2> QED
    BY <2>2, <2>6, <2>7 DEF Removes
<1> QED
  BY <1>1, <1>2, <1>3 DEF Remove

\* The two UPDATEs of sqlfs_rename leave an entry to every inode that has one.
LEMMA MovedEntries ==
    ASSUME NEW rs, NEW r \in rs, NEW e, NEW m \in Names,
           NEW i, HasEntry(rs, i)
    PROVE  HasEntry(MovedRows(rs, r, e, m), i)
<1> DEFINE y == Row(e, m, r.ino, r.type)
           moved == (rs \ {r}) \cup {y}
<1>1. y.name # "" /\ y.ino = r.ino
  BY NamesAssumption DEF Row
<1> HIDE DEF y
<1>2. HasEntry(moved, i)
  BY <1>1 DEF HasEntry
<1>3. \A q \in moved : q.name # "" => q \in MovedRows(rs, r, e, m)
  BY DEF MovedRows, y
<1> HIDE DEF moved
<1> QED
  BY <1>2, <1>3 DEF HasEntry

\* sqlfs_rename unlinks nothing but the target it replaces.
LEMMA RenameRemoves ==
    ASSUME IInv, IInv', NEW d \in Ino, NEW e \in Ino, NEW n \in Names, NEW m \in Names,
           Rename(d, n, e, m)
    PROVE  Removes
<1>1. ASSUME NEW f, Fails(f)
      PROVE  Removes
  BY <1>1, RefusedKeeps DEF Removes
<1>2. ASSUME UNCHANGED meta
      PROVE  Removes
  BY <1>2 DEF Removes, Unlinked
<1>3. ASSUME NEW r \in Joined(d, n),
             meta' = MovedMeta(meta, r, e),
             rows' = MovedRows(rows, r, e, m)
      PROVE  Removes
  <2>1. DOMAIN meta' = DOMAIN meta
    BY <1>3, LinksKeepInodes DEF MovedMeta
  <2>2. r \in rows
    BY DEF Joined, RowAt
  <2>3. \A i : HasEntry(rows, i) => HasEntry(rows', i) \/ i \in {}
    BY <1>3, <2>2, MovedEntries
  <2>4. Unlinked' \subseteq Unlinked \cup {}
    BY <2>1, <2>3, EntriesKept
  <2> QED
    BY <2>1, <2>4 DEF Removes
<1>4. ASSUME NEW r \in Joined(d, n), NEW t \in Joined(e, m), t.ino # r.ino,
             RenameOver(r, e, m, t)
      PROVE  Removes
  <2> DEFINE c == [ino |-> t.ino, type |-> t.type]
             isDir == meta[r.ino].type = "dir"
             rs == RemovedRows(e, m, c, isDir)
  <2>1. ASSUME RemoveErr(e, c, isDir) = "OK",
               meta' = MovedMeta(RemovedMeta(e, c, isDir), r, e),
               rows' = MovedRows(rs, r, e, m),
               Result("OK", t.ino)
        PROVE  Removes
    <3>1. DOMAIN meta' = DOMAIN meta
      <4>1. DOMAIN RemovedMeta(e, c, isDir) = DOMAIN meta
        BY LinksKeepInodes DEF RemovedMeta
      <4> QED
        BY <2>1, <4>1, LinksKeepInodes DEF MovedMeta
    <3>2. /\ r \in rows /\ r.dir = d /\ r.name = n
          /\ t \in rows /\ t.dir = e /\ t.name = m
      BY DEF Joined, RowAt
    <3>3. /\ n \in AnyName /\ n # "" /\ m \in AnyName /\ m # "" /\ m # "." /\ m # ".."
      BY NamesAssumption DEF AnyName, RowNames
    <3>4. c \in Found(e, m) /\ c.ino = t.ino /\ isDir \in BOOLEAN
      BY <3>2, <3>3 DEF Found, RowAt
    <3> HIDE DEF c, isDir
    <3>5. \A q \in rows \ rs : ~(q.dir = e /\ q.name = m) => q.dir = c.ino /\ q.name = ""
      BY <2>1, <3>3, <3>4, RemoveGood DEF RemovesWell
    <3> HIDE DEF rs
    <3>6. \A q \in rows \ rs : q.name # "" => q = t
      BY <3>2, <3>5 DEF IInv, TablesGood, Good, RowsGood, KeyGood
    <3>7. r \in rs
      BY <1>4, <3>2, <3>3, <3>6
    <3>8. \A i : HasEntry(rows, i) => HasEntry(rs, i) \/ i \in {t.ino}
      BY <3>6 DEF HasEntry
    <3>9. \A i : HasEntry(rows, i) => HasEntry(rows', i) \/ i \in {t.ino}
      BY <2>1, <3>7, <3>8, MovedEntries
    <3>10. Unlinked' \subseteq Unlinked \cup {t.ino}
      BY <3>1, <3>9, EntriesKept
    <3>11. res'.err = "OK" /\ res'.ino = t.ino
      BY <2>1 DEF Result
    <3> QED
      BY <3>1, <3>10, <3>11 DEF Removes
  <2> QED
    BY <1>1, <1>2, <1>4, <2>1 DEF RenameOver
<1> QED
  BY <1>1, <1>2, <1>3, <1>4 DEF Rename, RenameToFree

\* sqlfs_purge deletes at most the inode it is given, and leaves it only if it
\* fails or if the inode is linked.
LEMMA PurgePurges ==
    ASSUME IInv, NEW i \in Ino, Purge(i)
    PROVE  Purges(i)
<1>1. ASSUME NEW e, i \notin DOMAIN meta \/ e = "OK", Fails(e)
      PROVE  Purges(i)
  BY <1>1, RefusedKeeps DEF Purges
<1>2. ASSUME i \in DOMAIN meta,
             StatNlink(i) > (IF meta[i].type = "dir" THEN 1 ELSE 0),
             UNCHANGED <<meta, rows, filedata>>
      PROVE  Purges(i)
  <2>1. meta[i].nlink # 0
    BY <1>2 DEF StatNlink
  <2> QED
    BY <1>2, <2>1 DEF Purges, Unlinked
<1>3. ASSUME PurgeOne(i)
      PROVE  Purges(i)
  <2>1. /\ DOMAIN meta' = DOMAIN meta \ {i}
        /\ \A j \in DOMAIN meta' : meta'[j] = meta[j]
    BY <1>3 DEF PurgeOne, DeleteMeta
  <2> QED
    BY <2>1 DEF Purges, Unlinked
<1> QED
  BY <1>1, <1>2, <1>3 DEF Purge

\* sqlfs_purge_all leaves no unlinked inode, unless it fails.
LEMMA PurgeAllPurges ==
    ASSUME PurgeAll
    PROVE  /\ res'.err = "OK" => Unlinked' = {}
           /\ res'.err # "OK" => UNCHANGED <<meta, rows, filedata>>
<1>1. CASE Fails("OK")
  BY <1>1, RefusedKeeps
<1>2. CASE meta' = DeleteMeta(meta, Unlinked) /\ Result("OK", NoIno)
  <2>1. /\ DOMAIN meta' = DOMAIN meta \ Unlinked
        /\ \A j \in DOMAIN meta' : meta'[j] = meta[j]
    BY <1>2 DEF DeleteMeta
  <2>2. Unlinked' = {}
    BY <2>1 DEF Unlinked
  <2>3. res'.err = "OK"
    BY <1>2 DEF Result
  <2> QED
    BY <2>2, <2>3
<1> QED
  BY <1>1, <1>2 DEF PurgeAll

\* A change of contents unlinks nothing.
LEMMA SetSizeKeeps ==
    ASSUME NEW i, NEW b, SetSize(i, b)
    PROVE  UNCHANGED <<meta, rows>> /\ Unlinked' = Unlinked
<1>1. UNCHANGED <<meta, rows>>
  BY DEF SetSize, Fails, Refuse
<1> QED
  BY <1>1 DEF Unlinked
-----------------------------------------------------------------------------
(* The daemon only makes calls of Sqlfs *)

\* forget() makes one call, for an inode that exists, or none.
LEMMA ForgetCalls ==
    ASSUME NEW i \in Ino, NEW n, Forget(i, n)
    PROVE  [Next]_dbVars
<1>1. CASE UNCHANGED dbVars
  BY <1>1
<1>2. CASE Purge(i)
  BY <1>2 DEF Next, Maintain
<1> QED
  BY <1>1, <1>2 DEF Forget

\* A request makes a call that a caller of sqlfs.h may make, or none.
LEMMA ServeCalls ==
    ASSUME Serve
    PROVE  [Next]_dbVars
<1>0. Names \subseteq RowNames /\ Names \subseteq AnyName
  BY DEF RowNames, AnyName
<1>1. ASSUME NEW p \in Ino, NEW n \in Names, FuseLookup(p, n)
      PROVE  [Next]_dbVars
  BY <1>1 DEF FuseLookup
<1>2. ASSUME NEW p \in Ino, NEW n \in Names, FuseMknod(p, n)
      PROVE  [Next]_dbVars
  BY <1>0, <1>2 DEF FuseMknod, Next
<1>3. ASSUME NEW p \in Ino, NEW n \in Names, FuseMkdir(p, n)
      PROVE  [Next]_dbVars
  BY <1>0, <1>3 DEF FuseMkdir, Next
<1>4. ASSUME NEW p \in Ino, NEW n \in Names, FuseUnlink(p, n)
      PROVE  [Next]_dbVars
  BY <1>0, <1>4 DEF FuseUnlink, Next
<1>5. ASSUME NEW p \in Ino, NEW n \in Names, FuseRmdir(p, n)
      PROVE  [Next]_dbVars
  BY <1>0, <1>5 DEF FuseRmdir, Next
<1>6. ASSUME NEW p \in Ino, NEW q \in Ino, NEW n \in Names, NEW m \in Names,
             FuseRename(p, n, q, m)
      PROVE  [Next]_dbVars
  BY <1>0, <1>6 DEF FuseRename, Next
<1>7. ASSUME NEW i \in Ino, NEW b \in BOOLEAN, FuseSetSize(i, b)
      PROVE  [Next]_dbVars
  BY <1>7 DEF FuseSetSize, Next, Maintain
<1>8. ASSUME NEW i \in Ino, FuseForget(i)
      PROVE  [Next]_dbVars
  BY <1>8, ForgetCalls DEF FuseForget
<1> QED
  BY <1>1, <1>2, <1>3, <1>4, <1>5, <1>6, <1>7, <1>8 DEF Serve

\* So does every step of the daemon and of the kernel.
LEMMA FuseNextCalls ==
    ASSUME FuseTypeOK, StepGood, [FuseNext]_allVars
    PROVE  [Next]_dbVars
<1>1. CASE Serve
  BY <1>1, ServeCalls
<1>2. CASE ReplyEntry
  BY <1>2 DEF ReplyEntry
<1>3. CASE MaybePurge
  BY <1>3, ForgetCalls DEF MaybePurge, StepGood
<1>4. ASSUME NEW i \in Ino, KernelForget(i)
      PROVE  [Next]_dbVars
  BY <1>4 DEF KernelForget
<1>5. CASE Mount
  BY <1>5 DEF Mount, Next, Maintain
<1>6. CASE Unmount
  BY <1>6 DEF Unmount
<1>7. CASE DestroyOne
  BY <1>7, ForgetCalls DEF DestroyOne, FuseTypeOK
<1>8. CASE DestroyDone
  BY <1>8 DEF DestroyDone
<1>9. CASE Crash
  BY <1>9 DEF Crash
<1>10. CASE UNCHANGED allVars
  BY <1>10 DEF allVars, dbVars
<1> QED
  BY <1>1, <1>2, <1>3, <1>4, <1>5, <1>6, <1>7, <1>8, <1>9, <1>10 DEF FuseNext

\* The tables stay good.
LEMMA FuseNextTables ==
    ASSUME FInv, [FuseNext]_allVars
    PROVE  IInv /\ IInv'
  BY FuseNextCalls, NextInv DEF FInv, dbVars

-----------------------------------------------------------------------------
(* The lookup counts *)

\* intmap_update() adds to one count, and keeps no zeros.
LEMMA UpdateAdds ==
    ASSUME NEW m, DOMAIN m \subseteq Ino,
           \A j \in DOMAIN m : m[j] \in Nat \ {0},
           NEW i \in Ino, NEW k \in Int, Get(m, i) + k >= 0
    PROVE  /\ DOMAIN Update(m, i, k) \subseteq Ino
           /\ \A j \in DOMAIN Update(m, i, k) : Update(m, i, k)[j] \in Nat \ {0}
           /\ Get(Update(m, i, k), i) = Get(m, i) + k
           /\ \A j \in Ino \ {i} : Get(Update(m, i, k), j) = Get(m, j)
           /\ \A j \in Ino : /\ Get(m, j) \in Nat
                             /\ j \in DOMAIN m <=> Get(m, j) > 0
                             /\ j \in DOMAIN Update(m, i, k)
                                    <=> Get(Update(m, i, k), j) > 0
<1>1. Get(m, i) \in Nat
  BY DEF Get
<1>2. CASE k = 0
  BY <1>1, <1>2 DEF Update, Get
<1>3. CASE k # 0
  <2> DEFINE v == Get(m, i) + k
             D == (DOMAIN m \ {i}) \cup (IF v # 0 THEN {i} ELSE {})
             u == Update(m, i, k)
  <2>1. u = [j \in D |-> IF j = i THEN v ELSE m[j]]
    BY <1>3 DEF Update
  <2>2. v \in Nat
    BY <1>1
  <2>3. /\ DOMAIN u = D
        /\ i \in D <=> v # 0
        /\ i \in D => u[i] = v
        /\ \A j \in DOMAIN m \ {i} : j \in D /\ u[j] = m[j]
        /\ \A j \in D : j # i => j \in DOMAIN m
    BY <2>1
  <2> HIDE DEF u, D, v
  <2>4. Get(u, i) = v
    BY <2>2, <2>3 DEF Get
  <2>5. \A j \in Ino \ {i} : Get(u, j) = Get(m, j)
    BY <2>3 DEF Get
  <2>6. DOMAIN u \subseteq Ino /\ \A j \in DOMAIN u : u[j] \in Nat \ {0}
    BY <2>2, <2>3
  <2>7. \A j \in Ino : /\ Get(m, j) \in Nat
                       /\ j \in DOMAIN m <=> Get(m, j) > 0
                       /\ j \in DOMAIN u <=> Get(u, j) > 0
    BY <2>6 DEF Get
  <2> QED
    BY <2>4, <2>5, <2>6, <2>7 DEF u, v
<1> QED
  BY <1>2, <1>3
\* The tables and lists after forget() took n references of inode i: only i may
\* be deleted, and only when nobody holds it; if it stays unlinked, it is still
\* counted or its purge has failed.
Forgotten(i, n) ==
    /\ DOMAIN lookups' \subseteq Ino
    /\ \A j \in DOMAIN lookups' : lookups'[j] \in Nat \ {0}
    /\ Get(lookups', i) = Get(lookups, i) - n
    /\ \A j \in Ino \ {i} : Get(lookups', j) = Get(lookups, j)
    /\ \A j \in DOMAIN lookups \ {i} : j \in DOMAIN lookups'
    /\ purgeFailed \subseteq purgeFailed' /\ purgeFailed' \subseteq Ino
    /\ Unlinked' \subseteq Unlinked
    /\ i \in Unlinked' => i \in DOMAIN lookups' \cup purgeFailed'
    /\ \A j \in DOMAIN meta : j # i \/ Get(lookups, i) > n => j \in DOMAIN meta'

\* forget() does what it should.
LEMMA ForgetGood ==
    ASSUME IInv, FuseTypeOK, NEW i \in Ino, NEW n \in Nat, n <= Get(lookups, i),
           Forget(i, n)
    PROVE  Forgotten(i, n)
<1>1. /\ DOMAIN lookups \subseteq Ino
      /\ \A j \in DOMAIN lookups : lookups[j] \in Nat \ {0}
      /\ purgeFailed \subseteq Ino
  BY DEF FuseTypeOK
<1>2. Get(lookups, i) \in Nat
  BY <1>1 DEF Get
<1>3. -n \in Int /\ Get(lookups, i) + (-n) >= 0
  BY <1>2
<1>4. lookups' = Update(lookups, i, -n)
  BY DEF Forget
<1>5. /\ DOMAIN lookups' \subseteq Ino
      /\ \A j \in DOMAIN lookups' : lookups'[j] \in Nat \ {0}
      /\ Get(lookups', i) = Get(lookups, i) + (-n)
      /\ \A j \in Ino \ {i} : Get(lookups', j) = Get(lookups, j)
      /\ \A j \in Ino : /\ j \in DOMAIN lookups <=> Get(lookups, j) > 0
                        /\ j \in DOMAIN lookups' <=> Get(lookups', j) > 0
  <2>1. /\ DOMAIN Update(lookups, i, -n) \subseteq Ino
        /\ \A j \in DOMAIN Update(lookups, i, -n) :
              Update(lookups, i, -n)[j] \in Nat \ {0}
        /\ Get(Update(lookups, i, -n), i) = Get(lookups, i) + (-n)
        /\ \A j \in Ino \ {i} : Get(Update(lookups, i, -n), j) = Get(lookups, j)
        /\ \A j \in Ino : /\ j \in DOMAIN lookups <=> Get(lookups, j) > 0
                          /\ j \in DOMAIN Update(lookups, i, -n)
                                 <=> Get(Update(lookups, i, -n), j) > 0
    BY <1>1, <1>3, UpdateAdds
  <2>2. \A f : Get(lookups', f) = Get(Update(lookups, i, -n), f)
    BY <1>4 DEF Get
  <2> QED
    BY <1>4, <2>1, <2>2
<1>6. \A j \in DOMAIN lookups \ {i} : j \in DOMAIN lookups'
  BY <1>1, <1>5
<1>7. Get(lookups', i) = Get(lookups, i) - n
  BY <1>2, <1>5
<1>8. CASE Get(lookups', i) > 0 /\ UNCHANGED <<dbVars, purgeFailed>>
  <2>1. UNCHANGED <<meta, rows, purgeFailed>>
    BY <1>8 DEF dbVars, vars
  <2>2. Unlinked' = Unlinked
    BY <2>1 DEF Unlinked
  <2> QED
    BY <1>1, <1>5, <1>6, <1>7, <1>8, <2>1, <2>2 DEF Forgotten
<1>9. CASE /\ Get(lookups', i) <= 0
           /\ Purge(i)
           /\ purgeFailed' = IF res'.err = "OK" THEN purgeFailed
                                                ELSE purgeFailed \cup {i}
  <2>1. Purges(i)
    BY <1>9, PurgePurges
  <2>2. Get(lookups, i) <= n
    BY <1>2, <1>7, <1>9
  <2>3. i \in Unlinked' => i \in purgeFailed'
    BY <1>9, <2>1 DEF Purges
  <2>4. \A j \in DOMAIN meta : j # i \/ Get(lookups, i) > n => j \in DOMAIN meta'
    BY <1>2, <2>1, <2>2 DEF Purges
  <2>5. purgeFailed \subseteq purgeFailed' /\ purgeFailed' \subseteq Ino
    BY <1>1, <1>9
  <2> QED
    BY <1>5, <1>6, <1>7, <2>1, <2>3, <2>4, <2>5 DEF Forgotten, Purges
<1> QED
  BY <1>8, <1>9 DEF Forget

-----------------------------------------------------------------------------
(* The invariant of the daemon *)

\* The steps that leave the tables alone leave the unlinked inodes alone.
LEMMA SameTables ==
    ASSUME UNCHANGED dbVars
    PROVE  UNCHANGED <<meta, rows, filedata, res>> /\ Unlinked' = Unlinked
<1>1. UNCHANGED <<meta, rows, filedata, res>>
  BY DEF dbVars, vars
<1> QED
  BY <1>1 DEF Unlinked

\* The daemon starts with a file system that was just created.
LEMMA FuseInitInv == FuseInit => FInv
<1> SUFFICES ASSUME FuseInit PROVE FInv
  OBVIOUS
<1>1. IInv
  BY InitInv DEF FuseInit
<1>2. /\ pc = "stopped" /\ cur = NoIno /\ held = NoCounts /\ pending = NoCounts
      /\ DOMAIN lookups = {} /\ purgeFailed = {}
  BY DEF FuseInit
<1>3. NoCounts \in [Ino -> Nat] /\ \A i \in Ino : NoCounts[i] = 0
  BY DEF NoCounts
<1>4. FuseTypeOK
  BY <1>2, <1>3 DEF FuseTypeOK
<1>5. Unlinked = {}
  <2>1. DOMAIN meta = {Root} /\ meta[Root] = [type |-> "dir", nlink |-> 1]
    BY DEF FuseInit, Init
  <2> QED
    BY <2>1 DEF Unlinked
<1>6. StepGood /\ NobodyHolds /\ UnlinkedGood
  BY <1>2, <1>5 DEF StepGood, NobodyHolds, UnlinkedGood
<1>7. LookupBalance /\ HeldInodesExist
  BY <1>2, <1>3 DEF LookupBalance, HeldInodesExist, Mounted
<1> QED
  BY <1>1, <1>4, <1>6, <1>7 DEF FInv

\* A call made for a request, and what follows it. The counts stay.
LEMMA CallInv ==
    ASSUME FInv, IInv', pc = "idle", NEW next \in {"reply", "purge"}, Then(next),
           next = "reply" => Creates,
           next = "purge" => Removes
    PROVE  FInv'
<1>1. UNCHANGED <<lookups, held, pending, purgeFailed>>
  BY DEF Then
<1>2. res'.ino \in Ino \cup {NoIno}
  BY DEF IInv, Returned
<1>3. \/ /\ res'.err = "OK" /\ res'.ino # NoIno
         /\ pc' = next /\ cur' = res'.ino
      \/ /\ ~(res'.err = "OK" /\ res'.ino # NoIno)
         /\ pc' = "idle" /\ cur' = cur
  BY DEF Then
<1>4. FuseTypeOK'
  BY <1>1, <1>2, <1>3 DEF FInv, FuseTypeOK
<1>5. DOMAIN meta \subseteq DOMAIN meta'
  BY DEF Creates, Removes
<1>6. StepGood'
  BY <1>2, <1>3 DEF StepGood, Creates
<1>7. Mounted /\ Mounted'
  BY <1>3 DEF Mounted
<1>8. NobodyHolds' /\ LookupBalance'
  BY <1>1, <1>7 DEF FInv, NobodyHolds, LookupBalance, Get
<1>9. HeldInodesExist'
  BY <1>1, <1>5 DEF FInv, HeldInodesExist
<1>10. UnlinkedGood'
  <2>1. Unlinked \subseteq DOMAIN lookups' \cup purgeFailed'
    BY <1>1 DEF FInv, UnlinkedGood
  <2>2. NoIno \notin Unlinked'
    BY DEF IInv, TablesGood, Good, TypeGood, Unlinked, Ino, NoIno
  <2>3. Unlinked' \subseteq Unlinked \/ (res'.err = "OK" /\ next = "purge"
                                           /\ Unlinked' \subseteq Unlinked \cup {res'.ino})
    BY DEF Creates, Removes
  <2>4. CASE pc' = "idle"
    BY <1>3, <2>1, <2>2, <2>3, <2>4 DEF UnlinkedGood
  <2>5. CASE pc' = next /\ cur' = res'.ino
    BY <2>1, <2>3, <2>5 DEF UnlinkedGood
  <2> QED
    BY <1>3, <2>4, <2>5
<1> QED
  BY <1>4, <1>6, <1>8, <1>9, <1>10 DEF FInv
\* A request for an entry leaves the daemon with an inode that exists.
LEMMA LookupInv ==
    ASSUME FInv, NEW p \in Ino, NEW n \in Names, FuseLookup(p, n)
    PROVE  FInv'
<1>1. PICK r \in Joined(p, n) : pc' = "reply" /\ cur' = r.ino
  BY DEF FuseLookup
<1>2. r.ino \in DOMAIN meta /\ r.ino \in Ino
  BY DEF Joined, FInv, IInv, TablesGood, Good, TypeGood
<1>3. /\ UNCHANGED <<meta, rows, filedata, res>> /\ Unlinked' = Unlinked
      /\ UNCHANGED <<lookups, held, pending, purgeFailed>> /\ pc = "idle"
  BY SameTables DEF FuseLookup, Request
<1>4. IInv'
  BY <1>3 DEF FInv, IInv, TablesGood, DataGood, NoOrphanData
<1>5. FuseTypeOK' /\ StepGood'
  BY <1>1, <1>2, <1>3 DEF FInv, FuseTypeOK, StepGood
<1>6. NobodyHolds' /\ LookupBalance'
  BY <1>1, <1>3 DEF FInv, NobodyHolds, LookupBalance, Mounted, Get
<1>7. HeldInodesExist' /\ UnlinkedGood'
  BY <1>1, <1>3 DEF FInv, HeldInodesExist, UnlinkedGood
<1> QED
  BY <1>4, <1>5, <1>6, <1>7 DEF FInv

\* A FORGET gives back no more than the kernel gave up, so the count stays at
\* least the references that are left.
LEMMA ForgetInv ==
    ASSUME FInv, IInv', NEW i \in Ino, FuseForget(i)
    PROVE  FInv'
<1>0. /\ FuseTypeOK /\ IInv /\ pc = "idle" /\ Mounted
      /\ held \in [Ino -> Nat] /\ pending \in [Ino -> Nat]
      /\ \A j \in Ino : Get(lookups, j) = held[j] + pending[j]
  BY DEF FInv, FuseForget, FuseTypeOK, Mounted, LookupBalance
<1>1. PICK n \in 1..pending[i] :
        pending' = [pending EXCEPT ![i] = @ - n] /\ Forget(i, n)
  BY DEF FuseForget
<1>2. UNCHANGED <<pc, cur, held>>
  BY DEF FuseForget
<1>3. n \in Nat /\ n <= pending[i] /\ n <= Get(lookups, i)
  BY <1>0
<1>4. Forgotten(i, n)
  BY <1>0, <1>1, <1>3, ForgetGood
<1>5. /\ pending' \in [Ino -> Nat]
      /\ pending'[i] = pending[i] - n
      /\ \A j \in Ino \ {i} : pending'[j] = pending[j]
  BY <1>0, <1>1, <1>3
<1>6. FuseTypeOK'
  BY <1>2, <1>4, <1>5 DEF FInv, FuseTypeOK, Forgotten
<1>7. StepGood' /\ NobodyHolds'
  BY <1>0, <1>2 DEF StepGood, NobodyHolds, Mounted
<1>8. LookupBalance'
  <2>1. \A j \in Ino : Get(lookups', j) = held[j] + pending'[j]
    BY <1>0, <1>3, <1>4, <1>5 DEF Forgotten
  <2> QED
    BY <1>2, <2>1 DEF LookupBalance
<1>9. HeldInodesExist'
  <2> SUFFICES ASSUME NEW j \in Ino, held[j] + pending'[j] > 0
               PROVE  j \in DOMAIN meta'
    BY <1>2 DEF HeldInodesExist
  <2>1. held[j] + pending[j] > 0
    BY <1>0, <1>3, <1>5
  <2>2. j \in DOMAIN meta
    BY <2>1 DEF FInv, HeldInodesExist
  <2>3. j = i => Get(lookups, i) > n
    BY <1>0, <1>3, <1>5
  <2> QED
    BY <1>4, <2>2, <2>3 DEF Forgotten
<1>10. UnlinkedGood'
  BY <1>0, <1>2, <1>4 DEF FInv, UnlinkedGood, Forgotten
<1> QED
  BY <1>6, <1>7, <1>8, <1>9, <1>10 DEF FInv

\* A reply that arrives makes the kernel hold an inode that exists, and is counted
\* on both sides; one that does not arrive is counted on neither.
LEMMA ReplyInv ==
    ASSUME FInv, ReplyEntry
    PROVE  FInv'
<1>0. /\ pc = "reply" /\ pc' = "idle" /\ cur' = NoIno /\ Mounted
      /\ UNCHANGED <<pending, purgeFailed>>
      /\ UNCHANGED <<meta, rows, filedata, res>> /\ Unlinked' = Unlinked
  BY SameTables DEF ReplyEntry, Mounted
<1>1. IInv'
  BY <1>0 DEF FInv, IInv, TablesGood, DataGood, NoOrphanData
<1>2. /\ cur \in Ino /\ cur \in DOMAIN meta
      /\ held \in [Ino -> Nat] /\ pending \in [Ino -> Nat]
      /\ DOMAIN lookups \subseteq Ino
      /\ \A j \in DOMAIN lookups : lookups[j] \in Nat \ {0}
      /\ Get(lookups, cur) \in Nat
  BY <1>0 DEF FInv, StepGood, FuseTypeOK, Get
<1>3. CASE UNCHANGED <<lookups, held>>
  <2>1. FuseTypeOK' /\ StepGood' /\ NobodyHolds' /\ LookupBalance'
    BY <1>0, <1>3 DEF FInv, FuseTypeOK, StepGood, NobodyHolds, LookupBalance, Mounted, Get
  <2>2. HeldInodesExist' /\ UnlinkedGood'
    BY <1>0, <1>3 DEF FInv, HeldInodesExist, UnlinkedGood
  <2> QED
    BY <1>1, <2>1, <2>2 DEF FInv
<1>4. CASE /\ lookups' = Update(lookups, cur, 1)
           /\ held' = [held EXCEPT ![cur] = @ + 1]
  <2>1. /\ DOMAIN lookups' \subseteq Ino
        /\ \A j \in DOMAIN lookups' : lookups'[j] \in Nat \ {0}
        /\ Get(Update(lookups, cur, 1), cur) = Get(lookups, cur) + 1
        /\ \A j \in Ino \ {cur} : Get(Update(lookups, cur, 1), j) = Get(lookups, j)
        /\ \A j \in Ino : /\ j \in DOMAIN lookups <=> Get(lookups, j) > 0
                          /\ j \in DOMAIN Update(lookups, cur, 1)
                                 <=> Get(Update(lookups, cur, 1), j) > 0
    BY <1>2, <1>4, UpdateAdds
  <2>2. \A j \in Ino : Get(lookups', j) = Get(Update(lookups, cur, 1), j)
    BY <1>4 DEF Get
  <2>3. /\ held' \in [Ino -> Nat] /\ held'[cur] = held[cur] + 1
        /\ \A j \in Ino \ {cur} : held'[j] = held[j]
    BY <1>2, <1>4
  <2>4. FuseTypeOK'
    BY <1>0, <1>2, <2>1, <2>3 DEF FInv, FuseTypeOK
  <2>5. StepGood' /\ NobodyHolds'
    BY <1>0 DEF StepGood, NobodyHolds, Mounted
  <2>6. LookupBalance'
    <3>1. \A j \in Ino : Get(lookups, j) = held[j] + pending[j]
      BY <1>0 DEF FInv, LookupBalance
    <3>2. \A j \in Ino : Get(lookups', j) = held'[j] + pending[j]
      BY <1>2, <2>1, <2>2, <2>3, <3>1
    <3> QED
      BY <1>0, <3>2 DEF LookupBalance
  <2>7. HeldInodesExist'
    BY <1>0, <1>2, <2>3 DEF FInv, HeldInodesExist
  <2>8. DOMAIN lookups \subseteq DOMAIN lookups'
    BY <1>2, <1>4, <2>1
  <2>9. UnlinkedGood'
    BY <1>0, <2>8 DEF FInv, UnlinkedGood
  <2> QED
    BY <1>1, <2>4, <2>5, <2>6, <2>7, <2>9 DEF FInv
<1> QED
  BY <1>3, <1>4 DEF ReplyEntry

\* maybe_purge() purges an inode only when nobody holds it.
LEMMA MaybePurgeInv ==
    ASSUME FInv, IInv', MaybePurge
    PROVE  FInv'
<1>0. /\ pc = "purge" /\ pc' = "idle" /\ cur' = NoIno /\ Mounted
      /\ UNCHANGED <<held, pending>> /\ cur \in Ino
      /\ FuseTypeOK /\ IInv
      /\ held \in [Ino -> Nat] /\ pending \in [Ino -> Nat]
      /\ \A j \in Ino : Get(lookups, j) = held[j] + pending[j]
  BY DEF MaybePurge, Mounted, FInv, StepGood, FuseTypeOK, LookupBalance
<1>1. Forgotten(cur, 0)
  <2>1. Forget(cur, 0)
    BY DEF MaybePurge
  <2>2. 0 \in Nat /\ 0 <= Get(lookups, cur)
    BY <1>0
  <2> QED
    BY <1>0, <2>1, <2>2, ForgetGood
<1>2. FuseTypeOK'
  BY <1>0, <1>1 DEF FuseTypeOK, Forgotten
<1>3. StepGood' /\ NobodyHolds'
  BY <1>0 DEF StepGood, NobodyHolds, Mounted
<1>4. LookupBalance'
  <2>1. \A j \in Ino : Get(lookups', j) = held[j] + pending[j]
    BY <1>0, <1>1 DEF Forgotten
  <2> QED
    BY <1>0, <2>1 DEF LookupBalance
<1>5. HeldInodesExist'
  BY <1>0, <1>1 DEF FInv, HeldInodesExist, Forgotten
<1>6. UnlinkedGood'
  BY <1>0, <1>1 DEF FInv, UnlinkedGood, Forgotten
<1> QED
  BY <1>2, <1>3, <1>4, <1>5, <1>6 DEF FInv
\* sqlfs_write and sqlfs_set_attr leave all lists alone.
LEMMA FuseSetSizeInv ==
    ASSUME FInv, IInv', NEW i \in Ino, NEW b \in BOOLEAN, FuseSetSize(i, b)
    PROVE  FInv'
<1>1. /\ UNCHANGED <<meta, rows>> /\ Unlinked' = Unlinked
      /\ UNCHANGED <<pc, cur, lookups, held, pending, purgeFailed>>
  BY SetSizeKeeps DEF FuseSetSize, fuseVars
<1>2. FuseTypeOK' /\ StepGood' /\ NobodyHolds' /\ LookupBalance'
  BY <1>1 DEF FInv, FuseTypeOK, StepGood, NobodyHolds, LookupBalance, Mounted, Get
<1>3. HeldInodesExist' /\ UnlinkedGood'
  BY <1>1 DEF FInv, HeldInodesExist, UnlinkedGood
<1> QED
  BY <1>2, <1>3 DEF FInv

\* What the kernel lets go of is on its way as a FORGET.
LEMMA KernelForgetInv ==
    ASSUME FInv, NEW i \in Ino, KernelForget(i)
    PROVE  FInv'
<1>1. /\ UNCHANGED <<meta, rows, filedata, res>> /\ Unlinked' = Unlinked
      /\ UNCHANGED <<pc, cur, lookups, purgeFailed>>
      /\ Mounted
  BY SameTables DEF KernelForget
<1>2. /\ held \in [Ino -> Nat] /\ pending \in [Ino -> Nat]
      /\ \A j \in Ino : Get(lookups, j) = held[j] + pending[j]
  BY <1>1 DEF FInv, FuseTypeOK, LookupBalance
<1>3. /\ held' \in [Ino -> Nat] /\ pending' \in [Ino -> Nat]
      /\ \A j \in Ino : held'[j] + pending'[j] = held[j] + pending[j]
  BY <1>2 DEF KernelForget
<1>4. IInv'
  BY <1>1 DEF FInv, IInv, TablesGood, DataGood, NoOrphanData
<1>5. FuseTypeOK' /\ StepGood' /\ NobodyHolds'
  BY <1>1, <1>3 DEF FInv, FuseTypeOK, StepGood, NobodyHolds, Mounted
<1>6. LookupBalance'
  BY <1>1, <1>2, <1>3 DEF LookupBalance
<1>7. HeldInodesExist' /\ UnlinkedGood'
  BY <1>1, <1>3 DEF FInv, HeldInodesExist, UnlinkedGood
<1> QED
  BY <1>4, <1>5, <1>6, <1>7 DEF FInv

\* Once mounted, nothing is unlinked, whatever the last session left behind.
LEMMA MountInv ==
    ASSUME FInv, IInv', Mount
    PROVE  FInv'
<1>0. pc \in {"down", "stopped"} /\ UNCHANGED <<cur, pending>> /\ PurgeAll
  BY DEF Mount
<1>1. held = NoCounts /\ pending = NoCounts
  BY <1>0 DEF FInv, NobodyHolds, Mounted
<1>2. NoCounts \in [Ino -> Nat] /\ \A i \in Ino : NoCounts[i] = 0
  BY DEF NoCounts
<1>3. CASE /\ res'.err = "OK"
           /\ pc' = "idle"
           /\ lookups' = [i \in {Root} |-> 1]
           /\ held' = [NoCounts EXCEPT ![Root] = 1]
           /\ purgeFailed' = {}
  <2>1. Unlinked' = {}
    BY <1>0, <1>3, PurgeAllPurges
  <2>2. Root \in Ino
    BY MaxInoAssumption DEF Root, Ino
  <2>3. /\ held' \in [Ino -> Nat] /\ held'[Root] = 1
        /\ \A i \in Ino \ {Root} : held'[i] = 0
    BY <1>2, <1>3, <2>2
  <2>4. DOMAIN lookups' = {Root} /\ lookups'[Root] = 1
    BY <1>3
  <2>5. FuseTypeOK'
    BY <1>0, <1>3, <2>2, <2>3, <2>4 DEF FInv, FuseTypeOK
  <2>6. StepGood' /\ NobodyHolds' /\ UnlinkedGood'
    BY <1>3, <2>1 DEF StepGood, NobodyHolds, UnlinkedGood, Mounted
  <2>7. \A i \in Ino : Get(lookups', i) = held'[i] + pending'[i]
    BY <1>0, <1>1, <1>2, <2>3, <2>4 DEF Get
  <2>8. Root \in DOMAIN meta'
    <3>1. Row(Root, "", Root, "dir") \in rows'
      BY DEF IInv, TablesGood, Good, RowsGood, RootGood
    <3> QED
      BY <3>1 DEF IInv, TablesGood, Good, JoinGood, Row
  <2>9. HeldInodesExist'
    BY <1>0, <1>1, <1>2, <2>3, <2>8 DEF HeldInodesExist
  <2>10. LookupBalance'
    BY <2>7 DEF LookupBalance
  <2> QED
    BY <2>5, <2>6, <2>9, <2>10 DEF FInv
<1>4. CASE res'.err # "OK" /\ UNCHANGED <<pc, lookups, held, purgeFailed>>
  <2>1. UNCHANGED <<meta, rows, filedata>>
    BY <1>0, <1>4, PurgeAllPurges
  <2>2. Unlinked' = Unlinked
    BY <2>1 DEF Unlinked
  <2>3. FuseTypeOK' /\ StepGood' /\ NobodyHolds' /\ LookupBalance'
    BY <1>0, <1>4, <2>1 DEF FInv, FuseTypeOK, StepGood, NobodyHolds, LookupBalance, Mounted, Get
  <2>4. HeldInodesExist' /\ UnlinkedGood'
    BY <1>0, <1>4, <2>1, <2>2 DEF FInv, HeldInodesExist, UnlinkedGood
  <2> QED
    BY <2>3, <2>4 DEF FInv
<1> QED
  BY <1>3, <1>4 DEF Mount

\* After the kernel has let go of everything, the counts say what to purge.
LEMMA UnmountInv ==
    ASSUME FInv, Unmount
    PROVE  FInv'
<1>1. /\ UNCHANGED <<meta, rows, filedata, res>> /\ Unlinked' = Unlinked
      /\ UNCHANGED <<cur, lookups, purgeFailed>>
      /\ pc = "idle" /\ pc' = "destroy" /\ held' = NoCounts /\ pending' = NoCounts
  BY SameTables DEF Unmount
<1>2. NoCounts \in [Ino -> Nat] /\ \A i \in Ino : NoCounts[i] = 0
  BY DEF NoCounts
<1>3. IInv'
  BY <1>1 DEF FInv, IInv, TablesGood, DataGood, NoOrphanData
<1>4. FuseTypeOK' /\ StepGood' /\ NobodyHolds'
  BY <1>1, <1>2 DEF FInv, FuseTypeOK, StepGood, NobodyHolds
<1>5. LookupBalance' /\ HeldInodesExist' /\ UnlinkedGood'
  BY <1>1, <1>2 DEF FInv, LookupBalance, Mounted, HeldInodesExist, UnlinkedGood
<1> QED
  BY <1>3, <1>4, <1>5 DEF FInv

\* A turn of the loop of sqlfuse_destroy takes one inode off the counts: it is
\* purged, or its purge has failed.
LEMMA DestroyOneInv ==
    ASSUME FInv, IInv', DestroyOne
    PROVE  FInv'
<1>0. /\ pc = "destroy" /\ UNCHANGED <<pc, cur, held, pending>>
      /\ FuseTypeOK /\ IInv
      /\ held = NoCounts /\ pending = NoCounts
  BY DEF DestroyOne, FInv, NobodyHolds, Mounted
<1>1. PICK i \in DOMAIN lookups : Forget(i, lookups[i])
  BY DEF DestroyOne
<1>2. i \in Ino /\ lookups[i] \in Nat /\ Get(lookups, i) = lookups[i]
  BY <1>0 DEF FuseTypeOK, Get
<1>3. lookups[i] <= Get(lookups, i)
  BY <1>2
<1>4. Forgotten(i, lookups[i])
  BY <1>0, <1>1, <1>2, <1>3, ForgetGood
<1>5. FuseTypeOK'
  BY <1>0, <1>4 DEF FuseTypeOK, Forgotten
<1>6. StepGood' /\ NobodyHolds' /\ LookupBalance'
  BY <1>0 DEF StepGood, NobodyHolds, LookupBalance, Mounted
<1>7. HeldInodesExist'
  BY <1>0 DEF HeldInodesExist, NoCounts
<1>8. UnlinkedGood'
  BY <1>0, <1>4 DEF FInv, UnlinkedGood, Forgotten
<1> QED
  BY <1>5, <1>6, <1>7, <1>8 DEF FInv

\* When the counts are used up, only failed purges leave unlinked inodes.
LEMMA DestroyDoneInv ==
    ASSUME FInv, DestroyDone
    PROVE  FInv'
<1>1. /\ UNCHANGED <<meta, rows, filedata, res>> /\ Unlinked' = Unlinked
      /\ UNCHANGED <<cur, lookups, held, pending, purgeFailed>>
      /\ pc = "destroy" /\ pc' = "stopped" /\ DOMAIN lookups = {}
  BY SameTables DEF DestroyDone
<1>2. IInv'
  BY <1>1 DEF FInv, IInv, TablesGood, DataGood, NoOrphanData
<1>3. FuseTypeOK' /\ StepGood' /\ NobodyHolds' /\ LookupBalance'
  BY <1>1 DEF FInv, FuseTypeOK, StepGood, NobodyHolds, LookupBalance, Mounted
<1>4. HeldInodesExist' /\ UnlinkedGood'
  BY <1>1 DEF FInv, HeldInodesExist, UnlinkedGood
<1> QED
  BY <1>2, <1>3, <1>4 DEF FInv

\* A crash loses the counts, and the kernel's references with them.
LEMMA CrashInv ==
    ASSUME FInv, Crash
    PROVE  FInv'
<1>1. /\ UNCHANGED <<meta, rows, filedata, res>>
      /\ pc' = "down" /\ cur' = NoIno /\ DOMAIN lookups' = {}
      /\ held' = NoCounts /\ pending' = NoCounts /\ purgeFailed' = {}
  BY SameTables DEF Crash
<1>2. NoCounts \in [Ino -> Nat] /\ \A i \in Ino : NoCounts[i] = 0
  BY DEF NoCounts
<1>3. IInv'
  BY <1>1 DEF FInv, IInv, TablesGood, DataGood, NoOrphanData
<1>4. FuseTypeOK' /\ StepGood' /\ NobodyHolds'
  BY <1>1, <1>2 DEF FuseTypeOK, StepGood, NobodyHolds
<1>5. LookupBalance' /\ HeldInodesExist' /\ UnlinkedGood'
  BY <1>1, <1>2 DEF LookupBalance, Mounted, HeldInodesExist, UnlinkedGood
<1> QED
  BY <1>3, <1>4, <1>5 DEF FInv

\* Every request preserves the invariant.
LEMMA ServeInv ==
    ASSUME FInv, IInv', Serve
    PROVE  FInv'
<1>0. IInv
  BY DEF FInv
<1>1. ASSUME NEW p \in Ino, NEW n \in Names, FuseLookup(p, n)
      PROVE  FInv'
  BY <1>1, LookupInv
<1>2. ASSUME NEW p \in Ino, NEW n \in Names, FuseMknod(p, n)
      PROVE  FInv'
  BY <1>0, <1>2, MknodCreates, CallInv DEF FuseMknod, Request
<1>3. ASSUME NEW p \in Ino, NEW n \in Names, FuseMkdir(p, n)
      PROVE  FInv'
  BY <1>0, <1>3, MkdirCreates, CallInv DEF FuseMkdir, Request
<1>4. ASSUME NEW p \in Ino, NEW n \in Names, FuseUnlink(p, n)
      PROVE  FInv'
  BY <1>0, <1>4, RemoveRemoves, CallInv DEF FuseUnlink, Request, Unlink
<1>5. ASSUME NEW p \in Ino, NEW n \in Names, FuseRmdir(p, n)
      PROVE  FInv'
  BY <1>0, <1>5, RemoveRemoves, CallInv DEF FuseRmdir, Request, Rmdir
<1>6. ASSUME NEW p \in Ino, NEW q \in Ino, NEW n \in Names, NEW m \in Names,
             FuseRename(p, n, q, m)
      PROVE  FInv'
  BY <1>0, <1>6, RenameRemoves, CallInv DEF FuseRename, Request
<1>7. ASSUME NEW i \in Ino, NEW b \in BOOLEAN, FuseSetSize(i, b)
      PROVE  FInv'
  BY <1>7, FuseSetSizeInv
<1>8. ASSUME NEW i \in Ino, FuseForget(i)
      PROVE  FInv'
  BY <1>8, ForgetInv
<1> QED
  BY <1>1, <1>2, <1>3, <1>4, <1>5, <1>6, <1>7, <1>8 DEF Serve

\* So does every step.
LEMMA FuseNextInv == FInv /\ [FuseNext]_allVars => FInv'
<1> SUFFICES ASSUME FInv, [FuseNext]_allVars PROVE FInv'
  OBVIOUS
<1>0. IInv'
  BY FuseNextTables
<1>1. CASE Serve
  BY <1>0, <1>1, ServeInv
<1>2. CASE ReplyEntry
  BY <1>2, ReplyInv
<1>3. CASE MaybePurge
  BY <1>0, <1>3, MaybePurgeInv
<1>4. ASSUME NEW i \in Ino, KernelForget(i)
      PROVE  FInv'
  BY <1>4, KernelForgetInv
<1>5. CASE Mount
  BY <1>0, <1>5, MountInv
<1>6. CASE Unmount
  BY <1>6, UnmountInv
<1>7. CASE DestroyOne
  BY <1>0, <1>7, DestroyOneInv
<1>8. CASE DestroyDone
  BY <1>8, DestroyDoneInv
<1>9. CASE Crash
  BY <1>9, CrashInv
<1>10. CASE UNCHANGED allVars
  <2>1. /\ UNCHANGED <<meta, rows, filedata, res>> /\ Unlinked' = Unlinked
        /\ UNCHANGED <<pc, cur, lookups, held, pending, purgeFailed>>
    BY <1>10, SameTables DEF allVars, dbVars, fuseVars
  <2>2. FuseTypeOK' /\ StepGood' /\ NobodyHolds' /\ LookupBalance'
    BY <2>1 DEF FInv, FuseTypeOK, StepGood, NobodyHolds, LookupBalance, Mounted, Get
  <2>3. HeldInodesExist' /\ UnlinkedGood'
    BY <2>1 DEF FInv, HeldInodesExist, UnlinkedGood
  <2> QED
    BY <1>0, <2>2, <2>3 DEF FInv
<1> QED
  BY <1>1, <1>2, <1>3, <1>4, <1>5, <1>6, <1>7, <1>8, <1>9, <1>10 DEF FuseNext

-----------------------------------------------------------------------------
(* The theorems *)

\* The inductive invariant holds of every history of requests, interruptions,
\* mounts and crashes.
THEOREM FuseInvariance == FuseSpec => []FInv
<1>1. FuseInit => FInv
  BY FuseInitInv
<1>2. FInv /\ [FuseNext]_allVars => FInv'
  BY FuseNextInv
<1> QED
  BY <1>1, <1>2, PTL DEF FuseSpec

\* The daemon's state keeps its type: in particular no count in the intmap is
\* zero or negative, which is what intmap_update and sqlfuse_destroy rely on.
THEOREM FuseTypeCorrect == FuseSpec => []FuseTypeOK
<1>1. FInv => FuseTypeOK
  BY DEF FInv
<1> QED
  BY <1>1, FuseInvariance, PTL

\* While mounted, the daemon's count of an inode is the number of references the
\* kernel holds and of those whose FORGET is on its way, whatever was interrupted.
THEOREM LookupsBalance == FuseSpec => []LookupBalance
<1>1. FInv => LookupBalance
  BY DEF FInv
<1> QED
  BY <1>1, FuseInvariance, PTL

\* No inode the kernel refers to is purged, so its number is not given away.
THEOREM HeldExist == FuseSpec => []HeldInodesExist
<1>1. FInv => HeldInodesExist
  BY DEF FInv
<1> QED
  BY <1>1, FuseInvariance, PTL

\* Between requests every unlinked inode is counted or failed to be purged, and a
\* clean unmount leaves only the latter.
THEOREM UnlinkedAccounted == FuseSpec => []UnlinkedIsAccountedFor
<1>1. FInv => UnlinkedIsAccountedFor
  BY DEF FInv, UnlinkedGood, UnlinkedIsAccountedFor
<1> QED
  BY <1>1, FuseInvariance, PTL
=============================================================================
