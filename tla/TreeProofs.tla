----------------------------- MODULE TreeProofs -----------------------------
(***************************************************************************)
(* The tables of Sqlfs implement the tree of FsTree, for any names and any *)
(* number of inodes. Among good tables a row with a name is the one place  *)
(* of the inode it names, so Places is read off the rows one by one, and   *)
(* each call of sqlfs.c is matched with the call of the tree: a refusal    *)
(* with one of the reasons the tree allows, a success with the change the  *)
(* tree makes.                                                             *)
(***************************************************************************)
EXTENDS SqlfsProofs

\* f is the placement that the rows rs describe.
PlacedBy(f, rs) ==
    /\ f = [i \in DOMAIN f |-> f[i]]
    /\ \A i : i \in DOMAIN f <=> \E r \in rs : r.name # "" /\ r.ino = i
    /\ \A r \in rs : r.name # "" => f[r.ino] = <<r.dir, r.name>>

-----------------------------------------------------------------------------
(* Reading the tree off the tables *)

\* Rows that name no inode twice describe one placement.
LEMMA OnePlacement ==
    ASSUME NEW rs, NEW f, NEW g, PlacedBy(f, rs), PlacedBy(g, rs)
    PROVE  f = g
<1>1. DOMAIN f = DOMAIN g
  BY DEF PlacedBy
<1>2. ASSUME NEW i \in DOMAIN f
      PROVE  f[i] = g[i]
  <2>1. PICK r \in rs : r.name # "" /\ r.ino = i
    BY DEF PlacedBy
  <2>2. f[r.ino] = <<r.dir, r.name>> /\ g[r.ino] = <<r.dir, r.name>>
    BY <2>1 DEF PlacedBy
  <2> QED
    BY <2>1, <2>2
<1> QED
  BY <1>1, <1>2 DEF PlacedBy

\* Each linked inode is where its row with a name says.
LEMMA PlacesAre ==
    ASSUME UniqueGood(rows)
    PROVE  PlacedBy(Places, rows)
<1> DEFINE I == {r.ino : r \in {q \in rows : q.name # ""}}
<1>1. /\ DOMAIN Places = I
      /\ Places = [i \in DOMAIN Places |-> Places[i]]
  BY DEF Places
<1>2. ASSUME NEW r \in rows, r.name # ""
      PROVE  Places[r.ino] = <<r.dir, r.name>>
  <2>1. /\ EntryOf(r.ino) \in rows /\ EntryOf(r.ino).name # ""
        /\ EntryOf(r.ino).ino = r.ino
    BY <1>2 DEF EntryOf
  <2>2. EntryOf(r.ino) = r
    BY <1>2, <2>1 DEF UniqueGood
  <2>3. r.ino \in I
    BY <1>2
  <2> QED
    BY <2>2, <2>3 DEF Places
<1> QED
  BY <1>1, <1>2 DEF PlacedBy

\* What the tree is, as far as the calls look at it.
LEMMA TreeIs ==
    ASSUME IInv
    PROVE  /\ PlacedBy(Places, rows)
           /\ DOMAIN Kinds = DOMAIN meta
           /\ \A i \in DOMAIN meta : Kinds[i] = meta[i].type /\ Kinds[i] \in Types
           /\ \A i \in DOMAIN Places : i \in DOMAIN meta /\ i # Root
           /\ \A d, n : \A i : i \in Tree!Child(d, n) <=>
                 n # "" /\ \E r \in RowAt(d, n) : r.ino = i
           /\ \A d : Tree!Children(d) = {}
                 <=> \A r \in rows : ~(r.dir = d /\ r.name # "")
<1>0. Good(meta, rows)
  BY DEF IInv, TablesGood
<1>1. PlacedBy(Places, rows)
  BY <1>0, PlacesAre DEF Good, RowsGood
<1>2. /\ DOMAIN Kinds = DOMAIN meta
      /\ \A i \in DOMAIN meta : Kinds[i] = meta[i].type /\ Kinds[i] \in Types
  BY <1>0 DEF Kinds, Good, TypeGood, MetaRow
<1>3. ASSUME NEW i \in DOMAIN Places
      PROVE  i \in DOMAIN meta /\ i # Root
  <2>1. PICK r \in rows : r.name # "" /\ r.ino = i
    BY <1>1 DEF PlacedBy
  <2> QED
    BY <1>0, <2>1 DEF Good, JoinGood, RowsGood, RootGood
<1>4. ASSUME NEW d, NEW n, NEW i
      PROVE  i \in Tree!Child(d, n) <=> n # "" /\ \E r \in RowAt(d, n) : r.ino = i
  <2>1. ASSUME i \in DOMAIN Places, Places[i] = <<d, n>>
        PROVE  n # "" /\ \E r \in RowAt(d, n) : r.ino = i
    <3>1. PICK r \in rows : r.name # "" /\ r.ino = i
      BY <1>1, <2>1 DEF PlacedBy
    <3>2. <<r.dir, r.name>> = <<d, n>>
      BY <1>1, <2>1, <3>1 DEF PlacedBy
    <3>3. r.dir = d /\ r.name = n
      BY <3>2
    <3> QED
      BY <3>1, <3>3 DEF RowAt
  <2>2. ASSUME n # "", NEW r \in RowAt(d, n), r.ino = i
        PROVE  i \in DOMAIN Places /\ Places[i] = <<d, n>>
    BY <1>1, <2>2 DEF PlacedBy, RowAt
  <2> QED
    BY <2>1, <2>2 DEF Tree!Child
<1>5. ASSUME NEW d
      PROVE  Tree!Children(d) = {} <=> \A r \in rows : ~(r.dir = d /\ r.name # "")
  <2>1. ASSUME NEW r \in rows, r.dir = d, r.name # ""
        PROVE  r.ino \in Tree!Children(d)
    <3>1. r.ino \in DOMAIN Places /\ Places[r.ino] = <<r.dir, r.name>>
      BY <1>1, <2>1 DEF PlacedBy
    <3>2. Places[r.ino][1] = d
      <4>1. <<r.dir, r.name>>[1] = r.dir
        OBVIOUS
      <4> QED
        BY <2>1, <3>1, <4>1, Zenon
    <3> QED
      BY <3>1, <3>2 DEF Tree!Children
  <2>2. ASSUME NEW i \in Tree!Children(d)
        PROVE  \E r \in rows : r.dir = d /\ r.name # ""
    <3>1. i \in DOMAIN Places /\ Places[i][1] = d
      BY DEF Tree!Children
    <3>2. PICK r \in rows : r.name # "" /\ r.ino = i
      BY <1>1, <3>1 DEF PlacedBy
    <3>3. Places[i] = <<r.dir, r.name>>
      BY <1>1, <3>2 DEF PlacedBy
    <3>4. r.dir = d
      BY <3>1, <3>3
    <3> QED
      BY <3>2, <3>4
  <2> QED
    BY <2>1, <2>2
<1> QED
  BY <1>1, <1>2, <1>3, <1>4, <1>5

\* A child in the tree is what a row of that name names.
LEMMA ChildRow ==
    ASSUME IInv, NEW d, NEW n
    PROVE  \A i \in Tree!Child(d, n) : \E r \in RowAt(d, n) : r.ino = i
<1> SUFFICES ASSUME NEW i \in Tree!Child(d, n)
             PROVE  \E r \in RowAt(d, n) : r.ino = i
  OBVIOUS
<1>1. i \in DOMAIN Places /\ Places[i] = <<d, n>> /\ PlacedBy(Places, rows)
  BY TreeIs DEF Tree!Child
<1>2. PICK r \in rows : r.name # "" /\ r.ino = i
  BY <1>1 DEF PlacedBy
<1>3. <<r.dir, r.name>> = <<d, n>>
  BY <1>1, <1>2 DEF PlacedBy
<1>4. r.dir = d /\ r.name = n
  BY <1>3
<1> QED
  BY <1>2, <1>4 DEF RowAt

\* The tree that a call leaves, if rows change so that f is their placement.
LEMMA NewPlaces ==
    ASSUME IInv', NEW f, PlacedBy(f, rows')
    PROVE  Places' = f
<1>1. UniqueGood(rows')
  BY DEF IInv, TablesGood, Good, RowsGood
<1>2. PlacedBy(Places', rows')
  <2>1. UniqueGood(rows)'
    BY <1>1 DEF UniqueGood
  <2>2. PlacedBy(Places, rows)'
    BY <2>1, PlacesAre, PTL
  <2> QED
    BY <2>2 DEF PlacedBy
<1> QED
  BY <1>2, OnePlacement
-----------------------------------------------------------------------------
(* Calls that change no table *)

\* A refused call fails in the tree for the same reason, or for any.
LEMMA TreeRefuses ==
    ASSUME NEW e, NEW E, Fails(e), e \in E \cup {"OK", "EIO"}
    PROVE  Tree!FailsFor(E)
<1>1. PICK f \in E \cup {"EIO"} :
        res' = [err |-> f, ino |-> NoIno] /\ UNCHANGED <<meta, rows>>
  BY DEF Fails, Refuse, Result
<1>2. UNCHANGED <<Kinds, Places>>
  BY <1>1 DEF Kinds, Places, EntryOf
<1> QED
  BY <1>1, <1>2 DEF Tree!FailsFor, Tree!NoIno, NoIno

\* A statement that fails after sqlfs_rename has set *old_ino.
LEMMA TreeRefusesLate ==
    ASSUME NEW i \in Ino, Result("EIO", i), UNCHANGED <<meta, rows>>, NEW E
    PROVE  Tree!FailsFor(E)
<1>1. UNCHANGED <<Kinds, Places>>
  BY DEF Kinds, Places, EntryOf
<1> QED
  BY <1>1 DEF Tree!FailsFor, Result

\* A call that changes no row and no type, and succeeds, purges nothing.
LEMMA TreeStays ==
    ASSUME UNCHANGED <<meta, rows>>, Result("OK", NoIno)
    PROVE  Tree!Purge({}) /\ UNCHANGED <<Kinds, Places>>
<1>1. UNCHANGED <<Kinds, Places>>
  BY DEF Kinds, Places, EntryOf
<1>2. Kinds = Tree!Without(Kinds, {})
  BY DEF Tree!Without, Kinds
<1> QED
  BY <1>1, <1>2 DEF Tree!Purge, Tree!Returns, Result, NoIno, Tree!NoIno

\* The reasons not to use d as a directory are those of sqlfs.c.
LEMMA DirReasonsAre ==
    ASSUME IInv, NEW d
    PROVE  /\ StatDirErr(d) \in Tree!DirReasons(d) \cup {"OK"}
           /\ ParentErr(d) \in Tree!DirReasons(d) \cup {"OK"}
           /\ IsDirectory(d) => Tree!DirReasons(d) = {}
           /\ StatDirErr(d) = "OK" \/ ParentErr(d) = "OK" => IsDirectory(d)
<1>0. Good(meta, rows) /\ DOMAIN Kinds = DOMAIN meta
      /\ \A i \in DOMAIN meta : Kinds[i] = meta[i].type
  BY TreeIs DEF IInv, TablesGood
<1>1. ASSUME d \in DOMAIN meta
      PROVE  StatNlink(d) # 0 \/ meta[d].type # "dir"
  <2>1. meta[d].nlink > 0 \/ meta[d].nlink = 0
    BY <1>0, <1>1, DeadHasNoRows
  <2>2. meta[d].nlink \in Int
    BY <1>0, <1>1 DEF Good, TypeGood, MetaRow
  <2> QED
    BY <2>1, <2>2 DEF StatNlink
<1> QED
  BY <1>0, <1>1 DEF StatDirErr, ParentErr, IsDirectory, Tree!DirReasons, Tree!Exists
-----------------------------------------------------------------------------
(* sqlfs_mkdir and sqlfs_mknod *)

\* A create is refused for a reason the tree gives, and one that is not refused
\* has none against it.
LEMMA TreeCreateErr ==
    ASSUME IInv, NEW d, NEW n \in AnyName, NEW i \in Ino, IsNewIno(i), NEW t
    PROVE  /\ CreateErr(d, n, i, t) \in Tree!CreateReasons(d, n) \cup {"OK"}
           /\ CreateErr(d, n, i, t) = "OK" => Tree!CreateReasons(d, n) = {}
<1>1. RowAt(i, "") = {}
  <2>1. i \notin DOMAIN meta
    BY NewIno
  <2> QED
    BY <2>1 DEF RowAt, IInv, TablesGood, Good, JoinGood
<1>2. CASE n \notin Names
  BY <1>2 DEF CreateErr, Tree!CreateReasons, Tree!NameReasons
<1>3. CASE n \in Names /\ StatDirErr(d) # "OK"
  <2>1. StatDirErr(d) \in Tree!DirReasons(d)
    BY <1>3, DirReasonsAre
  <2> QED
    BY <1>3, <2>1 DEF CreateErr, Tree!CreateReasons
<1>4. CASE n \in Names /\ StatDirErr(d) = "OK"
  <2>1. Tree!DirReasons(d) = {}
    BY <1>4, DirReasonsAre
  <2>2. Tree!NameReasons(n) = {}
    BY <1>4 DEF Tree!NameReasons
  <2>3. Tree!Child(d, n) = {} <=> RowAt(d, n) = {}
    <3>1. n # ""
      BY <1>4, NamesAssumption
    <3> QED
      BY <3>1, TreeIs
  <2> QED
    BY <1>1, <1>4, <2>1, <2>2, <2>3 DEF CreateErr, Tree!CreateReasons
<1> QED
  BY <1>2, <1>3, <1>4

\* A new inode of type t, and its row with a name, are a new leaf of the tree.
LEMMA TreeGrows ==
    ASSUME IInv, IInv', NEW d \in Ino, NotRemoved(d), NEW n \in AnyName,
           NEW i \in Ino, IsNewIno(i), NEW t,
           CreateErr(d, n, i, t) = "OK", Result("OK", i),
           DOMAIN meta' = DOMAIN meta \cup {i},
           \A j \in DOMAIN meta : meta'[j].type = meta[j].type,
           meta'[i].type = t,
           rows \subseteq rows', Row(d, n, i, t) \in rows',
           \A r \in rows' : r.name = "" \/ r \in rows \/ r = Row(d, n, i, t)
    PROVE  Tree!Create(d, n, t)
<1> DEFINE x == Row(d, n, i, t)
           f == Tree!With(Places, i, <<d, n>>)
<1>1. i \notin DOMAIN meta
  BY NewIno
<1>2. n \in Names /\ n # "" /\ IsDirectory(d)
  BY CreateErrs, NamesAssumption
<1>3. x.dir = d /\ x.name = n /\ x.ino = i /\ x \in rows'
  BY DEF Row
<1>4. \A r \in rows' : r.name = "" \/ r \in rows \/ r = x
  OBVIOUS
<1>5. /\ PlacedBy(Places, rows)
      /\ DOMAIN Kinds = DOMAIN meta
      /\ \A j \in DOMAIN meta : Kinds[j] = meta[j].type
      /\ \A j \in DOMAIN Places : j \in DOMAIN meta
  BY TreeIs
<1>6. Kinds' = Tree!With(Kinds, i, t)
  BY <1>1, <1>5 DEF Tree!With, Kinds
<1> HIDE DEF x
<1>7. /\ DOMAIN f = DOMAIN Places \cup {i}
      /\ f[i] = <<d, n>> /\ \A j \in DOMAIN Places : f[j] = Places[j]
      /\ f = [j \in DOMAIN f |-> f[j]]
  BY <1>1, <1>5 DEF Tree!With
<1> HIDE DEF f
<1>8. PlacedBy(f, rows')
  <2>1. \A j : j \in DOMAIN f <=> \E r \in rows' : r.name # "" /\ r.ino = j
    BY <1>2, <1>3, <1>4, <1>5, <1>7 DEF PlacedBy
  <2>2. \A r \in rows' : r.name # "" => f[r.ino] = <<r.dir, r.name>>
    BY <1>3, <1>4, <1>5, <1>7 DEF PlacedBy
  <2> QED
    BY <1>7, <2>1, <2>2 DEF PlacedBy
<1>9. Places' = f
  BY <1>8, NewPlaces
<1>10. Tree!Linked(d)
  <2>1. HasEntry(rows, d)
    BY <1>2, LiveDir
  <2> QED
    BY <1>5, <2>1 DEF HasEntry, PlacedBy, Tree!Linked
<1>11. Tree!CreateReasons(d, n) = {}
  BY TreeCreateErr
<1>12. i \in Ino \ DOMAIN Kinds
  BY <1>1, <1>5
<1> QED
  BY <1>6, <1>9, <1>10, <1>11, <1>12 DEF f, Tree!Create, Tree!Returns, Result

\* sqlfs_mkdir adds a directory to the tree.
LEMMA MkdirOfTree ==
    ASSUME IInv, IInv', NEW d \in Ino, NEW n \in AnyName, NotRemoved(d), Mkdir(d, n)
    PROVE  Tree!Create(d, n, "dir")
<1>1. PICK i \in Ino :
        /\ IsNewIno(i)
        /\ \/ Fails(CreateErr(d, n, i, "dir"))
           \/ /\ CreateErr(d, n, i, "dir") = "OK"
              /\ meta' = InsertMeta(AddLinks(meta, d, 1), i, "dir")
              /\ rows' = rows \cup NewDirRows(d, n, i)
              /\ Result("OK", i)
              /\ UNCHANGED filedata
  BY DEF Mkdir
<1>2. CASE Fails(CreateErr(d, n, i, "dir"))
  <2>1. CreateErr(d, n, i, "dir") \in Tree!CreateReasons(d, n) \cup {"OK", "EIO"}
    BY <1>1, TreeCreateErr
  <2>2. Tree!FailsFor(Tree!CreateReasons(d, n))
    BY <1>2, <2>1, TreeRefuses
  <2> QED
    BY <2>2 DEF Tree!Create
<1>3. CASE /\ CreateErr(d, n, i, "dir") = "OK"
           /\ meta' = InsertMeta(AddLinks(meta, d, 1), i, "dir")
           /\ rows' = rows \cup NewDirRows(d, n, i)
           /\ Result("OK", i)
  <2>1. d \in DOMAIN meta /\ meta \in [DOMAIN meta -> MetaRow]
    BY <1>3, CreateErrs DEF IsDirectory, IInv, TablesGood, Good, TypeGood
  <2>2. i \notin DOMAIN meta
    BY <1>1, NewIno
  <2> DEFINE m1 == AddLinks(meta, d, 1)
  <2>3. DOMAIN m1 = DOMAIN meta /\ \A j \in DOMAIN meta : m1[j].type = meta[j].type
    BY <2>1, AddLinksFacts
  <2> HIDE DEF m1
  <2>4. meta' = InsertMeta(m1, i, "dir")
    BY <1>3 DEF m1
  <2>5. /\ DOMAIN meta' = DOMAIN meta \cup {i}
        /\ \A j \in DOMAIN meta : meta'[j].type = meta[j].type
        /\ meta'[i].type = "dir"
    BY <2>2, <2>3, <2>4 DEF InsertMeta
  <2>6. Row(i, "", d, "dir").name = ""
    BY DEF Row
  <2>7. /\ rows \subseteq rows' /\ Row(d, n, i, "dir") \in rows'
        /\ \A r \in rows' : r.name = "" \/ r \in rows \/ r = Row(d, n, i, "dir")
    BY <1>3, <2>6 DEF NewDirRows
  <2> QED
    BY <1>1, <1>3, <2>5, <2>7, TreeGrows
<1> QED
  BY <1>1, <1>2, <1>3

\* sqlfs_mknod adds a file to the tree.
LEMMA MknodOfTree ==
    ASSUME IInv, IInv', NEW d \in Ino, NEW n \in AnyName, NotRemoved(d), Mknod(d, n)
    PROVE  Tree!Create(d, n, "file")
<1>1. PICK i \in Ino :
        /\ IsNewIno(i)
        /\ \/ Fails(CreateErr(d, n, i, "file"))
           \/ /\ CreateErr(d, n, i, "file") = "OK"
              /\ meta' = InsertMeta(meta, i, "file")
              /\ rows' = rows \cup {Row(d, n, i, "file")}
              /\ Result("OK", i)
              /\ UNCHANGED filedata
  BY DEF Mknod
<1>2. CASE Fails(CreateErr(d, n, i, "file"))
  <2>1. CreateErr(d, n, i, "file") \in Tree!CreateReasons(d, n) \cup {"OK", "EIO"}
    BY <1>1, TreeCreateErr
  <2>2. Tree!FailsFor(Tree!CreateReasons(d, n))
    BY <1>2, <2>1, TreeRefuses
  <2> QED
    BY <2>2 DEF Tree!Create
<1>3. CASE /\ CreateErr(d, n, i, "file") = "OK"
           /\ meta' = InsertMeta(meta, i, "file")
           /\ rows' = rows \cup {Row(d, n, i, "file")}
           /\ Result("OK", i)
  <2>1. i \notin DOMAIN meta
    BY <1>1, NewIno
  <2>2. /\ DOMAIN meta' = DOMAIN meta \cup {i}
        /\ \A j \in DOMAIN meta : meta'[j].type = meta[j].type
        /\ meta'[i].type = "file"
    BY <1>3, <2>1 DEF InsertMeta
  <2>3. /\ rows \subseteq rows' /\ Row(d, n, i, "file") \in rows'
        /\ \A r \in rows' : r.name = "" \/ r \in rows \/ r = Row(d, n, i, "file")
    BY <1>3
  <2> QED
    BY <1>1, <1>3, <2>2, <2>3, TreeGrows
<1> QED
  BY <1>1, <1>2, <1>3
-----------------------------------------------------------------------------
(* sqlfs_rmdir and sqlfs_unlink *)

\* A set of one row does not count as more.
LEMMA NotMoreThanOne ==
    ASSUME NEW y
    PROVE  ~(Cardinality({y}) > 1)
  BY FS_Singleton

\* remove_impl() refuses the child that row x names for a reason the tree gives,
\* and has none left when the tree has none.
LEMMA TreeRemoveErr ==
    ASSUME IInv, NEW x \in rows, x.name # "",
           NEW c, c.ino = x.ino, c.type = x.type,
           NEW isDir \in BOOLEAN, NEW k, k = IF isDir THEN "dir" ELSE "file"
    PROVE  /\ RemoveErr(x.dir, c, isDir) \in Tree!RemoveReasons(x.ino, k) \cup {"OK"}
           /\ RemoveErr(x.dir, c, isDir) = "OK" => Tree!RemoveReasons(x.ino, k) = {}
<1>0. Good(meta, rows)
  BY DEF IInv, TablesGood
<1>1. /\ x.ino \in DOMAIN meta /\ x.dir \in DOMAIN meta
      /\ Kinds[x.ino] = c.type /\ c.type \in Types /\ c.ino # Root
  <2>1. x.ino \in DOMAIN meta /\ x.dir \in DOMAIN meta /\ meta[x.ino].type = c.type
    BY <1>0 DEF Good, JoinGood
  <2>2. x.ino # Root
    BY <1>0 DEF Good, RowsGood, RootGood
  <2> QED
    BY <2>1, <2>2, TreeIs
<1>2. CASE isDir = FALSE
  <2>1. Tree!RemoveReasons(x.ino, k) = IF c.type # "file" THEN {"EISDIR"} ELSE {}
    BY <1>1, <1>2 DEF Tree!RemoveReasons
  <2>2. RemoveErr(x.dir, c, isDir) = IF c.type = "dir" THEN "EISDIR" ELSE "OK"
    BY <1>1, <1>2 DEF RemoveErr
  <2> QED
    BY <1>1, <2>1, <2>2 DEF Types
<1>3. CASE isDir = TRUE /\ c.type # "dir"
  BY <1>1, <1>3 DEF RemoveErr, Tree!RemoveReasons
<1>4. CASE isDir = TRUE /\ c.type = "dir"
  <2> DEFINE y == Row(x.ino, "", x.dir, "dir")
  <2>1. y \in Entries(x.ino)
    BY <1>4, FoundRow
  <2>2. y.name = "" /\ y.dir = x.ino
    BY DEF Row
  <2> HIDE DEF y
  <2>3. x.ino # x.dir
    <3>1. HasEntry(rows, x.ino)
      BY DEF HasEntry
    <3>2. PICK r \in rows : r.name # "" /\ r.ino \in {x.ino} /\ r.dir \notin {x.ino}
      <4>1. Root \notin {x.ino} /\ {x.ino} # {} /\ \A i \in {x.ino} : HasEntry(rows, i)
        BY <1>1, <3>1
      <4> QED
        BY <1>0, <4>1 DEF Good, RowsGood, ReachGood
    <3>3. r = x
      BY <1>0, <3>2 DEF Good, RowsGood, UniqueGood
    <3> QED
      BY <3>2, <3>3
  <2>4. Tree!Children(x.ino) = {} <=> ~(Cardinality(Entries(x.ino)) > 1)
    <3>1. CASE Tree!Children(x.ino) = {}
      <4>1. \A r \in rows : ~(r.dir = x.ino /\ r.name # "")
        BY <3>1, TreeIs
      <4>2. Entries(x.ino) = {y}
        BY <1>0, <2>1, <2>2, <4>1 DEF Entries, Good, RowsGood, KeyGood
      <4>4. ~(Cardinality(Entries(x.ino)) > 1)
        BY <4>2, NotMoreThanOne
      <4> QED
        BY <3>1, <4>4
    <3>2. CASE Tree!Children(x.ino) # {}
      <4>1. PICK r \in rows : r.dir = x.ino /\ r.name # ""
        BY <3>2, TreeIs
      <4>2. r \in Entries(x.ino) /\ r # y
        BY <2>2, <4>1 DEF Entries
      <4>3. Cardinality(Entries(x.ino)) > 1
        BY <2>1, <4>2, TwoEntries
      <4> QED
        BY <3>2, <4>3
    <3> QED
      BY <3>1, <3>2
  <2>5. Entries(c.ino) # {} /\ {x.dir, c.ino} \subseteq DOMAIN meta
    BY <1>1, <2>1
  <2>6. RemoveErr(x.dir, c, isDir) =
            IF Cardinality(Entries(x.ino)) > 1 THEN "ENOTEMPTY" ELSE "OK"
    BY <1>1, <1>4, <2>3, <2>5 DEF RemoveErr
  <2>7. Tree!RemoveReasons(x.ino, k) =
            IF Tree!Children(x.ino) # {} THEN {"ENOTEMPTY"} ELSE {}
    BY <1>1, <1>4 DEF Tree!RemoveReasons
  <2> QED
    BY <2>4, <2>6, <2>7
<1> QED
  BY <1>2, <1>3, <1>4

\* Of the rows with a name in rs, all but x are in rt.
NamesBut(x, rs, rt) == \A r : r.name # "" => (r \in rt <=> r \in rs /\ r # x)

\* Of the rows with a name, remove_impl() deletes the one it was called for.
LEMMA OneNameGoes ==
    ASSUME IInv, NEW x \in rows, x.name # "", NEW c, NEW isDir,
           RemovesWell(x.dir, x.name, c, isDir)
    PROVE  NamesBut(x, rows, RemovedRows(x.dir, x.name, c, isDir))
<1> SUFFICES ASSUME NEW r, r.name # ""
             PROVE  r \in RemovedRows(x.dir, x.name, c, isDir) <=> r \in rows /\ r # x
  BY DEF NamesBut
<1>1. r \in RemovedRows(x.dir, x.name, c, isDir) => r \in rows /\ r # x
  BY DEF RemovedRows
<1>2. ASSUME r \in rows, r # x
      PROVE  r \in RemovedRows(x.dir, x.name, c, isDir)
  <2>1. ~(r.dir = x.dir /\ r.name = x.name)
    BY <1>2 DEF IInv, TablesGood, Good, RowsGood, KeyGood
  <2> QED
    BY <1>2, <2>1 DEF RemovesWell
<1> QED
  BY <1>1, <1>2

\* Without its row with a name, an inode is no longer in the tree.
LEMMA LeafGone ==
    ASSUME NEW f, NEW rs, PlacedBy(f, rs), UniqueGood(rs), NEW x \in rs, x.name # "",
           NEW rt, NamesBut(x, rs, rt)
    PROVE  PlacedBy(Tree!Without(f, {x.ino}), rt)
<1> DEFINE g == Tree!Without(f, {x.ino})
<1>1. /\ DOMAIN g = DOMAIN f \ {x.ino}
      /\ \A j \in DOMAIN g : g[j] = f[j]
      /\ g = [j \in DOMAIN g |-> g[j]]
  BY DEF Tree!Without
<1> HIDE DEF g
<1> USE DEF NamesBut
<1>2. \A r \in rs : r.name # "" /\ r # x => r.ino # x.ino
  BY DEF UniqueGood
<1>3. \A j : j \in DOMAIN g <=> \E r \in rt : r.name # "" /\ r.ino = j
  <2>1. ASSUME NEW j \in DOMAIN g
        PROVE  \E r \in rt : r.name # "" /\ r.ino = j
    <3>1. PICK r \in rs : r.name # "" /\ r.ino = j
      BY <1>1, <2>1 DEF PlacedBy
    <3> QED
      BY <1>1, <3>1
  <2>2. ASSUME NEW r \in rt, r.name # ""
        PROVE  r.ino \in DOMAIN g
    <3>1. r \in rs /\ r # x
      BY <2>2
    <3> QED
      BY <1>1, <1>2, <2>2, <3>1 DEF PlacedBy
  <2> QED
    BY <2>1, <2>2
<1>4. ASSUME NEW r \in rt, r.name # ""
      PROVE  g[r.ino] = <<r.dir, r.name>>
  <2>1. r \in rs /\ r # x
    BY <1>4
  <2>2. f[r.ino] = <<r.dir, r.name>>
    BY <1>4, <2>1 DEF PlacedBy
  <2>3. r.ino \in DOMAIN g
    BY <1>3, <1>4
  <2> QED
    BY <1>1, <2>2, <2>3
<1> QED
  BY <1>1, <1>3, <1>4 DEF PlacedBy, g

\* The types of the inodes are those of the tree.
LEMMA SameKinds ==
    ASSUME SameTypes(meta, meta')
    PROVE  UNCHANGED Kinds
  BY DEF SameTypes, Kinds

\* remove_impl() removes a leaf of the tree, or refuses as the tree does.
LEMMA RemoveOfTree ==
    ASSUME IInv, IInv', NEW d \in Ino, NEW n \in AnyName,
           NEW isDir \in BOOLEAN, Remove(d, n, isDir),
           NEW k, k = IF isDir THEN "dir" ELSE "file"
    PROVE  Tree!Remove(d, n, k)
<1>0. Good(meta, rows)
  BY DEF IInv, TablesGood
<1> DEFINE E == {"EINVAL", "EBUSY", "ENOTEMPTY", "EISDIR", "ENOTDIR"}
<1>1. CASE n = "" /\ Fails("EINVAL")
  <2>1. Tree!FailsFor(E) /\ n \notin Names
    BY <1>1, TreeRefuses, NamesAssumption
  <2> QED
    BY <2>1 DEF Tree!Remove
<1>2. CASE n # "" /\ Found(d, n) = {} /\ Fails("ENOENT")
  <2>1. Tree!Child(d, n) = {}
    <3> SUFFICES ASSUME NEW i \in Tree!Child(d, n) PROVE FALSE
      OBVIOUS
    <3>0. \E r \in RowAt(d, n) : r.ino = i
      BY ChildRow
    <3>1. PICK r \in RowAt(d, n) : r.ino = i
      BY <3>0
    <3>2. r \in rows /\ r.name = n
      BY DEF RowAt
    <3>3. n \notin {".", ".."}
      BY <1>0, <1>2, <3>2, RowFields, NamesAssumption DEF Good, TypeGood, RowNames
    <3>4. [ino |-> r.ino, type |-> r.type] \in Found(d, n)
      BY <3>1, <3>3 DEF Found
    <3> QED
      BY <1>2, <3>4
  <2>2. Tree!FailsFor({"ENOENT"})
    BY <1>2, TreeRefuses
  <2> QED
    BY <2>1, <2>2 DEF Tree!Remove
<1>3. ASSUME n \in Names, NEW c \in Found(d, n)
      PROVE  \E x \in rows : /\ x.dir = d /\ x.name = n /\ x.name # ""
                             /\ c.ino = x.ino /\ c.type = x.type
                             /\ x.ino \in Tree!Child(d, n)
  <2>1. n # "" /\ n # "." /\ n # ".."
    BY <1>3, NamesAssumption
  <2>2. PICK x \in RowAt(d, n) : c.ino = x.ino /\ c.type = x.type
    BY <2>1, FoundCases
  <2>3. x.ino \in Tree!Child(d, n)
    BY <2>1, TreeIs
  <2> QED
    BY <2>1, <2>2, <2>3 DEF RowAt
<1>4. ASSUME n # "", NEW c \in Found(d, n), Fails(RemoveErr(d, c, isDir))
      PROVE  Tree!Remove(d, n, k)
  <2>1. CASE n \in Names
    <3>1. PICK x \in rows : /\ x.dir = d /\ x.name = n /\ x.name # ""
                            /\ c.ino = x.ino /\ c.type = x.type
                            /\ x.ino \in Tree!Child(d, n)
      BY <1>3, <2>1
    <3>2. RemoveErr(d, c, isDir) \in Tree!RemoveReasons(x.ino, k) \cup {"OK", "EIO"}
      BY <3>1, TreeRemoveErr
    <3>3. Tree!FailsFor(Tree!RemoveReasons(x.ino, k))
      BY <1>4, <3>2, TreeRefuses
    <3> QED
      BY <3>1, <3>3 DEF Tree!Remove
  <2>2. CASE n \notin Names
    <3>1. n \in {".", ".."}
      BY <1>4, <2>2 DEF AnyName, RowNames
    <3>2. RemoveErr(d, c, isDir) \in E \cup {"OK", "EIO"}
      <4>1. c.ino \in DOMAIN meta \/ c.ino = d
        <5>1. CASE n = "."
          BY <5>1, FoundCases
        <5>2. CASE n = ".."
          BY <1>0, <5>2, FoundCases DEF Good, JoinGood
        <5> QED
          BY <3>1, <5>1, <5>2
      <4>2. CASE isDir = FALSE
        <5>1. c.type # "dir" => c.ino \in DOMAIN meta
          <6>1. CASE n = "."
            BY <6>1, FoundCases
          <6>2. CASE n = ".."
            BY <1>0, <6>2, FoundCases DEF Good, JoinGood
          <6> QED
            BY <3>1, <6>1, <6>2
        <5> QED
          BY <4>2, <5>1 DEF RemoveErr
      <4>3. CASE isDir = TRUE
        <5>1. RemoveErr(d, c, TRUE) # "ABORT"
          BY <1>4, RemoveDirErr
        <5>2. c.type = "dir" /\ c.ino # d => {d, c.ino} \subseteq DOMAIN meta
          <6>1. CASE n = "."
            BY <6>1, FoundCases
          <6>2. CASE n = ".."
            <7>1. PICK r \in rows : r.dir = d /\ c.ino = r.ino
              BY <6>2, FoundCases
            <7> QED
              BY <1>0, <7>1 DEF Good, JoinGood
          <6> QED
            BY <3>1, <6>1, <6>2
        <5>3. RemoveErr(d, c, TRUE) # "ENOENT"
          BY <5>2 DEF RemoveErr
        <5>4. RemoveErr(d, c, TRUE)
                \in {"ENOTDIR", "EBUSY", "EINVAL", "ENOTEMPTY", "ABORT", "OK", "ENOENT"}
          BY DEF RemoveErr
        <5> QED
          BY <4>3, <5>1, <5>3, <5>4
      <4> QED
        BY <4>2, <4>3
    <3>3. Tree!FailsFor(E)
      BY <1>4, <3>2, TreeRefuses
    <3> QED
      BY <2>2, <3>3 DEF Tree!Remove
  <2> QED
    BY <2>1, <2>2
<1>5. ASSUME n # "", NEW c \in Found(d, n), RemoveErr(d, c, isDir) = "OK",
             meta' = RemovedMeta(d, c, isDir), rows' = RemovedRows(d, n, c, isDir),
             Result("OK", c.ino)
      PROVE  Tree!Remove(d, n, k)
  <2>1. n \in Names
    <3>1. \E x \in rows : x.name = n
      <4>1. CASE isDir = TRUE
        <5>1. EmptyDirEntry(d, n, c)
          BY <1>5, <4>1, RemoveDirErr
        <5> QED
          BY <5>1 DEF EmptyDirEntry
      <4>2. CASE isDir = FALSE
        <5>1. FileEntry(d, n, c)
          BY <1>5, <4>2, RemoveFileErr
        <5> QED
          BY <5>1 DEF FileEntry
      <4> QED
        BY <4>1, <4>2
    <3>2. n \in RowNames
      BY <1>0, <3>1, RowFields DEF Good, TypeGood
    <3> QED
      BY <1>5, <3>2 DEF RowNames
  <2>2. PICK x \in rows : /\ x.dir = d /\ x.name = n /\ x.name # ""
                          /\ c.ino = x.ino /\ c.type = x.type
                          /\ x.ino \in Tree!Child(d, n)
    BY <1>3, <2>1, <1>5
  <2>3. Tree!RemoveReasons(x.ino, k) = {}
    BY <1>5, <2>2, TreeRemoveErr
  <2>4. RemovesWell(d, n, c, isDir)
    BY <1>5, RemoveGood
  <2>5. UNCHANGED Kinds
    BY <1>5, <2>4, SameKinds DEF RemovesWell
  <2>6. PlacedBy(Tree!Without(Places, {x.ino}), rows')
    <3>1. RemovesWell(x.dir, x.name, c, isDir) /\ rows' = RemovedRows(x.dir, x.name, c, isDir)
      BY <1>5, <2>2, <2>4
    <3>2. NamesBut(x, rows, rows')
      BY <2>2, <3>1, OneNameGoes
    <3>3. PlacedBy(Places, rows) /\ UniqueGood(rows)
      BY <1>0, TreeIs DEF Good, RowsGood
    <3> QED
      BY <2>2, <3>2, <3>3, LeafGone
  <2>7. Places' = Tree!Without(Places, {x.ino})
    BY <2>6, NewPlaces
  <2> QED
    BY <1>5, <2>2, <2>3, <2>5, <2>7 DEF Tree!Remove, Tree!Returns, Result
<1> QED
  BY <1>1, <1>2, <1>4, <1>5 DEF Remove
-----------------------------------------------------------------------------
(* sqlfs_rename *)

\* A rename is refused, before anything changes, for a reason the tree gives;
\* one that goes on has none against it, and finds its entry.
LEMMA TreeRenameErr ==
    ASSUME IInv, NEW d, NEW e, NEW n \in RowNames, NEW m \in RowNames
    PROVE  /\ RenameParentsErr(d, n, e, m)
                \in Tree!RenameReasons(d, n, e, m) \cup {"OK"}
           /\ RenameParentsErr(d, n, e, m) = "OK" =>
                Tree!RenameReasons(d, n, e, m) = {}
<1>1. CASE n \notin Names \/ m \notin Names
  BY <1>1 DEF RenameParentsErr, Tree!RenameReasons, Tree!NameReasons
<1>2. CASE n \in Names /\ m \in Names /\ ParentErr(d) # "OK"
  <2>1. ParentErr(d) \in Tree!DirReasons(d)
    BY <1>2, DirReasonsAre
  <2> QED
    BY <1>2, <2>1 DEF RenameParentsErr, Tree!RenameReasons
<1>3. CASE n \in Names /\ m \in Names /\ ParentErr(d) = "OK" /\ ParentErr(e) # "OK"
  <2>1. ParentErr(e) \in Tree!DirReasons(e)
    BY <1>3, DirReasonsAre
  <2> QED
    BY <1>3, <2>1 DEF RenameParentsErr, Tree!RenameReasons
<1>4. CASE n \in Names /\ m \in Names /\ ParentErr(d) = "OK" /\ ParentErr(e) = "OK"
  <2>1. Tree!DirReasons(d) = {} /\ Tree!DirReasons(e) = {}
    BY <1>4, DirReasonsAre
  <2>2. Tree!NameReasons(n) = {} /\ Tree!NameReasons(m) = {}
    BY <1>4 DEF Tree!NameReasons
  <2>3. Joined(d, n) = RowAt(d, n)
    BY DEF Joined, RowAt, IInv, TablesGood, Good, JoinGood
  <2>4. Tree!Child(d, n) = {} <=> RowAt(d, n) = {}
    <3>1. n # ""
      BY <1>4, NamesAssumption
    <3> QED
      BY <3>1, TreeIs
  <2> QED
    BY <1>4, <2>1, <2>2, <2>3, <2>4 DEF RenameParentsErr, Tree!RenameReasons
<1> QED
  BY <1>1, <1>2, <1>3, <1>4

\* Of the rows with a name in rs, only r has changed in rt: it is y there.
NameMoves(r, y, rs, rt) ==
    \A q : q.name # "" => (q \in rt <=> (q \in rs /\ q # r) \/ q = y)

\* The two UPDATEs of sqlfs_rename move one row with a name.
LEMMA OneNameMoves ==
    ASSUME NEW rs, rs \subseteq DirRow, NEW r \in rs, r.name # "",
           NEW e, NEW m, m # ""
    PROVE  NameMoves(r, Row(e, m, r.ino, r.type), rs, MovedRows(rs, r, e, m))
<1> DEFINE y == Row(e, m, r.ino, r.type)
           moved == (rs \ {r}) \cup {y}
<1>1. y.name # ""
  BY DEF Row
<1>2. CASE meta[r.ino].type = "dir" /\ r.dir # e
  <2>1. MovedRows(rs, r, e, m) = {WithParent(q, r.ino, e) : q \in moved}
    BY <1>2 DEF MovedRows, WithParent
  <2>2. \A q \in moved : WithParent(q, r.ino, e).name = q.name
    <3> SUFFICES ASSUME NEW q \in moved
                 PROVE  WithParent(q, r.ino, e).name = q.name
      OBVIOUS
    <3>1. CASE q.dir = r.ino /\ q.name = ""
      <4>1. q \in DirRow
        BY <1>1, <3>1
      <4> QED
        BY <3>1, <4>1 DEF WithParent, DirRow
    <3>2. CASE ~(q.dir = r.ino /\ q.name = "")
      BY <3>2 DEF WithParent
    <3> QED
      BY <3>1, <3>2
  <2>3. \A q \in moved : q.name # "" => WithParent(q, r.ino, e) = q
    BY DEF WithParent
  <2> HIDE DEF moved, y
  <2>4. \A q : q.name # "" => (q \in MovedRows(rs, r, e, m) <=> q \in moved)
    BY <2>1, <2>2, <2>3
  <2> QED
    BY <2>4 DEF NameMoves, moved, y
<1>3. CASE ~(meta[r.ino].type = "dir" /\ r.dir # e)
  <2>1. MovedRows(rs, r, e, m) = moved
    BY <1>3 DEF MovedRows
  <2> HIDE DEF y
  <2> QED
    BY <2>1 DEF NameMoves, y
<1> QED
  BY <1>2, <1>3

\* The inode that the row names moves in the tree.
LEMMA LeafMoves ==
    ASSUME NEW f, NEW rs, PlacedBy(f, rs), UniqueGood(rs), NEW r \in rs, r.name # "",
           NEW y, y.name # "", y.ino = r.ino, NEW rt, NameMoves(r, y, rs, rt)
    PROVE  PlacedBy([f EXCEPT ![r.ino] = <<y.dir, y.name>>], rt)
<1> DEFINE g == [f EXCEPT ![r.ino] = <<y.dir, y.name>>]
<1>0. r.ino \in DOMAIN f /\ f = [j \in DOMAIN f |-> f[j]]
  BY DEF PlacedBy
<1>1. /\ DOMAIN g = DOMAIN f
      /\ g[r.ino] = <<y.dir, y.name>>
      /\ \A j \in DOMAIN f : j # r.ino => g[j] = f[j]
      /\ g = [j \in DOMAIN g |-> g[j]]
  BY <1>0
<1> HIDE DEF g
<1>2. \A q \in rs : q.name # "" /\ q # r => q.ino # r.ino
  BY DEF UniqueGood
<1>3. y \in rt
  BY DEF NameMoves
<1>4. \A j : j \in DOMAIN g <=> \E q \in rt : q.name # "" /\ q.ino = j
  <2>1. ASSUME NEW j \in DOMAIN g
        PROVE  \E q \in rt : q.name # "" /\ q.ino = j
    <3>1. PICK q \in rs : q.name # "" /\ q.ino = j
      BY <1>1, <2>1 DEF PlacedBy
    <3>2. CASE q = r
      BY <1>3, <3>1, <3>2
    <3>3. CASE q # r
      BY <3>1, <3>3 DEF NameMoves
    <3> QED
      BY <3>2, <3>3
  <2>2. ASSUME NEW q \in rt, q.name # ""
        PROVE  q.ino \in DOMAIN g
    <3>1. (q \in rs /\ q # r) \/ q = y
      BY <2>2 DEF NameMoves
    <3> QED
      BY <1>0, <1>1, <2>2, <3>1 DEF PlacedBy
  <2> QED
    BY <2>1, <2>2
<1>5. ASSUME NEW q \in rt, q.name # ""
      PROVE  g[q.ino] = <<q.dir, q.name>>
  <2>1. (q \in rs /\ q # r) \/ q = y
    BY <1>5 DEF NameMoves
  <2>2. CASE q = y
    BY <1>1, <2>2
  <2>3. CASE q \in rs /\ q # r
    <3>1. f[q.ino] = <<q.dir, q.name>> /\ q.ino \in DOMAIN f
      BY <1>5, <2>3 DEF PlacedBy
    <3>2. q.ino # r.ino
      BY <1>2, <1>5, <2>3
    <3> QED
      BY <1>1, <3>1, <3>2
  <2> QED
    BY <2>1, <2>2, <2>3
<1> QED
  BY <1>1, <1>4, <1>5 DEF PlacedBy, g

\* The changes of link counts in sqlfs_rename keep the types.
LEMMA MovedKinds ==
    ASSUME NEW mt, mt \in [DOMAIN mt -> MetaRow], SameTypes(meta, mt),
           NEW r, r.dir \in DOMAIN mt, NEW e \in DOMAIN mt
    PROVE  SameTypes(meta, MovedMeta(mt, r, e))
<1>1. CASE meta[r.ino].type = "dir" /\ r.dir # e
  <2>1. SameTypes(mt, AddLinks(AddLinks(mt, r.dir, -1), e, 1))
    BY LinksKeepTypesTwice
  <2> QED
    BY <1>1, <2>1 DEF SameTypes, MovedMeta
<1>2. CASE ~(meta[r.ino].type = "dir" /\ r.dir # e)
  BY <1>2 DEF MovedMeta
<1> QED
  BY <1>1, <1>2

\* r is an entry of d under the regular name n, in tables and tree.
RegularEntry(d, n, r) ==
    /\ r \in rows /\ r.dir = d /\ r.name = n /\ r.name # ""
    /\ r.ino \in Tree!Child(d, n)
    /\ r.ino \in DOMAIN meta /\ r.dir \in DOMAIN meta

\* What a rename has found when it goes on: its entry, under a regular name.
LEMMA MovingEntry ==
    ASSUME IInv, NEW d, NEW n \in Names, NEW r \in Joined(d, n)
    PROVE  RegularEntry(d, n, r)
<1>1. r \in RowAt(d, n) /\ n # ""
  BY NamesAssumption DEF Joined
<1>2. r.ino \in Tree!Child(d, n)
  BY <1>1, TreeIs
<1> QED
  BY <1>1, <1>2 DEF RegularEntry, RowAt, IInv, TablesGood, Good, JoinGood
\* The target name is free: the inode moves there.
LEMMA ToFreeOfTree ==
    ASSUME IInv, IInv', NEW d \in Ino, NEW n \in Names, NEW r \in Joined(d, n),
           NEW e \in Ino, NEW m \in Names, IsDirectory(e),
           Joined(e, m) = {}, RenameToFree(r, e, m),
           Tree!RenameReasons(d, n, e, m) = {}
    PROVE  Tree!Rename(d, n, e, m)
<1>0. Good(meta, rows)
  BY DEF IInv, TablesGood
<1>1. CASE Fails(MoveErr(rows, r, e, m))
  <2>1. MoveErr(rows, r, e, m) \in Tree!RenameReasons(d, n, e, m) \cup {"OK", "EIO"}
    BY DEF MoveErr
  <2>2. Tree!FailsFor(Tree!RenameReasons(d, n, e, m))
    BY <1>1, <2>1, TreeRefuses
  <2> QED
    BY <2>2 DEF Tree!Rename
<1>2. CASE /\ meta' = MovedMeta(meta, r, e)
           /\ rows' = MovedRows(rows, r, e, m)
           /\ Result("OK", NoIno)
  <2> DEFINE y == Row(e, m, r.ino, r.type)
  <2>1. y.dir = e /\ y.name = m /\ y.ino = r.ino /\ m # ""
    BY NamesAssumption DEF Row
  <2>2. /\ r \in rows /\ r.name # "" /\ r.ino \in Tree!Child(d, n)
        /\ r.dir \in DOMAIN meta
    BY MovingEntry DEF RegularEntry
  <2>3. e \in DOMAIN meta /\ meta \in [DOMAIN meta -> MetaRow] /\ SameTypes(meta, meta)
    BY <1>0 DEF IsDirectory, Good, TypeGood, SameTypes
  <2>4. UNCHANGED Kinds
    BY <1>2, <2>2, <2>3, MovedKinds, SameKinds
  <2>5. NameMoves(r, y, rows, rows')
    BY <1>0, <1>2, <2>1, <2>2, OneNameMoves DEF Good, TypeGood
  <2>6. PlacedBy(Places, rows) /\ UniqueGood(rows)
    BY <1>0, TreeIs DEF Good, RowsGood
  <2> HIDE DEF y
  <2>7. PlacedBy([Places EXCEPT ![r.ino] = <<y.dir, y.name>>], rows')
    <3>1. y.name # ""
      BY <2>1
    <3> QED
      BY <2>1, <2>2, <2>5, <2>6, <3>1, LeafMoves
  <2>8. Places' = [Places EXCEPT ![r.ino] = <<e, m>>]
    BY <2>1, <2>7, NewPlaces
  <2>9. Tree!Child(e, m) \subseteq {r.ino}
    <3>1. RowAt(e, m) = {}
      BY <1>0 DEF Joined, RowAt, Good, JoinGood
    <3>2. Tree!Child(e, m) = {}
      BY <2>1, <3>1, TreeIs
    <3> QED
      BY <3>2
  <2> QED
    BY <1>2, <2>2, <2>4, <2>8, <2>9
    DEF Tree!Rename, Tree!Returns, Result, NoIno, Tree!NoIno
<1> QED
  BY <1>1, <1>2 DEF RenameToFree

\* Two entries that name one inode are one.
LEMMA SameEntry ==
    ASSUME IInv, NEW d, NEW n \in Names, NEW r \in Joined(d, n),
           NEW e, NEW m \in Names, NEW t \in Joined(e, m)
    PROVE  t.ino = r.ino => t = r
<1>1. r \in rows /\ r.name # "" /\ t \in rows /\ t.name # ""
  BY NamesAssumption DEF Joined, RowAt
<1> QED
  BY <1>1 DEF IInv, TablesGood, Good, RowsGood, UniqueGood

\* The target is the entry itself: nothing moves.
LEMMA InPlaceOfTree ==
    ASSUME IInv, NEW d \in Ino, NEW n \in Names,
           NEW e \in Ino, NEW m \in Names,
           NEW r \in Joined(d, n), r \in Joined(e, m),
           Result("OK", NoIno), UNCHANGED <<meta, rows>>,
           Tree!RenameReasons(d, n, e, m) = {}
    PROVE  Tree!Rename(d, n, e, m)
<1>0. Good(meta, rows)
  BY DEF IInv, TablesGood
<1>1. r \in rows /\ r.name # "" /\ r.ino \in Tree!Child(d, n)
  BY MovingEntry DEF RegularEntry
<1>2. r.dir = e /\ r.name = m
  BY DEF Joined, RowAt
<1>3. PlacedBy(Places, rows)
  BY TreeIs
<1>4. Places[r.ino] = <<e, m>>
  BY <1>1, <1>2, <1>3 DEF PlacedBy
<1>5. Places = [Places EXCEPT ![r.ino] = <<e, m>>]
  BY <1>3, <1>4 DEF PlacedBy
<1>6. Tree!Child(e, m) \subseteq {r.ino}
  <2>2. \A j \in Tree!Child(e, m) : \E q \in RowAt(e, m) : q.ino = j
    BY ChildRow
  <2>3. \A q \in RowAt(e, m) : q = r
    BY <1>0, <1>1, <1>2 DEF RowAt, Good, RowsGood, KeyGood
  <2> QED
    BY <2>2, <2>3
<1>7. UNCHANGED <<Kinds, Places>>
  BY DEF Kinds, Places, EntryOf
<1> QED
  BY <1>1, <1>5, <1>6, <1>7 DEF Tree!Rename, Tree!Returns, Result, NoIno, Tree!NoIno

\* A leaf that moves and another that goes may change in either order.
LEMMA MovesAndGoes ==
    ASSUME NEW i, NEW j, i # j, NEW v
    PROVE  [Tree!Without(Places, {j}) EXCEPT ![i] = v]
                = Tree!Without([Places EXCEPT ![i] = v], {j})
  BY DEF Tree!Without

\* The target name is taken: what has it goes, if the tree allows that, and the
\* inode moves there.
LEMMA OverOfTree ==
    ASSUME IInv, IInv', NEW d \in Ino, NEW n \in Names, NEW r \in Joined(d, n),
           NEW e \in Ino, NEW m \in Names, IsDirectory(e), HasEntry(rows, e),
           NEW t \in Joined(e, m), t.ino # r.ino, RenameOver(r, e, m, t),
           Tree!RenameReasons(d, n, e, m) = {}
    PROVE  Tree!Rename(d, n, e, m)
<1> DEFINE c == [ino |-> t.ino, type |-> t.type]
           isDir == meta[r.ino].type = "dir"
           mt == RemovedMeta(e, c, isDir)
           rs == RemovedRows(e, m, c, isDir)
<1>0. Good(meta, rows) /\ UniqueGood(rows)
  BY DEF IInv, TablesGood, Good, RowsGood
<1>1. /\ r \in rows /\ r.dir = d /\ r.name = n /\ r.name # ""
      /\ r.ino \in Tree!Child(d, n)
      /\ r.ino \in DOMAIN meta /\ r.dir \in DOMAIN meta
  BY MovingEntry DEF RegularEntry
<1>2. /\ t \in rows /\ t.dir = e /\ t.name = m /\ t.name # ""
      /\ t.ino \in Tree!Child(e, m)
  <2>1. RegularEntry(e, m, t)
    BY MovingEntry
  <2> QED
    BY <2>1 DEF RegularEntry
<1>3. t.ino \in Ino
  BY <1>0, <1>2, RowFields DEF Good, TypeGood
<1>4. Kinds[r.ino] = IF isDir THEN "dir" ELSE "file"
  <2>1. Kinds[r.ino] = meta[r.ino].type /\ Kinds[r.ino] \in Types
    BY <1>1, TreeIs
  <2> QED
    BY <2>1 DEF Types
<1>5. \/ Fails(RemoveErr(e, c, isDir))
      \/ /\ RemoveErr(e, c, isDir) = "OK"
         /\ \/ /\ Result("EIO", t.ino)
               /\ UNCHANGED <<meta, rows, filedata>>
            \/ /\ MoveErr(rs, r, e, m) = "OK"
               /\ meta' = MovedMeta(mt, r, e)
               /\ rows' = MovedRows(rs, r, e, m)
               /\ Result("OK", t.ino)
               /\ UNCHANGED filedata
  BY DEF RenameOver
<1>6. isDir \in BOOLEAN /\ c.ino = t.ino /\ c.type = t.type
  OBVIOUS
<1>7. c = [ino |-> t.ino, type |-> t.type]
  OBVIOUS
<1> HIDE DEF c, isDir
<1>8. /\ RemoveErr(e, c, isDir) \in Tree!RemoveReasons(t.ino, Kinds[r.ino]) \cup {"OK"}
      /\ RemoveErr(e, c, isDir) = "OK" => Tree!RemoveReasons(t.ino, Kinds[r.ino]) = {}
  BY <1>2, <1>4, <1>6, TreeRemoveErr
<1>9. t.ino \in Tree!Child(e, m) \ {r.ino}
  BY <1>2
<1>10. ASSUME Tree!FailsFor(Tree!RemoveReasons(t.ino, Kinds[r.ino]))
       PROVE  Tree!Rename(d, n, e, m)
  <2>1. UNCHANGED Kinds
    BY <1>10 DEF Tree!FailsFor
  <2> QED
    BY <1>1, <1>9, <1>10, <2>1 DEF Tree!Rename
<1>11. CASE Fails(RemoveErr(e, c, isDir))
  <2>1. RemoveErr(e, c, isDir)
            \in Tree!RemoveReasons(t.ino, Kinds[r.ino]) \cup {"OK", "EIO"}
    BY <1>8
  <2> QED
    BY <1>10, <1>11, <2>1, TreeRefuses
<1>12. CASE Result("EIO", t.ino) /\ UNCHANGED <<meta, rows>>
  BY <1>3, <1>10, <1>12, TreeRefusesLate
<1>13. CASE /\ RemoveErr(e, c, isDir) = "OK"
            /\ meta' = MovedMeta(mt, r, e)
            /\ rows' = MovedRows(rs, r, e, m)
            /\ Result("OK", t.ino)
  <2> DEFINE y == Row(e, m, r.ino, r.type)
             f == Tree!Without(Places, {t.ino})
  <2>1. y.dir = e /\ y.name = m /\ y.ino = r.ino /\ y.name # "" /\ m # ""
    BY NamesAssumption DEF Row
  <2>2. /\ Good(mt, rs) /\ SameTypes(meta, mt) /\ r \in rs
    BY <1>6, <1>7, <1>13, TargetRemoved
  <2>3. RemovesWell(e, m, c, isDir)
    <3>1. m \in AnyName /\ m # "." /\ m # ".." /\ m # ""
      BY NamesAssumption DEF AnyName, RowNames
    <3>2. c \in Found(e, m)
      BY <1>2, <1>7, <3>1 DEF Found, RowAt
    <3> QED
      BY <1>6, <1>13, <3>1, <3>2, RemoveGood
  <2>4. PlacedBy(f, rs)
    <3>1. RemovesWell(t.dir, t.name, c, isDir) /\ rs = RemovedRows(t.dir, t.name, c, isDir)
      BY <1>2, <2>3
    <3>2. NamesBut(t, rows, rs)
      BY <1>2, <3>1, OneNameGoes
    <3>3. PlacedBy(Places, rows)
      BY TreeIs
    <3> HIDE DEF rs
    <3> QED
      BY <1>0, <1>2, <3>2, <3>3, LeafGone
  <2>5. NameMoves(r, y, rs, rows') /\ UniqueGood(rs)
    <3>1. rs \subseteq DirRow /\ UniqueGood(rs)
      BY <2>2 DEF Good, TypeGood, RowsGood
    <3> HIDE DEF rs
    <3> QED
      BY <1>1, <1>13, <2>1, <2>2, <3>1, OneNameMoves
  <2>6. UNCHANGED Kinds
    <3>1. mt \in [DOMAIN mt -> MetaRow] /\ DOMAIN mt = DOMAIN meta
      BY <2>2 DEF Good, TypeGood, SameTypes
    <3>2. e \in DOMAIN mt /\ r.dir \in DOMAIN mt
      BY <1>1, <3>1 DEF IsDirectory
    <3> HIDE DEF mt
    <3>3. SameTypes(meta, MovedMeta(mt, r, e))
      BY <2>2, <3>1, <3>2, MovedKinds
    <3> QED
      BY <1>13, <3>3, SameKinds
  <2> HIDE DEF y, f, rs
  <2>7. PlacedBy([f EXCEPT ![r.ino] = <<y.dir, y.name>>], rows')
    BY <1>1, <2>1, <2>2, <2>4, <2>5, LeafMoves
  <2>8. Places' = [f EXCEPT ![r.ino] = <<e, m>>]
    BY <2>1, <2>7, NewPlaces
  <2>9. Places' = Tree!Without([Places EXCEPT ![r.ino] = <<e, m>>], {t.ino})
    <3>1. f = Tree!Without(Places, {t.ino})
      BY DEF f
    <3>2. [Tree!Without(Places, {t.ino}) EXCEPT ![r.ino] = <<e, m>>]
            = Tree!Without([Places EXCEPT ![r.ino] = <<e, m>>], {t.ino})
      BY MovesAndGoes
    <3> QED
      BY <2>8, <3>1, <3>2, Zenon
  <2>10. Tree!RemoveReasons(t.ino, Kinds[r.ino]) = {}
    BY <1>8, <1>13
  <2> QED
    BY <1>1, <1>9, <1>13, <2>6, <2>9, <2>10
    DEF Tree!Rename, Tree!Returns, Result
<1> QED
  BY <1>5, <1>11, <1>12, <1>13

\* sqlfs_rename moves a leaf or a subtree, for callers that keep their promise.
LEMMA RenameOfTree ==
    ASSUME IInv, IInv', NEW d \in Ino, NEW e \in Ino,
           NEW n \in RowNames, NEW m \in RowNames,
           NotRemoved(e), Rename(d, n, e, m)
    PROVE  Tree!Rename(d, n, e, m)
<1>1. CASE Fails(RenameParentsErr(d, n, e, m))
  <2>1. RenameParentsErr(d, n, e, m)
            \in Tree!RenameReasons(d, n, e, m) \cup {"OK", "EIO"}
    BY TreeRenameErr
  <2>2. Tree!FailsFor(Tree!RenameReasons(d, n, e, m))
    BY <1>1, <2>1, TreeRefuses
  <2> QED
    BY <2>2 DEF Tree!Rename
<1>2. CASE RenameParentsErr(d, n, e, m) = "OK"
  <2>1. /\ n \in Names /\ m \in Names /\ IsDirectory(e) /\ HasEntry(rows, e)
        /\ Tree!RenameReasons(d, n, e, m) = {}
    BY <1>2, RenameParents, TreeRenameErr
  <2>2. ASSUME NEW r \in Joined(d, n), Joined(e, m) = {}, RenameToFree(r, e, m)
        PROVE  Tree!Rename(d, n, e, m)
    BY <2>1, <2>2, ToFreeOfTree
  <2>3. ASSUME NEW r \in Joined(d, n), NEW t \in Joined(e, m), t.ino = r.ino,
               Result("OK", NoIno), UNCHANGED <<meta, rows, filedata>>
        PROVE  Tree!Rename(d, n, e, m)
    <3>1. t = r
      BY <2>1, <2>3, SameEntry
    <3>2. r \in Joined(e, m)
      BY <3>1
    <3> QED
      BY <2>1, <2>3, <3>2, InPlaceOfTree
  <2>4. ASSUME NEW r \in Joined(d, n), NEW t \in Joined(e, m), t.ino # r.ino,
               RenameOver(r, e, m, t)
        PROVE  Tree!Rename(d, n, e, m)
    BY <2>1, <2>4, OverOfTree
  <2>5. CASE Fails(RenameParentsErr(d, n, e, m))
    BY <1>1, <2>5
  <2> QED
    BY <2>2, <2>3, <2>4, <2>5 DEF Rename
<1> QED
  BY <1>1, <1>2 DEF Rename
-----------------------------------------------------------------------------
(* sqlfs_purge, sqlfs_purge_all, and calls on contents *)

\* Inodes without links are no part of the tree, so they may go.
LEMMA DeletedOfTree ==
    ASSUME IInv, NEW I \in SUBSET Ino,
           \A i \in I : i \in DOMAIN meta /\ ~(meta[i].nlink > 0),
           meta' = DeleteMeta(meta, I), UNCHANGED rows, Result("OK", NoIno)
    PROVE  Tree!Purge(I)
<1>1. PlacedBy(Places, rows) /\ DOMAIN Kinds = DOMAIN meta
  BY TreeIs
<1>2. \A i \in I : i # Root /\ \A r \in rows : r.ino # i
  BY DeadHasNoRows DEF IInv, TablesGood
<1>3. I \cap (DOMAIN Places \cup {Root}) = {}
  BY <1>1, <1>2 DEF PlacedBy
<1>4. Kinds' = Tree!Without(Kinds, I)
  BY <1>1 DEF Kinds, DeleteMeta, Tree!Without
<1>5. UNCHANGED Places
  BY DEF Places, EntryOf
<1> QED
  BY <1>3, <1>4, <1>5 DEF Tree!Purge, Tree!Returns, Result, NoIno, Tree!NoIno

\* sqlfs_purge, sqlfs_purge_all, sqlfs_write and sqlfs_set_attr.
LEMMA MaintainOfTree ==
    ASSUME IInv, Maintain
    PROVE  \/ \E I \in SUBSET Ino : Tree!Purge(I)
           \/ Tree!FailsFor({"ENOENT", "EISDIR"})
<1>0. Good(meta, rows)
  BY DEF IInv, TablesGood
<1> DEFINE E == {"ENOENT", "EISDIR"}
<1>1. ASSUME UNCHANGED <<meta, rows>>, Result("OK", NoIno)
      PROVE  \E I \in SUBSET Ino : Tree!Purge(I)
  <2>1. Tree!Purge({})
    BY <1>1, TreeStays
  <2> QED
    BY <2>1
<1>2. ASSUME NEW i \in Ino, Purge(i)
      PROVE  (\E I \in SUBSET Ino : Tree!Purge(I)) \/ Tree!FailsFor(E)
  <2>1. CASE Fails("ENOENT")
    BY <2>1, TreeRefuses
  <2>2. CASE Fails("OK")
    BY <2>2, TreeRefuses
  <2>3. CASE Result("OK", NoIno) /\ UNCHANGED <<meta, rows, filedata>>
    BY <1>1, <2>3
  <2>4. CASE /\ i \in DOMAIN meta
             /\ ~ (StatNlink(i) > (IF meta[i].type = "dir" THEN 1 ELSE 0))
             /\ PurgeOne(i)
             /\ Result("OK", NoIno)
    <3>1. meta[i].nlink \in Int
      BY <1>0, <2>4 DEF Good, TypeGood, MetaRow
    <3>2. ~(meta[i].nlink > 0)
      <4>1. CASE meta[i].type = "dir"
        BY <2>4, <3>1, <4>1 DEF StatNlink
      <4>2. CASE meta[i].type # "dir"
        BY <2>4, <3>1, <4>2 DEF StatNlink
      <4> QED
        BY <4>1, <4>2
    <3>3. meta' = DeleteMeta(meta, {i}) /\ UNCHANGED rows
      BY <2>4 DEF PurgeOne
    <3>4. \A j \in {i} : j \in DOMAIN meta /\ ~(meta[j].nlink > 0)
      BY <2>4, <3>2
    <3>5. {i} \in SUBSET Ino
      OBVIOUS
    <3>6. Tree!Purge({i})
      BY <2>4, <3>3, <3>4, <3>5, DeletedOfTree
    <3> QED
      BY <3>5, <3>6
  <2> QED
    BY <1>2, <2>1, <2>2, <2>3, <2>4 DEF Purge
<1>3. CASE PurgeAll
  <2>1. CASE Fails("OK")
    BY <2>1, TreeRefuses
  <2>2. CASE /\ meta' = DeleteMeta(meta, Unlinked)
             /\ Result("OK", NoIno)
             /\ UNCHANGED rows
    <3>1. \A i \in Unlinked : i \in DOMAIN meta /\ ~(meta[i].nlink > 0)
      BY DEF Unlinked
    <3>2. Unlinked \in SUBSET Ino
      BY <1>0 DEF Unlinked, Good, TypeGood
    <3>3. Tree!Purge(Unlinked)
      BY <2>2, <3>1, <3>2, DeletedOfTree
    <3> QED
      BY <3>2, <3>3
  <2> QED
    BY <1>3, <2>1, <2>2 DEF PurgeAll
<1>4. ASSUME NEW i \in Ino, NEW b \in BOOLEAN, SetSize(i, b)
      PROVE  (\E I \in SUBSET Ino : Tree!Purge(I)) \/ Tree!FailsFor(E)
  <2>1. CASE Fails(SetSizeErr(i))
    <3>1. SetSizeErr(i) \in E \cup {"OK", "EIO"}
      BY DEF SetSizeErr
    <3> QED
      BY <2>1, <3>1, TreeRefuses
  <2>2. CASE Result("OK", NoIno) /\ UNCHANGED <<meta, rows>>
    BY <1>1, <2>2
  <2> QED
    BY <1>4, <2>1, <2>2 DEF SetSize
<1> QED
  BY <1>2, <1>3, <1>4 DEF Maintain

-----------------------------------------------------------------------------
(* The theorem *)

\* create_root_directory() makes the tree of the root alone.
LEMMA InitOfTree == Init => Tree!Init
<1> SUFFICES ASSUME Init PROVE Tree!Init
  OBVIOUS
<1>1. Kinds = [i \in {Root} |-> "dir"]
  BY DEF Init, Kinds
<1>2. Places = [i \in {} |-> <<Root, "">>]
  <2>0. rows = {Row(Root, "", Root, "dir")}
    BY DEF Init
  <2>1. \A r \in rows : r.name = ""
    <3>1. Row(Root, "", Root, "dir").name = ""
      BY DEF Row
    <3> QED
      BY <2>0, <3>1
  <2>2. {r.ino : r \in {q \in rows : q.name # ""}} = {}
    BY <2>1
  <2> QED
    BY <2>2 DEF Places
<1> QED
  BY <1>1, <1>2 DEF Init, Tree!Init, NoIno, Tree!NoIno

\* Every call of sqlfs.c is a call of the tree, or leaves it alone.
LEMMA NextOfTree == IInv /\ IInv' /\ [Next]_vars => [Tree!Next]_(Tree!vars)
<1> SUFFICES ASSUME IInv, IInv', [Next]_vars
             PROVE  Tree!Next \/ UNCHANGED Tree!vars
  OBVIOUS
<1>0. /\ AnyName = Names \cup {"", ".", ".."}
      /\ RowNames = Names \cup {""}
  BY DEF AnyName, RowNames
<1>1. ASSUME NEW d \in Ino, NEW n \in AnyName, NotRemoved(d), Mkdir(d, n)
      PROVE  Tree!Next
  <2>1. Tree!Create(d, n, "dir")
    BY <1>1, MkdirOfTree
  <2> QED
    BY <1>0, <2>1 DEF Tree!Next
<1>2. ASSUME NEW d \in Ino, NEW n \in AnyName, NotRemoved(d), Mknod(d, n)
      PROVE  Tree!Next
  <2>1. Tree!Create(d, n, "file")
    BY <1>2, MknodOfTree
  <2> QED
    BY <1>0, <2>1 DEF Tree!Next
<1>3. ASSUME NEW d \in Ino, NEW n \in AnyName, Rmdir(d, n)
      PROVE  Tree!Next
  <2>1. Tree!Remove(d, n, "dir")
    BY <1>3, RemoveOfTree DEF Rmdir
  <2> QED
    BY <1>0, <2>1 DEF Tree!Next
<1>4. ASSUME NEW d \in Ino, NEW n \in AnyName, Unlink(d, n)
      PROVE  Tree!Next
  <2>1. Tree!Remove(d, n, "file")
    BY <1>4, RemoveOfTree DEF Unlink
  <2> QED
    BY <1>0, <2>1 DEF Tree!Next
<1>5. ASSUME NEW d \in Ino, NEW e \in Ino, NEW n \in RowNames, NEW m \in RowNames,
             NotRemoved(e), Rename(d, n, e, m)
      PROVE  Tree!Next
  <2>1. Tree!Rename(d, n, e, m)
    BY <1>5, RenameOfTree
  <2> QED
    BY <1>0, <2>1 DEF Tree!Next
<1>6. CASE Maintain
  BY <1>6, MaintainOfTree DEF Tree!Next
<1>7. CASE UNCHANGED vars
  BY <1>7 DEF vars, Tree!vars, Kinds, Places, EntryOf
<1> QED
  BY <1>1, <1>2, <1>3, <1>4, <1>5, <1>6, <1>7 DEF Next

\* The tables implement the tree: whatever is called, and whatever fails, each
\* call does to the entries and types what sqlfs.h promises, or refuses for a
\* reason a client can see in the tree.
THEOREM TablesImplementTree == Spec => ImplementsTree
<1>1. Init => Tree!Init
  BY InitOfTree
<1>2. IInv /\ IInv' /\ [Next]_vars => [Tree!Next]_(Tree!vars)
  BY NextOfTree
<1> QED
  BY <1>1, <1>2, Invariance, PTL DEF Spec, ImplementsTree, Tree!Spec
=============================================================================
