---------------------------- MODULE SqlfsProofs ----------------------------
(***************************************************************************)
(* The invariants of Sqlfs, for any names and any number of inodes. The    *)
(* inductive invariant is that the tables are Good, that filedata rows     *)
(* belong to files, and that no call has aborted.                          *)
(* Good(m, rs) is stated for a metadata table m and a set of direntries    *)
(* rows rs, because sqlfs_rename goes through a state between              *)
(* remove_impl() and the move. The first part has one lemma for each way   *)
(* the calls change the tables, which says that it keeps them good; the    *)
(* second, one for each call.                                              *)
(***************************************************************************)
EXTENDS Sqlfs, FiniteSetTheorems, TLAPS

Named(rs, i) == {r \in rs : r.ino = i}

HasEntry(rs, i) == i = Root \/ \E q \in rs : q.name # "" /\ q.ino = i

TypeGood(m, rs) ==
    /\ DOMAIN m \subseteq Ino
    /\ m \in [DOMAIN m -> MetaRow]
    /\ rs \subseteq DirRow
    /\ IsFiniteSet(rs)

KeyGood(rs) == \A r, q \in rs : r.dir = q.dir /\ r.name = q.name => r = q

JoinGood(m, rs) ==
    \A r \in rs : /\ r.dir \in DOMAIN m /\ m[r.dir].type = "dir"
                  /\ r.ino \in DOMAIN m /\ r.type = m[r.ino].type

CountGood(m, rs) == \A i \in DOMAIN m : m[i].nlink = Cardinality(Named(rs, i))

UniqueGood(rs) ==
    \A r, q \in rs : r.name # "" /\ q.name # "" /\ r.ino = q.ino => r = q

RootGood(rs) ==
    /\ Row(Root, "", Root, "dir") \in rs
    /\ \A r \in rs : r.name # "" => r.ino # Root

ParentGood(rs) ==
    \A r \in rs : r.name # "" /\ r.type = "dir" => Row(r.ino, "", r.dir, "dir") \in rs

LinkedGood(rs) == \A r \in rs : HasEntry(rs, r.dir)

ReachGood(rs) ==
    \A S : S # {} /\ Root \notin S /\ (\A i \in S : HasEntry(rs, i))
            => \E r \in rs : r.name # "" /\ r.ino \in S /\ r.dir \notin S

RowsGood(rs) ==
    /\ KeyGood(rs) /\ UniqueGood(rs) /\ RootGood(rs)
    /\ ParentGood(rs) /\ LinkedGood(rs) /\ ReachGood(rs)

Good(m, rs) == TypeGood(m, rs) /\ JoinGood(m, rs) /\ CountGood(m, rs) /\ RowsGood(rs)

-----------------------------------------------------------------------------
(* Counting rows *)

\* One more row is one more link to the inode it names, and to no other.
LEMMA NamedAdd ==
    ASSUME NEW rs, IsFiniteSet(rs), NEW x, x \notin rs, NEW i
    PROVE  /\ IsFiniteSet(rs \cup {x})
           /\ Cardinality(Named(rs, i)) \in Nat
           /\ x.ino = i => Cardinality(Named(rs \cup {x}, i))
                                = Cardinality(Named(rs, i)) + 1
           /\ x.ino # i => Named(rs \cup {x}, i) = Named(rs, i)
<1>1. IsFiniteSet(Named(rs, i)) /\ Named(rs, i) \subseteq rs
  BY FS_Subset DEF Named
<1>2. x.ino = i => Named(rs \cup {x}, i) = Named(rs, i) \cup {x}
  BY DEF Named
<1>3. x.ino # i => Named(rs \cup {x}, i) = Named(rs, i)
  BY DEF Named
<1>4. IsFiniteSet(rs \cup {x})
  BY FS_AddElement
<1>5. Cardinality(Named(rs, i) \cup {x}) = Cardinality(Named(rs, i)) + 1
  BY <1>1, FS_AddElement
<1>6. Cardinality(Named(rs, i)) \in Nat
  BY <1>1, FS_CardinalityType
<1> QED
  BY <1>2, <1>3, <1>4, <1>5, <1>6

\* One row fewer is one link fewer to the inode it names, and to no other.
LEMMA NamedRemove ==
    ASSUME NEW rs, IsFiniteSet(rs), NEW x \in rs, NEW i
    PROVE  /\ IsFiniteSet(rs \ {x})
           /\ Cardinality(Named(rs, i)) \in Nat
           /\ x.ino = i => Cardinality(Named(rs \ {x}, i))
                                = Cardinality(Named(rs, i)) - 1
           /\ x.ino # i => Named(rs \ {x}, i) = Named(rs, i)
<1>1. IsFiniteSet(Named(rs, i)) /\ Named(rs, i) \subseteq rs
  BY FS_Subset DEF Named
<1>2. x.ino = i => Named(rs \ {x}, i) = Named(rs, i) \ {x} /\ x \in Named(rs, i)
  BY DEF Named
<1>3. x.ino # i => Named(rs \ {x}, i) = Named(rs, i)
  BY DEF Named
<1>4. IsFiniteSet(rs \ {x})
  BY FS_RemoveElement
<1>5. x \in Named(rs, i) =>
        Cardinality(Named(rs, i) \ {x}) = Cardinality(Named(rs, i)) - 1
  BY <1>1, FS_RemoveElement
<1>6. Cardinality(Named(rs, i)) \in Nat
  BY <1>1, FS_CardinalityType
<1> QED
  BY <1>2, <1>3, <1>4, <1>5, <1>6

\* A link count is zero exactly when no row names the inode.
LEMMA NamedZero ==
    ASSUME NEW rs, IsFiniteSet(rs), NEW i
    PROVE  Cardinality(Named(rs, i)) = 0 <=> Named(rs, i) = {}
<1>1. IsFiniteSet(Named(rs, i))
  BY FS_Subset DEF Named
<1> QED
  BY <1>1, FS_EmptySet

-----------------------------------------------------------------------------
(* Rows and metadata *)

\* A row is its four fields.
LEMMA RowFields ==
    ASSUME NEW r \in DirRow
    PROVE  /\ r = Row(r.dir, r.name, r.ino, r.type)
           /\ r.dir \in Ino /\ r.name \in RowNames /\ r.ino \in Ino
           /\ r.type \in Types
  BY DEF DirRow, Row

\* sql_update_nlink changes one count, and nothing else.
LEMMA AddLinksFacts ==
    ASSUME NEW m, m \in [DOMAIN m -> MetaRow], NEW i \in DOMAIN m, NEW k \in Int
    PROVE  /\ AddLinks(m, i, k) \in [DOMAIN m -> MetaRow]
           /\ DOMAIN AddLinks(m, i, k) = DOMAIN m
           /\ \A j \in DOMAIN m : AddLinks(m, i, k)[j].type = m[j].type
           /\ \A j \in DOMAIN m \ {i} : AddLinks(m, i, k)[j] = m[j]
           /\ AddLinks(m, i, k)[i].nlink = m[i].nlink + k
  BY DEF AddLinks, MetaRow

\* One more row and one more link: the counts stay right.
LEMMA CountAdd ==
    ASSUME NEW m, NEW rs, TypeGood(m, rs), CountGood(m, rs),
           NEW x, x \notin rs, x.ino \in DOMAIN m
    PROVE  CountGood(AddLinks(m, x.ino, 1), rs \cup {x})
<1>0. DOMAIN AddLinks(m, x.ino, 1) = DOMAIN m
  BY AddLinksFacts DEF TypeGood
<1> SUFFICES ASSUME NEW i \in DOMAIN m
             PROVE  AddLinks(m, x.ino, 1)[i].nlink
                        = Cardinality(Named(rs \cup {x}, i))
  BY <1>0 DEF CountGood
<1>1. m[i].nlink = Cardinality(Named(rs, i))
  BY DEF CountGood
<1>2. CASE i = x.ino
  <2>1. Cardinality(Named(rs \cup {x}, i)) = Cardinality(Named(rs, i)) + 1
    BY <1>2, NamedAdd DEF TypeGood
  <2>2. AddLinks(m, x.ino, 1)[i].nlink = m[i].nlink + 1
    BY <1>2, AddLinksFacts DEF TypeGood
  <2> QED
    BY <1>1, <2>1, <2>2
<1>3. CASE i # x.ino
  <2>1. Named(rs \cup {x}, i) = Named(rs, i)
    BY <1>3, NamedAdd DEF TypeGood
  <2>2. AddLinks(m, x.ino, 1)[i] = m[i]
    BY <1>3, AddLinksFacts DEF TypeGood
  <2> QED
    BY <1>1, <2>1, <2>2
<1> QED
  BY <1>2, <1>3

\* One row and one link fewer: the counts stay right.
LEMMA CountRemove ==
    ASSUME NEW m, NEW rs, TypeGood(m, rs), CountGood(m, rs),
           NEW x \in rs, x.ino \in DOMAIN m
    PROVE  CountGood(AddLinks(m, x.ino, -1), rs \ {x})
<1>0. DOMAIN AddLinks(m, x.ino, -1) = DOMAIN m
  BY AddLinksFacts DEF TypeGood
<1> SUFFICES ASSUME NEW i \in DOMAIN m
             PROVE  AddLinks(m, x.ino, -1)[i].nlink
                        = Cardinality(Named(rs \ {x}, i))
  BY <1>0 DEF CountGood
<1>1. /\ m[i].nlink = Cardinality(Named(rs, i))
      /\ Cardinality(Named(rs, i)) \in Nat
  BY NamedRemove DEF CountGood, TypeGood
<1>2. CASE i = x.ino
  <2>1. Cardinality(Named(rs \ {x}, i)) = Cardinality(Named(rs, i)) - 1
    BY <1>2, NamedRemove DEF TypeGood
  <2>2. AddLinks(m, x.ino, -1)[i].nlink = m[i].nlink + (-1)
    BY <1>2, AddLinksFacts DEF TypeGood
  <2> QED
    BY <1>1, <2>1, <2>2
<1>3. CASE i # x.ino
  <2>1. Named(rs \ {x}, i) = Named(rs, i)
    BY <1>3, NamedRemove DEF TypeGood
  <2>2. AddLinks(m, x.ino, -1)[i] = m[i]
    BY <1>3, AddLinksFacts DEF TypeGood
  <2> QED
    BY <1>1, <2>1, <2>2
<1> QED
  BY <1>2, <1>3

\* A new inode is named by the one row that is added with it.
LEMMA CountInsert ==
    ASSUME NEW m, NEW rs, TypeGood(m, rs), CountGood(m, rs),
           NEW x, x \notin rs, x.ino \notin DOMAIN m, NEW t \in Types,
           \A r \in rs : r.ino # x.ino
    PROVE  CountGood(InsertMeta(m, x.ino, t), rs \cup {x})
<1>0. /\ DOMAIN InsertMeta(m, x.ino, t) = DOMAIN m \cup {x.ino}
      /\ \A j \in DOMAIN m : InsertMeta(m, x.ino, t)[j] = m[j]
      /\ InsertMeta(m, x.ino, t)[x.ino] = [type |-> t, nlink |-> 1]
  BY DEF InsertMeta
<1> SUFFICES ASSUME NEW i \in DOMAIN m \cup {x.ino}
             PROVE  InsertMeta(m, x.ino, t)[i].nlink
                        = Cardinality(Named(rs \cup {x}, i))
  BY <1>0 DEF CountGood
<1>1. CASE i = x.ino
  <2>1. Named(rs, i) = {}
    BY <1>1 DEF Named
  <2>2. Cardinality(Named(rs, i)) = 0
    BY <2>1, FS_EmptySet
  <2>3. Cardinality(Named(rs \cup {x}, i)) = Cardinality(Named(rs, i)) + 1
    BY <1>1, NamedAdd DEF TypeGood
  <2> QED
    BY <1>0, <1>1, <2>2, <2>3
<1>2. CASE i # x.ino
  <2>1. Named(rs \cup {x}, i) = Named(rs, i)
    BY <1>2, NamedAdd DEF TypeGood
  <2> QED
    BY <1>0, <1>2, <2>1 DEF CountGood
<1> QED
  BY <1>1, <1>2

\* A row that takes the place of one that named the same inode.
LEMMA CountReplace ==
    ASSUME NEW m, NEW rs, TypeGood(m, rs), CountGood(m, rs),
           NEW x \in rs, NEW y, y \notin rs, y.ino = x.ino
    PROVE  CountGood(m, (rs \ {x}) \cup {y})
<1> SUFFICES ASSUME NEW i \in DOMAIN m
             PROVE  Cardinality(Named((rs \ {x}) \cup {y}, i))
                        = Cardinality(Named(rs, i))
  BY DEF CountGood
<1>0. IsFiniteSet(rs \ {x}) /\ y \notin rs \ {x}
  BY NamedRemove DEF TypeGood
<1>1. CASE i = x.ino
  <2>1. Cardinality(Named(rs \ {x}, i)) = Cardinality(Named(rs, i)) - 1
    BY <1>1, NamedRemove DEF TypeGood
  <2>2. Cardinality(Named((rs \ {x}) \cup {y}, i)) = Cardinality(Named(rs \ {x}, i)) + 1
    BY <1>0, <1>1, NamedAdd
  <2>3. Cardinality(Named(rs, i)) \in Nat
    BY NamedRemove DEF TypeGood
  <2> QED
    BY <2>1, <2>2, <2>3
<1>2. CASE i # x.ino
  BY <1>2 DEF Named
<1> QED
  BY <1>1, <1>2

-----------------------------------------------------------------------------
(* New entries *)

\* The entry of a new inode: what mkdir and mknod do to the rows with a name.
LEMMA EntryAdded ==
    ASSUME NEW rs, KeyGood(rs), UniqueGood(rs), LinkedGood(rs), ReachGood(rs),
           NEW x, x.name # "", HasEntry(rs, x.dir), x.ino # Root,
           \A r \in rs : ~(r.dir = x.dir /\ r.name = x.name),
           \A r \in rs : r.dir # x.ino /\ r.ino # x.ino
    PROVE  /\ KeyGood(rs \cup {x})
           /\ UniqueGood(rs \cup {x})
           /\ LinkedGood(rs \cup {x})
           /\ ReachGood(rs \cup {x})
<1>1. KeyGood(rs \cup {x})
  BY DEF KeyGood
<1>2. UniqueGood(rs \cup {x})
  BY DEF UniqueGood
<1>3. LinkedGood(rs \cup {x})
  BY DEF LinkedGood, HasEntry
<1>4. ReachGood(rs \cup {x})
  <2> SUFFICES ASSUME NEW S, S # {}, Root \notin S,
                      \A i \in S : HasEntry(rs \cup {x}, i)
               PROVE  \E r \in rs \cup {x} :
                        r.name # "" /\ r.ino \in S /\ r.dir \notin S
    BY DEF ReachGood
  <2>1. \A i \in S \ {x.ino} : HasEntry(rs, i)
    BY DEF HasEntry
  <2>2. CASE x.ino \notin S
    BY <2>1, <2>2 DEF ReachGood
  <2>3. CASE x.ino \in S /\ x.dir \notin S
    BY <2>3
  <2>4. CASE x.ino \in S /\ x.dir \in S
    <3>1. x.dir # x.ino
      BY DEF HasEntry
    <3>2. S \ {x.ino} # {} /\ Root \notin S \ {x.ino}
      BY <2>4, <3>1
    <3>3. PICK r \in rs : r.name # "" /\ r.ino \in S \ {x.ino} /\ r.dir \notin S \ {x.ino}
      BY <2>1, <3>2 DEF ReachGood
    <3> QED
      BY <3>3
  <2> QED
    BY <2>2, <2>3, <2>4
<1> QED
  BY <1>1, <1>2, <1>3, <1>4

\* A ".." row in a directory that has none changes nothing about named rows.
LEMMA DotDotAdded ==
    ASSUME NEW rs, KeyGood(rs), UniqueGood(rs), LinkedGood(rs), ReachGood(rs),
           NEW y, y.name = "", HasEntry(rs, y.dir),
           \A r \in rs : ~(r.dir = y.dir /\ r.name = "")
    PROVE  /\ KeyGood(rs \cup {y})
           /\ UniqueGood(rs \cup {y})
           /\ LinkedGood(rs \cup {y})
           /\ ReachGood(rs \cup {y})
<1>1. \A i : HasEntry(rs \cup {y}, i) <=> HasEntry(rs, i)
  BY DEF HasEntry
<1>2. KeyGood(rs \cup {y}) /\ UniqueGood(rs \cup {y})
  BY DEF KeyGood, UniqueGood
<1>3. LinkedGood(rs \cup {y})
  BY <1>1 DEF LinkedGood
<1>4. ReachGood(rs \cup {y})
  <2> SUFFICES ASSUME NEW S, S # {}, Root \notin S,
                      \A i \in S : HasEntry(rs \cup {y}, i)
               PROVE  \E r \in rs \cup {y} :
                        r.name # "" /\ r.ino \in S /\ r.dir \notin S
    BY DEF ReachGood
  <2> QED
    BY <1>1 DEF ReachGood
<1> QED
  BY <1>2, <1>3, <1>4

\* sqlfs_mknod: a metadata row and an entry that names it.
LEMMA MknodGood ==
    ASSUME NEW m, NEW rs, Good(m, rs),
           NEW d \in DOMAIN m, m[d].type = "dir", HasEntry(rs, d),
           NEW n \in Names, \A r \in rs : ~(r.dir = d /\ r.name = n),
           NEW i \in Ino, i \notin DOMAIN m
    PROVE  Good(InsertMeta(m, i, "file"), rs \cup {Row(d, n, i, "file")})
<1> DEFINE x == Row(d, n, i, "file")
           mm == InsertMeta(m, i, "file")
<1>1. /\ x \in DirRow /\ x.dir = d /\ x.name = n /\ x.ino = i /\ x.type = "file"
      /\ n # ""
  BY NamesAssumption DEF Row, DirRow, Good, TypeGood, Types, RowNames
<1>2. \A r \in rs : r.dir # i /\ r.ino # i
  BY DEF Good, JoinGood
<1>3. i # Root /\ x \notin rs
  BY <1>1, <1>2 DEF Good, RowsGood, RootGood, JoinGood, Row
<1>4. /\ DOMAIN mm = DOMAIN m \cup {i}
      /\ mm \in [DOMAIN m \cup {i} -> MetaRow]
      /\ \A j \in DOMAIN m : mm[j] = m[j]
      /\ mm[i].type = "file"
  <2>1. m \in [DOMAIN m -> MetaRow] /\ "file" \in Types
    BY DEF Good, TypeGood, Types
  <2> QED
    BY <2>1 DEF InsertMeta, MetaRow
<1>5. CountGood(mm, rs \cup {x})
  BY <1>1, <1>2, <1>3, CountInsert DEF Good, Types
<1> HIDE DEF x, mm
<1>6. TypeGood(mm, rs \cup {x})
  BY <1>1, <1>4, NamedAdd, <1>3 DEF Good, TypeGood
<1>7. JoinGood(mm, rs \cup {x})
  BY <1>1, <1>4 DEF Good, JoinGood
<1>8. /\ KeyGood(rs \cup {x}) /\ UniqueGood(rs \cup {x})
      /\ LinkedGood(rs \cup {x}) /\ ReachGood(rs \cup {x})
  BY <1>1, <1>2, <1>3, EntryAdded DEF Good, RowsGood
<1>9. RootGood(rs \cup {x}) /\ ParentGood(rs \cup {x})
  BY <1>1, <1>3 DEF Good, RowsGood, RootGood, ParentGood
<1> QED
  BY <1>5, <1>6, <1>7, <1>8, <1>9 DEF Good, RowsGood, x, mm

\* sqlfs_mkdir: an entry, a ".." row and a link to the parent.
LEMMA MkdirGood ==
    ASSUME NEW m, NEW rs, Good(m, rs),
           NEW d \in DOMAIN m, m[d].type = "dir", HasEntry(rs, d),
           NEW n \in Names, \A r \in rs : ~(r.dir = d /\ r.name = n),
           NEW i \in Ino, i \notin DOMAIN m
    PROVE  Good(InsertMeta(AddLinks(m, d, 1), i, "dir"), rs \cup NewDirRows(d, n, i))
<1> DEFINE x == Row(d, n, i, "dir")
           y == Row(i, "", d, "dir")
           m1 == AddLinks(m, d, 1)
           mm == InsertMeta(m1, i, "dir")
<1>1. /\ x \in DirRow /\ x.dir = d /\ x.name = n /\ x.ino = i /\ x.type = "dir"
      /\ y \in DirRow /\ y.dir = i /\ y.name = "" /\ y.ino = d /\ y.type = "dir"
      /\ n # ""
  BY NamesAssumption DEF Row, DirRow, Good, TypeGood, Types, RowNames
<1>2. \A r \in rs : r.dir # i /\ r.ino # i
  BY DEF Good, JoinGood
<1>3. i # Root /\ x \notin rs /\ y \notin rs /\ x # y
  BY <1>1, <1>2 DEF Good, RowsGood, RootGood, JoinGood, Row
<1>4. /\ m1 \in [DOMAIN m -> MetaRow]
      /\ DOMAIN m1 = DOMAIN m
      /\ \A j \in DOMAIN m : m1[j].type = m[j].type
  BY AddLinksFacts DEF Good, TypeGood
<1>5. NewDirRows(d, n, i) = {x, y}
  BY DEF NewDirRows
<1> HIDE DEF x, y
<1>6. CountGood(m1, rs \cup {y})
  BY <1>1, <1>3, CountAdd DEF Good
<1> HIDE DEF m1
<1>7. /\ DOMAIN mm = DOMAIN m \cup {i}
      /\ mm \in [DOMAIN m \cup {i} -> MetaRow]
      /\ \A j \in DOMAIN m : mm[j] = m1[j]
      /\ mm[i].type = "dir"
  BY <1>4 DEF InsertMeta, MetaRow, Types
<1>8. TypeGood(m1, rs \cup {y})
  BY <1>1, <1>3, <1>4, NamedAdd DEF Good, TypeGood
<1>9. CountGood(mm, (rs \cup {y}) \cup {x})
  BY <1>1, <1>2, <1>3, <1>4, <1>6, <1>8, CountInsert DEF Types
<1> HIDE DEF mm
<1>10. TypeGood(mm, (rs \cup {y}) \cup {x})
  <2>1. IsFiniteSet(rs \cup {y}) /\ x \notin rs \cup {y}
    BY <1>3, <1>8 DEF TypeGood
  <2>2. IsFiniteSet((rs \cup {y}) \cup {x})
    BY <2>1, FS_AddElement
  <2>3. DOMAIN mm \subseteq Ino /\ mm \in [DOMAIN mm -> MetaRow]
    BY <1>7 DEF Good, TypeGood
  <2>4. (rs \cup {y}) \cup {x} \subseteq DirRow
    BY <1>1 DEF Good, TypeGood
  <2> QED
    BY <2>2, <2>3, <2>4 DEF TypeGood
<1>11. JoinGood(mm, (rs \cup {x}) \cup {y})
  <2> SUFFICES ASSUME NEW r \in (rs \cup {x}) \cup {y}
               PROVE  /\ r.dir \in DOMAIN mm /\ mm[r.dir].type = "dir"
                      /\ r.ino \in DOMAIN mm /\ r.type = mm[r.ino].type
    BY DEF JoinGood
  <2>1. \A j \in DOMAIN m : j \in DOMAIN mm /\ mm[j].type = m[j].type
    BY <1>4, <1>7
  <2>2. CASE r \in rs
    BY <2>1, <2>2 DEF Good, JoinGood
  <2>3. CASE r = x \/ r = y
    BY <1>1, <1>7, <2>1, <2>3
  <2> QED
    BY <2>2, <2>3
<1>12. /\ KeyGood(rs \cup {x}) /\ UniqueGood(rs \cup {x})
       /\ LinkedGood(rs \cup {x}) /\ ReachGood(rs \cup {x})
  BY <1>1, <1>2, <1>3, EntryAdded DEF Good, RowsGood
<1>13. HasEntry(rs \cup {x}, y.dir)
  BY <1>1 DEF HasEntry
<1>14. /\ KeyGood((rs \cup {x}) \cup {y}) /\ UniqueGood((rs \cup {x}) \cup {y})
       /\ LinkedGood((rs \cup {x}) \cup {y}) /\ ReachGood((rs \cup {x}) \cup {y})
  BY <1>1, <1>2, <1>12, <1>13, DotDotAdded
<1>15. RootGood((rs \cup {x}) \cup {y})
  BY <1>1, <1>3 DEF Good, RowsGood, RootGood
<1>16. ParentGood((rs \cup {x}) \cup {y})
  <2>1. y = Row(x.ino, "", x.dir, "dir")
    BY <1>1 DEF y
  <2> QED
    BY <1>1, <2>1 DEF Good, RowsGood, ParentGood
<1>17. (rs \cup {y}) \cup {x} = (rs \cup {x}) \cup {y}
  OBVIOUS
<1> QED
  BY <1>5, <1>9, <1>10, <1>11, <1>14, <1>15, <1>16, <1>17 DEF Good, RowsGood, m1, mm

-----------------------------------------------------------------------------
(* Removed entries *)

\* The entry x goes away. It was the only one of its inode, in which nothing is.
LEMMA EntryRemoved ==
    ASSUME NEW rs, KeyGood(rs), UniqueGood(rs), RootGood(rs), LinkedGood(rs),
           ReachGood(rs), NEW x \in rs, x.name # "",
           \A r \in rs : r.dir # x.ino,
           \A r \in rs \ {x} : r.name # "" /\ r.type = "dir"
                                => Row(r.ino, "", r.dir, "dir") \in rs
    PROVE  RowsGood(rs \ {x})
<1>1. \A r \in rs : r.name # "" /\ r.ino = x.ino => r = x
  BY DEF UniqueGood
<1>2. \A i : i # x.ino /\ HasEntry(rs, i) => HasEntry(rs \ {x}, i)
  BY DEF HasEntry
<1>3. \A i : HasEntry(rs \ {x}, i) => i # x.ino /\ HasEntry(rs, i)
  BY <1>1 DEF HasEntry, RootGood
<1>4. KeyGood(rs \ {x}) /\ UniqueGood(rs \ {x})
  BY DEF KeyGood, UniqueGood
<1>5. RootGood(rs \ {x})
  <2>0. /\ Row(Root, "", Root, "dir").name = ""
        /\ Row(Root, "", Root, "dir").dir = Root
    BY DEF Row
  <2>1. x # Row(Root, "", Root, "dir")
    BY <2>0
  <2> QED
    BY <2>1 DEF RootGood
<1>6. LinkedGood(rs \ {x})
  BY <1>2 DEF LinkedGood
<1>7. ReachGood(rs \ {x})
  <2> SUFFICES ASSUME NEW S, S # {}, Root \notin S,
                      \A i \in S : HasEntry(rs \ {x}, i)
               PROVE  \E r \in rs \ {x} :
                        r.name # "" /\ r.ino \in S /\ r.dir \notin S
    BY DEF ReachGood
  <2>1. PICK r \in rs : r.name # "" /\ r.ino \in S /\ r.dir \notin S
    BY <1>3 DEF ReachGood
  <2> QED
    BY <2>1, <1>3
<1>8. ParentGood(rs \ {x})
  <2> SUFFICES ASSUME NEW r \in rs \ {x}, r.name # "", r.type = "dir"
               PROVE  Row(r.ino, "", r.dir, "dir") \in rs \ {x}
    BY DEF ParentGood
  <2>1. Row(r.ino, "", r.dir, "dir").name = ""
    BY DEF Row
  <2> QED
    BY <2>1
<1> QED
  BY <1>4, <1>5, <1>6, <1>7, <1>8 DEF RowsGood

\* The ".." row of an inode whose entry is x goes away before x does. What is
\* left is all that the previous lemma asks, except that x has no ".." row.
LEMMA DotDotRemoved ==
    ASSUME NEW rs, KeyGood(rs), UniqueGood(rs), RootGood(rs), LinkedGood(rs),
           ReachGood(rs), NEW y \in rs, y.name = "", y.dir # Root
    PROVE  /\ KeyGood(rs \ {y}) /\ UniqueGood(rs \ {y}) /\ RootGood(rs \ {y})
           /\ LinkedGood(rs \ {y}) /\ ReachGood(rs \ {y})
<1>1. \A i : HasEntry(rs \ {y}, i) <=> HasEntry(rs, i)
  BY DEF HasEntry
<1>2. KeyGood(rs \ {y}) /\ UniqueGood(rs \ {y})
  BY DEF KeyGood, UniqueGood
<1>3. RootGood(rs \ {y})
  <2>0. /\ Row(Root, "", Root, "dir").name = ""
        /\ Row(Root, "", Root, "dir").dir = Root
    BY DEF Row
  <2>1. y # Row(Root, "", Root, "dir")
    BY <2>0
  <2> QED
    BY <2>1 DEF RootGood
<1>4. LinkedGood(rs \ {y})
  BY <1>1 DEF LinkedGood
<1>5. ReachGood(rs \ {y})
  <2> SUFFICES ASSUME NEW S, S # {}, Root \notin S,
                      \A i \in S : HasEntry(rs \ {y}, i)
               PROVE  \E r \in rs \ {y} :
                        r.name # "" /\ r.ino \in S /\ r.dir \notin S
    BY DEF ReachGood
  <2> QED
    BY <1>1 DEF ReachGood
<1> QED
  BY <1>2, <1>3, <1>4, <1>5

\* A row and a link to the inode it names go away: the tables still match.
LEMMA RowRemoved ==
    ASSUME NEW m, NEW rs, TypeGood(m, rs), JoinGood(m, rs), CountGood(m, rs),
           NEW x \in rs
    PROVE  /\ TypeGood(AddLinks(m, x.ino, -1), rs \ {x})
           /\ JoinGood(AddLinks(m, x.ino, -1), rs \ {x})
           /\ CountGood(AddLinks(m, x.ino, -1), rs \ {x})
<1> DEFINE mm == AddLinks(m, x.ino, -1)
<1>1. x.ino \in DOMAIN m
  BY DEF JoinGood
<1>2. /\ mm \in [DOMAIN m -> MetaRow]
      /\ DOMAIN mm = DOMAIN m
      /\ \A j \in DOMAIN m : mm[j].type = m[j].type
  BY <1>1, AddLinksFacts DEF TypeGood
<1>3. CountGood(mm, rs \ {x})
  BY <1>1, CountRemove
<1> HIDE DEF mm
<1>4. IsFiniteSet(rs \ {x})
  BY NamedRemove DEF TypeGood
<1>5. TypeGood(mm, rs \ {x})
  BY <1>2, <1>4 DEF TypeGood
<1>6. JoinGood(mm, rs \ {x})
  BY <1>2 DEF JoinGood
<1> QED
  BY <1>3, <1>5, <1>6 DEF mm

\* sqlfs_unlink
LEMMA UnlinkGood ==
    ASSUME NEW m, NEW rs, Good(m, rs), NEW x \in rs, x.name # "", x.type # "dir"
    PROVE  Good(AddLinks(m, x.ino, -1), rs \ {x})
<1>1. \A r \in rs : r.dir # x.ino
  BY DEF Good, JoinGood
<1>2. RowsGood(rs \ {x})
  BY <1>1, EntryRemoved DEF Good, RowsGood, ParentGood
<1> QED
  BY <1>2, RowRemoved DEF Good

\* sqlfs_rmdir of an empty directory: its entry, its ".." row, and a link each
\* of the directory and of its parent.
LEMMA RmdirGood ==
    ASSUME NEW m, NEW rs, Good(m, rs), NEW x \in rs, x.name # "", x.type = "dir",
           \A r \in rs : r.dir = x.ino => r = Row(x.ino, "", x.dir, "dir")
    PROVE  Good(AddLinks(AddLinks(m, x.dir, -1), x.ino, -1),
                (rs \ {Row(x.ino, "", x.dir, "dir")}) \ {x})
<1> DEFINE y == Row(x.ino, "", x.dir, "dir")
           m1 == AddLinks(m, x.dir, -1)
<1>1. /\ y.dir = x.ino /\ y.name = "" /\ y.ino = x.dir
      /\ y \in rs /\ x # y /\ x.ino # Root
  <2>1. y.dir = x.ino /\ y.name = "" /\ y.ino = x.dir
    BY DEF Row
  <2>2. y \in rs /\ x.ino # Root
    BY DEF Good, RowsGood, ParentGood, RootGood
  <2> QED
    BY <2>1, <2>2
<1> HIDE DEF y
<1>2. /\ TypeGood(m1, rs \ {y}) /\ JoinGood(m1, rs \ {y})
      /\ CountGood(m1, rs \ {y})
  BY <1>1, RowRemoved DEF Good
<1> HIDE DEF m1
<1>3. /\ TypeGood(AddLinks(m1, x.ino, -1), (rs \ {y}) \ {x})
      /\ JoinGood(AddLinks(m1, x.ino, -1), (rs \ {y}) \ {x})
      /\ CountGood(AddLinks(m1, x.ino, -1), (rs \ {y}) \ {x})
  BY <1>1, <1>2, RowRemoved
<1>4. /\ KeyGood(rs \ {y}) /\ UniqueGood(rs \ {y}) /\ RootGood(rs \ {y})
      /\ LinkedGood(rs \ {y}) /\ ReachGood(rs \ {y})
  BY <1>1, DotDotRemoved DEF Good, RowsGood
<1>5. \A r \in rs \ {y} : r.dir # x.ino
  BY DEF y
<1>6. \A r \in (rs \ {y}) \ {x} : r.name # "" /\ r.type = "dir"
                                => Row(r.ino, "", r.dir, "dir") \in rs \ {y}
  <2> SUFFICES ASSUME NEW r \in (rs \ {y}) \ {x}, r.name # "", r.type = "dir"
               PROVE  Row(r.ino, "", r.dir, "dir") \in rs \ {y}
    OBVIOUS
  <2>1. r.ino # x.ino
    BY DEF Good, RowsGood, UniqueGood
  <2>2. Row(r.ino, "", r.dir, "dir").dir = r.ino
    BY DEF Row
  <2>3. Row(r.ino, "", r.dir, "dir") \in rs
    BY DEF Good, RowsGood, ParentGood
  <2> QED
    BY <1>1, <2>1, <2>2, <2>3
<1>7. RowsGood((rs \ {y}) \ {x})
  BY <1>1, <1>4, <1>5, <1>6, EntryRemoved
<1> QED
  BY <1>3, <1>7 DEF Good, y, m1

-----------------------------------------------------------------------------
(* Moved entries *)

\* sql_rename: x becomes y, in a directory that is not below the inode they
\* name. A holds that directory and every directory that leads to it.
LEMMA EntryMoved ==
    ASSUME NEW rs, RowsGood(rs),
           NEW x \in rs, x.name # "",
           NEW y, y.name # "", y.ino = x.ino, HasEntry(rs, y.dir),
           \A r \in rs : ~(r.dir = y.dir /\ r.name = y.name),
           NEW A, y.dir \in A, x.ino \notin A,
           \A r \in rs : r.name # "" /\ r.ino \in A => r.dir \in A
    PROVE  LET rt == (rs \ {x}) \cup {y}
           IN  /\ \A i : HasEntry(rt, i) <=> HasEntry(rs, i)
               /\ KeyGood(rt) /\ UniqueGood(rt) /\ RootGood(rt)
               /\ LinkedGood(rt) /\ ReachGood(rt)
<1> DEFINE rt == (rs \ {x}) \cup {y}
<1>1. \A i : HasEntry(rt, i) <=> HasEntry(rs, i)
  BY DEF HasEntry
<1>2. KeyGood(rt)
  BY DEF RowsGood, KeyGood
<1>3. UniqueGood(rt)
  BY DEF RowsGood, UniqueGood
<1>4. RootGood(rt)
  <2>0. Row(Root, "", Root, "dir").name = ""
    BY DEF Row
  <2>1. x # Row(Root, "", Root, "dir") /\ x.ino # Root
    BY <2>0 DEF RowsGood, RootGood
  <2> QED
    BY <2>1 DEF RowsGood, RootGood
<1>5. LinkedGood(rt)
  <2> SUFFICES ASSUME NEW r \in rt
               PROVE  HasEntry(rs, r.dir)
    BY <1>1 DEF LinkedGood
  <2> QED
    BY DEF RowsGood, LinkedGood
<1>6. ReachGood(rt)
  <2> SUFFICES ASSUME NEW S, S # {}, Root \notin S, \A i \in S : HasEntry(rt, i)
               PROVE  \E r \in rt : r.name # "" /\ r.ino \in S /\ r.dir \notin S
    BY DEF ReachGood
  <2>1. \A i \in S : HasEntry(rs, i)
    BY <1>1
  <2>2. CASE x.ino \notin S
    <3>1. PICK r \in rs : r.name # "" /\ r.ino \in S /\ r.dir \notin S
      BY <2>1 DEF RowsGood, ReachGood
    <3> QED
      BY <2>2, <3>1
  <2>3. CASE x.ino \in S /\ y.dir \notin S
    BY <2>3
  <2>4. CASE x.ino \in S /\ y.dir \in S
    <3> DEFINE T == S \cap A
    <3>1. T # {} /\ Root \notin T /\ \A i \in T : HasEntry(rs, i)
      BY <2>1, <2>4
    <3>2. PICK r \in rs : r.name # "" /\ r.ino \in T /\ r.dir \notin T
      BY <3>1 DEF RowsGood, ReachGood
    <3> QED
      BY <3>2
  <2> QED
    BY <2>2, <2>3, <2>4
<1> QED
  BY <1>1, <1>2, <1>3, <1>4, <1>5, <1>6

\* A row that takes the place of one that named the same inode, of a type that
\* both record: the tables still match.
LEMMA RowReplaced ==
    ASSUME NEW m, NEW rs, TypeGood(m, rs), JoinGood(m, rs), CountGood(m, rs),
           NEW x \in rs, NEW y \in DirRow, y \notin rs,
           y.ino = x.ino, y.type = x.type,
           y.dir \in DOMAIN m, m[y.dir].type = "dir"
    PROVE  /\ TypeGood(m, (rs \ {x}) \cup {y})
           /\ JoinGood(m, (rs \ {x}) \cup {y})
           /\ CountGood(m, (rs \ {x}) \cup {y})
<1>1. CountGood(m, (rs \ {x}) \cup {y})
  BY CountReplace
<1>2. IsFiniteSet((rs \ {x}) \cup {y})
  BY FS_AddElement, FS_RemoveElement DEF TypeGood
<1>3. TypeGood(m, (rs \ {x}) \cup {y})
  BY <1>2 DEF TypeGood
<1>4. JoinGood(m, (rs \ {x}) \cup {y})
  BY DEF JoinGood
<1> QED
  BY <1>1, <1>3, <1>4

\* A new row and one more link to the inode it names: the tables still match.
LEMMA RowAdded ==
    ASSUME NEW m, NEW rs, TypeGood(m, rs), JoinGood(m, rs), CountGood(m, rs),
           NEW x \in DirRow, x \notin rs,
           x.dir \in DOMAIN m, m[x.dir].type = "dir",
           x.ino \in DOMAIN m, x.type = m[x.ino].type
    PROVE  /\ TypeGood(AddLinks(m, x.ino, 1), rs \cup {x})
           /\ JoinGood(AddLinks(m, x.ino, 1), rs \cup {x})
           /\ CountGood(AddLinks(m, x.ino, 1), rs \cup {x})
<1> DEFINE mm == AddLinks(m, x.ino, 1)
<1>1. /\ mm \in [DOMAIN m -> MetaRow]
      /\ DOMAIN mm = DOMAIN m
      /\ \A j \in DOMAIN m : mm[j].type = m[j].type
  BY AddLinksFacts DEF TypeGood
<1>2. CountGood(mm, rs \cup {x})
  BY CountAdd
<1> HIDE DEF mm
<1>3. IsFiniteSet(rs \cup {x})
  BY NamedAdd DEF TypeGood
<1>4. TypeGood(mm, rs \cup {x})
  BY <1>1, <1>3 DEF TypeGood
<1>5. JoinGood(mm, rs \cup {x})
  BY <1>1 DEF JoinGood
<1> QED
  BY <1>2, <1>4, <1>5 DEF mm

\* sqlfs_rename of a file, or within one directory: one row changes.
LEMMA MoveGood ==
    ASSUME NEW m, NEW rs, Good(m, rs), NEW x \in rs, x.name # "",
           NEW e \in DOMAIN m, m[e].type = "dir", HasEntry(rs, e),
           NEW n \in Names, \A r \in rs : ~(r.dir = e /\ r.name = n),
           NEW A, e \in A, x.ino \notin A,
           \A r \in rs : r.name # "" /\ r.ino \in A => r.dir \in A,
           x.type # "dir" \/ e = x.dir
    PROVE  Good(m, (rs \ {x}) \cup {Row(e, n, x.ino, x.type)})
<1> DEFINE y == Row(e, n, x.ino, x.type)
           rt == (rs \ {x}) \cup {y}
<1>1. /\ y \in DirRow /\ y.dir = e /\ y.name = n /\ y.ino = x.ino /\ y.type = x.type
      /\ n # "" /\ y \notin rs
  <2>1. x.ino \in Ino /\ x.type \in Types /\ e \in Ino
    BY RowFields DEF Good, TypeGood
  <2>2. n # "" /\ n \in RowNames
    BY NamesAssumption DEF RowNames
  <2>3. y \in DirRow /\ y.dir = e /\ y.name = n /\ y.ino = x.ino /\ y.type = x.type
    BY <2>1, <2>2 DEF Row, DirRow
  <2> QED
    BY <2>2, <2>3
<1> HIDE DEF y
<1>2. TypeGood(m, rt) /\ JoinGood(m, rt) /\ CountGood(m, rt)
  BY <1>1, RowReplaced DEF Good
<1>3. /\ KeyGood(rt) /\ UniqueGood(rt) /\ RootGood(rt)
      /\ LinkedGood(rt) /\ ReachGood(rt)
  BY <1>1, EntryMoved DEF Good
<1>4. ParentGood(rt)
  <2> SUFFICES ASSUME NEW r \in rt, r.name # "", r.type = "dir"
               PROVE  Row(r.ino, "", r.dir, "dir") \in rt
    BY DEF ParentGood
  <2>1. Row(r.ino, "", r.dir, "dir").name = ""
    BY DEF Row
  <2>2. Row(r.ino, "", r.dir, "dir") \in rs
    <3>1. CASE r = y
      BY <1>1, <3>1 DEF Good, RowsGood, ParentGood
    <3>2. CASE r \in rs
      BY <3>2 DEF Good, RowsGood, ParentGood
    <3> QED
      BY <3>1, <3>2
  <2> QED
    BY <2>1, <2>2
<1> QED
  BY <1>2, <1>3, <1>4 DEF Good, RowsGood, y

\* sqlfs_rename of a directory to another: its ".." row and the link counts of
\* both parents change as well.
LEMMA MoveDirGood ==
    ASSUME NEW m, NEW rs, Good(m, rs), NEW x \in rs, x.name # "", x.type = "dir",
           NEW e \in DOMAIN m, m[e].type = "dir", HasEntry(rs, e), e # x.dir,
           NEW n \in Names, \A r \in rs : ~(r.dir = e /\ r.name = n),
           NEW A, e \in A, x.ino \notin A,
           \A r \in rs : r.name # "" /\ r.ino \in A => r.dir \in A
    PROVE  Good(AddLinks(AddLinks(m, x.dir, -1), e, 1),
                ((((rs \ {x}) \cup {Row(e, n, x.ino, "dir")})
                    \ {Row(x.ino, "", x.dir, "dir")})
                    \cup {Row(x.ino, "", e, "dir")}))
<1> DEFINE y == Row(e, n, x.ino, "dir")
           z == Row(x.ino, "", x.dir, "dir")
           z2 == Row(x.ino, "", e, "dir")
           rt == (rs \ {x}) \cup {y}
           rt2 == (rt \ {z}) \cup {z2}
           m1 == AddLinks(m, x.dir, -1)
<1>1. x.ino \in Ino /\ x.dir \in Ino /\ e \in Ino /\ n # "" /\ n \in RowNames
  BY RowFields, NamesAssumption DEF Good, TypeGood, RowNames
<1>2. y \in DirRow /\ y.dir = e /\ y.name = n /\ y.ino = x.ino /\ y.type = "dir"
  BY <1>1 DEF Row, DirRow, Types
<1>3. z.dir = x.ino /\ z.name = "" /\ z.ino = x.dir
  BY DEF Row
<1>4. z2 \in DirRow /\ z2.dir = x.ino /\ z2.name = "" /\ z2.ino = e /\ z2.type = "dir"
  BY <1>1 DEF Row, DirRow, Types, RowNames
<1>5. z \in rs /\ x.ino # Root
  BY DEF Good, RowsGood, ParentGood, RootGood
<1> HIDE DEF y, z, z2
<1>6. TypeGood(m, rt) /\ JoinGood(m, rt) /\ CountGood(m, rt)
  <2>1. y \notin rs /\ y.type = x.type
    BY <1>2
  <2> QED
    BY <1>2, <2>1, RowReplaced DEF Good
<1>7. /\ KeyGood(rt) /\ UniqueGood(rt) /\ RootGood(rt)
      /\ LinkedGood(rt) /\ ReachGood(rt)
      /\ \A i : HasEntry(rt, i) <=> HasEntry(rs, i)
  BY <1>1, <1>2, EntryMoved DEF Good
<1>8. z \in rt /\ \A r \in rt \ {z} : ~(r.dir = x.ino /\ r.name = "")
  <2>1. z \in rt
    BY <1>3, <1>5
  <2> QED
    BY <1>3, <1>7, <2>1 DEF KeyGood
<1> DEFINE ru == rt \ {z}
<1> HIDE DEF rt
<1>9. TypeGood(m1, ru) /\ JoinGood(m1, ru) /\ CountGood(m1, ru)
  BY <1>3, <1>6, <1>8, RowRemoved
<1>10. /\ KeyGood(ru) /\ UniqueGood(ru) /\ RootGood(ru)
       /\ LinkedGood(ru) /\ ReachGood(ru)
  BY <1>3, <1>5, <1>7, <1>8, DotDotRemoved
<1>11. HasEntry(ru, z2.dir)
  BY <1>2, <1>3, <1>4, <1>1 DEF HasEntry, rt
<1> HIDE DEF ru
<1>12. DOMAIN m1 = DOMAIN m /\ \A j \in DOMAIN m : m1[j].type = m[j].type
  <2>1. x.dir \in DOMAIN m
    BY DEF Good, JoinGood
  <2>2. m \in [DOMAIN m -> MetaRow]
    BY DEF Good, TypeGood
  <2> QED
    BY <2>1, <2>2 DEF m1, AddLinks, MetaRow
<1> HIDE DEF m1
<1>13. \A r \in ru : ~(r.dir = z2.dir /\ r.name = "")
  BY <1>4, <1>8 DEF ru
<1>14. /\ TypeGood(AddLinks(m1, e, 1), ru \cup {z2})
       /\ JoinGood(AddLinks(m1, e, 1), ru \cup {z2})
       /\ CountGood(AddLinks(m1, e, 1), ru \cup {z2})
  <2>1. x.ino \in DOMAIN m /\ m[x.ino].type = "dir"
    BY DEF Good, JoinGood
  <2>2. z2 \notin ru
    BY <1>4, <1>13
  <2> QED
    BY <1>4, <1>9, <1>12, <2>1, <2>2, RowAdded
<1>15. /\ KeyGood(ru \cup {z2}) /\ UniqueGood(ru \cup {z2})
       /\ LinkedGood(ru \cup {z2}) /\ ReachGood(ru \cup {z2})
  BY <1>4, <1>10, <1>11, <1>13, DotDotAdded
<1>16. RootGood(ru \cup {z2})
  BY <1>4, <1>10 DEF RootGood
<1>17. ParentGood(ru \cup {z2})
  <2> SUFFICES ASSUME NEW r \in ru \cup {z2}, r.name # "", r.type = "dir"
               PROVE  Row(r.ino, "", r.dir, "dir") \in ru \cup {z2}
    BY DEF ParentGood
  <2>1. CASE r = y
    BY <1>2, <2>1 DEF z2
  <2>2. CASE r # y
    <3>1. r \in rs /\ r # x
      BY <1>4, <2>2 DEF ru, rt
    <3>2. r.ino # x.ino
      BY <3>1 DEF Good, RowsGood, UniqueGood
    <3>3. /\ Row(r.ino, "", r.dir, "dir").dir = r.ino
          /\ Row(r.ino, "", r.dir, "dir").name = ""
      BY DEF Row
    <3>4. Row(r.ino, "", r.dir, "dir") \in rs
      BY <3>1 DEF Good, RowsGood, ParentGood
    <3> QED
      BY <1>3, <3>2, <3>3, <3>4 DEF ru, rt
  <2> QED
    BY <2>1, <2>2
<1> QED
  BY <1>14, <1>15, <1>16, <1>17 DEF Good, RowsGood, ru, rt, y, z, z2, m1

-----------------------------------------------------------------------------
(* Link counts and purges *)

\* A ".." row names the directory that the entry of its own directory is in.
LEMMA DotDotNamesParent ==
    ASSUME NEW m, NEW rs, Good(m, rs), NEW r \in rs, r.name = "", r.dir # Root
    PROVE  \E q \in rs : /\ q.name # "" /\ q.ino = r.dir /\ q.type = "dir"
                         /\ q.dir = r.ino
<1>1. PICK q \in rs : q.name # "" /\ q.ino = r.dir
  BY DEF Good, RowsGood, LinkedGood, HasEntry
<1>2. q.type = "dir"
  BY <1>1 DEF Good, JoinGood
<1>3. Row(q.ino, "", q.dir, "dir") \in rs
  BY <1>1, <1>2 DEF Good, RowsGood, ParentGood
<1>4. /\ Row(q.ino, "", q.dir, "dir").dir = q.ino
      /\ Row(q.ino, "", q.dir, "dir").name = ""
      /\ Row(q.ino, "", q.dir, "dir").ino = q.dir
  BY DEF Row
<1>5. Row(q.ino, "", q.dir, "dir") = r
  BY <1>1, <1>3, <1>4 DEF Good, RowsGood, KeyGood
<1> QED
  BY <1>1, <1>2, <1>4, <1>5

\* The root's ".." row names the root.
LEMMA DotDotOfRoot ==
    ASSUME NEW m, NEW rs, Good(m, rs), NEW r \in rs, r.name = "", r.dir = Root
    PROVE  r.ino = Root /\ r.type = "dir"
<1>1. /\ Row(Root, "", Root, "dir").dir = Root
      /\ Row(Root, "", Root, "dir").name = ""
      /\ Row(Root, "", Root, "dir").ino = Root
      /\ Row(Root, "", Root, "dir").type = "dir"
  BY DEF Row
<1>2. Row(Root, "", Root, "dir") = r
  BY <1>1 DEF Good, RowsGood, RootGood, KeyGood
<1> QED
  BY <1>1, <1>2

\* An inode with links is the root or has an entry.
LEMMA LiveHasEntry ==
    ASSUME NEW m, NEW rs, Good(m, rs), NEW i \in DOMAIN m, m[i].nlink > 0
    PROVE  HasEntry(rs, i)
<1>1. m[i].nlink = Cardinality(Named(rs, i))
  BY DEF Good, CountGood
<1>2. Named(rs, i) # {}
  BY <1>1, NamedZero DEF Good, TypeGood
<1>3. PICK r \in rs : r.ino = i
  BY <1>2 DEF Named
<1>4. CASE r.name # ""
  BY <1>3, <1>4 DEF HasEntry
<1>5. CASE r.name = "" /\ r.dir = Root
  BY <1>3, <1>5, DotDotOfRoot DEF HasEntry
<1>6. CASE r.name = "" /\ r.dir # Root
  <2>1. PICK q \in rs : q.dir = r.ino
    BY <1>6, DotDotNamesParent
  <2> QED
    BY <1>3, <2>1 DEF Good, RowsGood, LinkedGood
<1> QED
  BY <1>4, <1>5, <1>6

\* An inode without links is in no row, neither as a child nor as a directory.
LEMMA DeadHasNoRows ==
    ASSUME NEW m, NEW rs, Good(m, rs), NEW i \in DOMAIN m, ~(m[i].nlink > 0)
    PROVE  /\ m[i].nlink = 0 /\ i # Root
           /\ \A r \in rs : r.ino # i /\ r.dir # i
<1>1. m[i].nlink = Cardinality(Named(rs, i))
  BY DEF Good, CountGood
<1>2. IsFiniteSet(Named(rs, i))
  BY FS_Subset DEF Good, TypeGood, Named
<1>3. Cardinality(Named(rs, i)) \in Nat
  BY <1>2, FS_CardinalityType
<1>4. m[i].nlink = 0
  BY <1>1, <1>3
<1>5. Named(rs, i) = {}
  BY <1>1, <1>2, <1>4, FS_EmptySet
<1>6. \A r \in rs : r.ino # i
  BY <1>5 DEF Named
<1>7. Row(Root, "", Root, "dir").ino = Root /\ Row(Root, "", Root, "dir") \in rs
  BY DEF Row, Good, RowsGood, RootGood
<1>8. i # Root
  BY <1>6, <1>7
<1>9. \A r \in rs : r.dir # i
  BY <1>6, <1>8 DEF Good, RowsGood, LinkedGood, HasEntry
<1> QED
  BY <1>4, <1>6, <1>8, <1>9

\* sqlfs_purge and sqlfs_purge_all: metadata rows without links go.
LEMMA PurgeGood ==
    ASSUME NEW m, NEW rs, Good(m, rs),
           NEW I, \A i \in I \cap DOMAIN m : ~(m[i].nlink > 0)
    PROVE  Good(DeleteMeta(m, I), rs)
<1> DEFINE mm == DeleteMeta(m, I)
<1>1. DOMAIN mm = DOMAIN m \ I /\ \A j \in DOMAIN m \ I : mm[j] = m[j]
  BY DEF DeleteMeta
<1>2. mm \in [DOMAIN mm -> MetaRow]
  BY DEF DeleteMeta, Good, TypeGood
<1> HIDE DEF mm
<1>3. \A r \in rs : r.ino \notin I /\ r.dir \notin I
  BY DeadHasNoRows DEF Good, JoinGood
<1>4. TypeGood(mm, rs)
  BY <1>1, <1>2 DEF Good, TypeGood
<1>5. JoinGood(mm, rs)
  BY <1>1, <1>3 DEF Good, JoinGood
<1>6. CountGood(mm, rs)
  BY <1>1 DEF Good, CountGood
<1> QED
  BY <1>4, <1>5, <1>6 DEF Good, mm

-----------------------------------------------------------------------------
(* The invariant *)

TablesGood == Good(meta, rows)

DataGood == filedata \subseteq Ino /\ NoOrphanData

Returned == [err : Errors \ {"ABORT"}, ino : Ino \cup {NoIno}]

IInv == TablesGood /\ DataGood /\ res \in Returned

-----------------------------------------------------------------------------
(* What the invariant implies *)

\* The parts of the invariant are the properties of Sqlfs.
LEMMA IInvImplies ==
    ASSUME IInv
    PROVE  /\ TypeOK /\ DirentsMatchMetadata /\ NlinkCountsRows /\ ParentAgrees
           /\ RemovedDirsAreEmpty /\ LinkedIsReachable
           /\ NoOrphanData /\ NeverAborts
<1> USE DEF IInv, TablesGood
<1>1. TypeOK
  BY DEF TypeOK, Good, TypeGood, DataGood, Returned
<1>2. DirentsMatchMetadata
  BY DEF DirentsMatchMetadata, Good, RowsGood, KeyGood, JoinGood, IsDirectory
<1>3. NlinkCountsRows
  BY DEF NlinkCountsRows, LinksTo, Named, Good, CountGood
<1>4. ParentAgrees
  BY DEF ParentAgrees, Good, RowsGood, UniqueGood, RootGood, ParentGood
<1>5. RemovedDirsAreEmpty
  BY DeadHasNoRows DEF RemovedDirsAreEmpty, Entries
<1>6. LinkedIsReachable
  <2> SUFFICES ASSUME NEW S,
                      S \subseteq {i \in DOMAIN meta \ {Root} : meta[i].nlink > 0},
                      S # {}
               PROVE  \E r \in rows : r.name # "" /\ r.ino \in S /\ r.dir \notin S
    BY DEF LinkedIsReachable
  <2>1. \A i \in S : HasEntry(rows, i)
    BY LiveHasEntry
  <2>2. Root \notin S
    OBVIOUS
  <2> QED
    BY <2>1, <2>2 DEF Good, RowsGood, ReachGood
<1>7. NoOrphanData /\ NeverAborts
  BY DEF DataGood, NeverAborts, Returned
<1> QED
  BY <1>1, <1>2, <1>3, <1>4, <1>5, <1>6, <1>7

-----------------------------------------------------------------------------
(* Initial states, and calls that change no table *)

\* create_root_directory() makes good tables.
LEMMA InitInv == Init => IInv
<1> SUFFICES ASSUME Init PROVE IInv
  OBVIOUS
<1> DEFINE x == Row(Root, "", Root, "dir")
<1>1. /\ x.dir = Root /\ x.name = "" /\ x.ino = Root /\ x.type = "dir"
      /\ x \in DirRow /\ Root \in Ino
  BY MaxInoAssumption DEF Row, DirRow, Root, Ino, RowNames, Types
<1>2. rows = {x}
  BY DEF Init
<1>3. /\ meta \in [DOMAIN meta -> MetaRow] /\ DOMAIN meta = {Root}
      /\ meta[Root].type = "dir" /\ meta[Root].nlink = 1
  <2>1. DOMAIN meta = {Root} /\ meta[Root] = [type |-> "dir", nlink |-> 1]
    BY DEF Init
  <2>2. [type |-> "dir", nlink |-> 1] \in MetaRow
    BY DEF MetaRow, Types
  <2>3. meta \in [{Root} -> MetaRow]
    BY <2>2 DEF Init
  <2> QED
    BY <2>1, <2>3
<1> HIDE DEF x
<1>4. IsFiniteSet(rows) /\ Cardinality(rows) = 1
  BY <1>2, FS_Singleton
<1>5. TypeGood(meta, rows)
  BY <1>1, <1>2, <1>3, <1>4 DEF TypeGood
<1>6. JoinGood(meta, rows)
  BY <1>1, <1>2, <1>3 DEF JoinGood
<1>7. CountGood(meta, rows)
  <2>1. Named(rows, Root) = rows
    BY <1>1, <1>2 DEF Named
  <2> QED
    BY <1>3, <1>4, <2>1 DEF CountGood
<1>8. RowsGood(rows)
  <2>1. \A i : HasEntry(rows, i) <=> i = Root
    BY <1>1, <1>2 DEF HasEntry
  <2>2. KeyGood(rows) /\ UniqueGood(rows) /\ ParentGood(rows)
    BY <1>1, <1>2 DEF KeyGood, UniqueGood, ParentGood
  <2>3. RootGood(rows)
    BY <1>1, <1>2 DEF RootGood, x
  <2>4. LinkedGood(rows)
    BY <1>1, <1>2, <2>1 DEF LinkedGood
  <2>5. ReachGood(rows)
    BY <2>1 DEF ReachGood
  <2> QED
    BY <2>2, <2>3, <2>4, <2>5 DEF RowsGood
<1>9. DataGood /\ res \in Returned
  BY DEF Init, DataGood, NoOrphanData, Returned, Errors
<1> QED
  BY <1>5, <1>6, <1>7, <1>8, <1>9 DEF IInv, TablesGood, Good

\* A call that fails, for a reason that is not an abort.
LEMMA FailsInv ==
    ASSUME IInv, NEW e \in Errors \ {"ABORT"}, Fails(e)
    PROVE  IInv'
<1>1. UNCHANGED <<meta, rows, filedata>>
  BY DEF Fails, Refuse
<1>2. res' \in Returned
  BY DEF Fails, Refuse, Result, Returned, Errors
<1> QED
  BY <1>1, <1>2 DEF IInv, TablesGood, DataGood, NoOrphanData

-----------------------------------------------------------------------------
(* Calls that make entries *)

\* A directory that was not removed has an entry, or is the root.
LEMMA LiveDir ==
    ASSUME IInv, NEW d \in Ino, NotRemoved(d), IsDirectory(d)
    PROVE  d \in DOMAIN meta /\ meta[d].type = "dir" /\ HasEntry(rows, d)
  BY LiveHasEntry DEF IInv, TablesGood, NotRemoved, IsDirectory

\* A create is refused for a reason that is not an abort; one that is not refused
\* has a regular name that is free, in a directory.
LEMMA CreateErrs ==
    ASSUME NEW d, NEW n, NEW i, NEW t
    PROVE  /\ CreateErr(d, n, i, t) \in Errors \ {"ABORT"}
           /\ CreateErr(d, n, i, t) = "OK" =>
                /\ n \in Names /\ IsDirectory(d)
                /\ \A r \in rows : ~(r.dir = d /\ r.name = n)
<1>1. StatDirErr(d) \in {"OK", "ENOENT", "ENOTDIR"}
  BY DEF StatDirErr
<1>2. StatDirErr(d) = "OK" => IsDirectory(d)
  BY DEF StatDirErr, IsDirectory
<1> QED
  BY <1>1, <1>2 DEF CreateErr, Errors, RowAt

\* The inode number SQLite picks is not in use, and has no contents.
LEMMA NewIno ==
    ASSUME IInv, NEW i \in Ino, IsNewIno(i)
    PROVE  i \notin DOMAIN meta /\ i \notin filedata
<1>1. i \notin DOMAIN meta
  BY DEF IsNewIno, Ino
<1> QED
  BY <1>1 DEF IInv, DataGood, NoOrphanData

\* sqlfs_mkdir preserves the invariant.
LEMMA MkdirInv ==
    ASSUME IInv, NEW d \in Ino, NEW n \in AnyName, NotRemoved(d), Mkdir(d, n)
    PROVE  IInv'
<1>1. PICK i \in Ino :
        /\ IsNewIno(i)
        /\ \/ Fails(CreateErr(d, n, i, "dir"))
           \/ /\ CreateErr(d, n, i, "dir") = "OK"
              /\ meta' = InsertMeta(AddLinks(meta, d, 1), i, "dir")
              /\ rows' = rows \cup NewDirRows(d, n, i)
              /\ Result("OK", i)
              /\ UNCHANGED filedata
  BY DEF Mkdir
<1>2. CASE Fails(CreateErr(d, n, i, "dir"))
  BY <1>2, CreateErrs, FailsInv
<1>3. CASE /\ CreateErr(d, n, i, "dir") = "OK"
           /\ meta' = InsertMeta(AddLinks(meta, d, 1), i, "dir")
           /\ rows' = rows \cup NewDirRows(d, n, i)
           /\ Result("OK", i)
           /\ UNCHANGED filedata
  <2>1. /\ n \in Names /\ IsDirectory(d)
        /\ \A r \in rows : ~(r.dir = d /\ r.name = n)
    BY <1>3, CreateErrs
  <2>2. d \in DOMAIN meta /\ meta[d].type = "dir" /\ HasEntry(rows, d)
    BY <2>1, LiveDir
  <2>3. i \notin DOMAIN meta /\ i \notin filedata
    BY <1>1, NewIno
  <2>4. TablesGood'
    BY <1>3, <2>1, <2>2, <2>3, MkdirGood DEF IInv, TablesGood
  <2>5. \A j \in DOMAIN meta : j \in DOMAIN meta' /\ meta'[j].type = meta[j].type
    BY <1>3, <2>3 DEF InsertMeta, AddLinks, IInv, TablesGood, Good, TypeGood, MetaRow
  <2>6. DataGood'
    BY <1>3, <2>5 DEF IInv, DataGood, NoOrphanData
  <2>7. res' \in Returned
    BY <1>3 DEF Result, Returned, Errors
  <2> QED
    BY <2>4, <2>6, <2>7 DEF IInv
<1> QED
  BY <1>1, <1>2, <1>3

\* sqlfs_mknod preserves the invariant.
LEMMA MknodInv ==
    ASSUME IInv, NEW d \in Ino, NEW n \in AnyName, NotRemoved(d), Mknod(d, n)
    PROVE  IInv'
<1>1. PICK i \in Ino :
        /\ IsNewIno(i)
        /\ \/ Fails(CreateErr(d, n, i, "file"))
           \/ /\ CreateErr(d, n, i, "file") = "OK"
              /\ meta' = InsertMeta(meta, i, "file")
              /\ rows' = rows \cup {Row(d, n, i, "file")}
              /\ Result("OK", i)
              /\ UNCHANGED filedata
  BY DEF Mknod
<1>2. CASE Fails(CreateErr(d, n, i, "file"))
  BY <1>2, CreateErrs, FailsInv
<1>3. CASE /\ CreateErr(d, n, i, "file") = "OK"
           /\ meta' = InsertMeta(meta, i, "file")
           /\ rows' = rows \cup {Row(d, n, i, "file")}
           /\ Result("OK", i)
           /\ UNCHANGED filedata
  <2>1. /\ n \in Names /\ IsDirectory(d)
        /\ \A r \in rows : ~(r.dir = d /\ r.name = n)
    BY <1>3, CreateErrs
  <2>2. d \in DOMAIN meta /\ meta[d].type = "dir" /\ HasEntry(rows, d)
    BY <2>1, LiveDir
  <2>3. i \notin DOMAIN meta /\ i \notin filedata
    BY <1>1, NewIno
  <2>4. TablesGood'
    BY <1>3, <2>1, <2>2, <2>3, MknodGood DEF IInv, TablesGood
  <2>5. \A j \in DOMAIN meta : j \in DOMAIN meta' /\ meta'[j].type = meta[j].type
    BY <1>3, <2>3 DEF InsertMeta
  <2>6. DataGood'
    BY <1>3, <2>5 DEF IInv, DataGood, NoOrphanData
  <2>7. res' \in Returned
    BY <1>3 DEF Result, Returned, Errors
  <2> QED
    BY <2>4, <2>6, <2>7 DEF IInv
<1> QED
  BY <1>1, <1>2, <1>3

-----------------------------------------------------------------------------
(* Calls that remove entries *)

\* Two rows in a directory are more than one row.
LEMMA TwoEntries ==
    ASSUME IInv, NEW i, NEW p \in Entries(i), NEW q \in Entries(i), p # q
    PROVE  Cardinality(Entries(i)) > 1
<1>1. IsFiniteSet(Entries(i))
  BY FS_Subset DEF Entries, IInv, TablesGood, Good, TypeGood
<1>2. /\ IsFiniteSet(Entries(i) \ {p})
      /\ Cardinality(Entries(i) \ {p}) = Cardinality(Entries(i)) - 1
      /\ Cardinality(Entries(i)) \in Nat
      /\ Cardinality(Entries(i) \ {p}) \in Nat
  BY <1>1, FS_RemoveElement, FS_CardinalityType
<1>3. Cardinality(Entries(i) \ {p}) # 0
  BY <1>2, FS_EmptySet
<1> QED
  BY <1>2, <1>3

\* What lookup() returns: the directory itself, or what a row of it names.
LEMMA FoundCases ==
    ASSUME NEW d, NEW n, NEW c \in Found(d, n)
    PROVE  \/ n = "." /\ c.ino = d /\ c.type = "dir"
           \/ n = ".." /\ \E r \in rows : /\ r.dir = d /\ r.name = ""
                                        /\ c.ino = r.ino /\ c.type = r.type
           \/ /\ n # "." /\ n # ".."
              /\ \E r \in RowAt(d, n) : c.ino = r.ino /\ c.type = r.type
<1>1. CASE n = "."
  <2>1. Found(d, n) = {[ino |-> d, type |-> "dir"]}
    BY <1>1 DEF Found
  <2> QED
    BY <1>1, <2>1
<1>2. CASE n # "."
  <2>1. PICK k : /\ k = IF n = ".." THEN "" ELSE n
                 /\ Found(d, n) = {[ino |-> r.ino, type |-> r.type] : r \in RowAt(d, k)}
    BY <1>2 DEF Found
  <2>2. PICK r \in RowAt(d, k) : c = [ino |-> r.ino, type |-> r.type]
    BY <2>1
  <2>3. r \in rows /\ r.dir = d /\ r.name = k
    BY DEF RowAt
  <2>4. c.ino = r.ino /\ c.type = r.type
    BY <2>2
  <2>5. CASE n = ".."
    BY <2>1, <2>3, <2>4, <2>5
  <2>6. CASE n # ".."
    <3>1. k = n
      BY <2>1, <2>6
    <3> QED
      BY <1>2, <2>4, <2>6, <3>1
  <2> QED
    BY <2>5, <2>6
<1> QED
  BY <1>1, <1>2

\* A directory other than the root that a row names has a ".." row.
LEMMA FoundRow ==
    ASSUME IInv, NEW x \in rows, x.name # "", x.type = "dir"
    PROVE  Row(x.ino, "", x.dir, "dir") \in Entries(x.ino)
<1>1. Row(x.ino, "", x.dir, "dir") \in rows
  BY DEF IInv, TablesGood, Good, RowsGood, ParentGood
<1> QED
  BY <1>1 DEF Entries, Row

\* c is what a row (d, n) names: an empty directory, or a file.
EmptyDirEntry(d, n, c) ==
    \E x \in rows : /\ x.dir = d /\ x.name = n
                    /\ x.ino = c.ino /\ x.type = "dir"
                    /\ Entries(c.ino) = {Row(x.ino, "", x.dir, "dir")}

FileEntry(d, n, c) ==
    \E x \in rows : /\ x.dir = d /\ x.name = n
                    /\ x.ino = c.ino /\ x.type = c.type /\ x.type # "dir"

\* A child that remove_impl() accepts as a directory is one with an entry in d
\* under a regular name, and its ".." row is its only row. It never finds a
\* directory without rows.
LEMMA RemoveDirErr ==
    ASSUME IInv, NEW d \in Ino, NEW n \in AnyName, n # "",
           NEW c \in Found(d, n)
    PROVE  /\ RemoveErr(d, c, TRUE) \in Errors \ {"ABORT"}
           /\ RemoveErr(d, c, TRUE) = "OK" => EmptyDirEntry(d, n, c)
<1>1. CASE c.type # "dir" \/ c.ino = Root \/ c.ino = d
  BY <1>1 DEF RemoveErr, Errors
<1>2. CASE c.type = "dir" /\ c.ino # Root /\ c.ino # d
  <2>1. n # "."
    BY <1>2, FoundCases
  <2>2. CASE n = ".."
    <3>1. PICK r \in rows : /\ r.dir = d /\ r.name = ""
                            /\ c.ino = r.ino /\ c.type = r.type
      BY <2>2, FoundCases
    <3>2. d # Root
      BY <1>2, <3>1, DotDotOfRoot DEF IInv, TablesGood
    <3>3. PICK q \in rows : /\ q.name # "" /\ q.ino = d /\ q.type = "dir"
                            /\ q.dir = c.ino
      BY <3>1, <3>2, DotDotNamesParent DEF IInv, TablesGood
    <3>4. PICK p \in rows : p.name # "" /\ p.ino = c.ino
      BY <1>2, <3>3 DEF IInv, TablesGood, Good, RowsGood, LinkedGood, HasEntry
    <3>5. p.type = "dir"
      BY <3>3, <3>4 DEF IInv, TablesGood, Good, JoinGood
    <3>6. Row(p.ino, "", p.dir, "dir") \in Entries(c.ino)
      BY <3>4, <3>5, FoundRow
    <3>7. q \in Entries(c.ino) /\ q # Row(p.ino, "", p.dir, "dir")
      <4>1. Row(p.ino, "", p.dir, "dir").name = ""
        BY DEF Row
      <4> QED
        BY <3>3, <4>1 DEF Entries
    <3>8. Cardinality(Entries(c.ino)) > 1
      BY <3>6, <3>7, TwoEntries
    <3>9. RemoveErr(d, c, TRUE) = "ENOTEMPTY"
      BY <1>2, <3>8 DEF RemoveErr
    <3> QED
      BY <3>9 DEF Errors
  <2>3. CASE n # ".."
    <3>0. PICK x \in RowAt(d, n) : c.ino = x.ino /\ c.type = x.type
      BY <2>1, <2>3, FoundCases
    <3>1. /\ x \in rows /\ x.dir = d /\ x.name = n
          /\ x.ino = c.ino /\ x.type = c.type
      BY <3>0 DEF RowAt
    <3> DEFINE y == Row(x.ino, "", x.dir, "dir")
    <3>2. y \in Entries(c.ino)
      BY <1>2, <3>1, FoundRow
    <3>3. ~(Cardinality(Entries(c.ino)) > 1) => Entries(c.ino) = {y}
      BY <3>2, TwoEntries
    <3>4. RemoveErr(d, c, TRUE) \in {"ENOTEMPTY", "OK", "ENOENT"}
      BY <1>2, <3>2 DEF RemoveErr
    <3>5. RemoveErr(d, c, TRUE) = "OK" => ~(Cardinality(Entries(c.ino)) > 1)
      BY <1>2 DEF RemoveErr
    <3> QED
      BY <1>2, <3>1, <3>3, <3>4, <3>5 DEF Errors, EmptyDirEntry
  <2> QED
    BY <2>2, <2>3
<1> QED
  BY <1>1, <1>2

\* A child that remove_impl() accepts as a file is one with an entry in d.
LEMMA RemoveFileErr ==
    ASSUME IInv, NEW d \in Ino, NEW n \in AnyName, n # "",
           NEW c \in Found(d, n)
    PROVE  /\ RemoveErr(d, c, FALSE) \in Errors \ {"ABORT"}
           /\ RemoveErr(d, c, FALSE) = "OK" => FileEntry(d, n, c)
<1>1. RemoveErr(d, c, FALSE) \in {"EISDIR", "OK", "ENOENT"}
  BY DEF RemoveErr
<1>2. ASSUME RemoveErr(d, c, FALSE) = "OK"
      PROVE  FileEntry(d, n, c)
  <2>1. c.type # "dir"
    BY <1>2 DEF RemoveErr
  <2>2. n # "."
    BY <2>1, FoundCases
  <2>3. n # ".."
    <3> SUFFICES ASSUME n = ".." PROVE FALSE
      OBVIOUS
    <3>1. PICK r \in rows : /\ r.dir = d /\ r.name = ""
                            /\ c.ino = r.ino /\ c.type = r.type
      BY FoundCases
    <3>2. CASE d = Root
      BY <2>1, <3>1, <3>2, DotDotOfRoot DEF IInv, TablesGood
    <3>3. CASE d # Root
      <4>1. \E q \in rows : q.dir = c.ino
        BY <3>1, <3>3, DotDotNamesParent DEF IInv, TablesGood
      <4> QED
        BY <2>1, <3>1, <4>1 DEF IInv, TablesGood, Good, JoinGood
    <3> QED
      BY <3>2, <3>3
  <2>4. PICK x \in RowAt(d, n) : c.ino = x.ino /\ c.type = x.type
    BY <2>2, <2>3, FoundCases
  <2> QED
    BY <2>1, <2>4 DEF RowAt, FileEntry
<1> QED
  BY <1>1, <1>2 DEF Errors

\* The same inodes, of the same types.
SameTypes(m, mm) ==
    DOMAIN mm = DOMAIN m /\ \A j \in DOMAIN m : mm[j].type = m[j].type

\* A change of a link count keeps the inodes and their types.
LEMMA LinksKeepTypes ==
    ASSUME NEW m, m \in [DOMAIN m -> MetaRow], NEW i \in DOMAIN m
    PROVE  /\ AddLinks(m, i, -1) \in [DOMAIN m -> MetaRow]
           /\ SameTypes(m, AddLinks(m, i, -1))
           /\ SameTypes(m, AddLinks(m, i, 1))
  BY AddLinksFacts DEF SameTypes

\* So do two changes.
LEMMA LinksKeepTypesTwice ==
    ASSUME NEW m, m \in [DOMAIN m -> MetaRow],
           NEW i \in DOMAIN m, NEW j \in DOMAIN m
    PROVE  /\ SameTypes(m, AddLinks(AddLinks(m, i, -1), j, -1))
           /\ SameTypes(m, AddLinks(AddLinks(m, i, -1), j, 1))
<1> DEFINE m1 == AddLinks(m, i, -1)
<1>1. m1 \in [DOMAIN m -> MetaRow] /\ SameTypes(m, m1)
  BY LinksKeepTypes
<1> HIDE DEF m1
<1>2. DOMAIN m1 = DOMAIN m
  BY <1>1 DEF SameTypes
<1>3. SameTypes(m1, AddLinks(m1, j, -1)) /\ SameTypes(m1, AddLinks(m1, j, 1))
  BY <1>1, <1>2, LinksKeepTypes
<1> QED
  BY <1>1, <1>3 DEF SameTypes, m1

\* remove_impl() keeps the tables good and all types, and takes no rows but the
\* entry (d, n) and the ".." row of c.
RemovesWell(d, n, c, isDir) ==
    /\ Good(RemovedMeta(d, c, isDir), RemovedRows(d, n, c, isDir))
    /\ SameTypes(meta, RemovedMeta(d, c, isDir))
    /\ \A r \in rows \ RemovedRows(d, n, c, isDir) :
            ~(r.dir = d /\ r.name = n) => r.dir = c.ino /\ r.name = ""

\* remove_impl() of an empty directory.
LEMMA RemoveDirGood ==
    ASSUME IInv, NEW d \in Ino, NEW n \in AnyName, n # "",
           NEW c \in Found(d, n), RemoveErr(d, c, TRUE) = "OK"
    PROVE  RemovesWell(d, n, c, TRUE)
<1> DEFINE mm == RemovedMeta(d, c, TRUE)
           rs == RemovedRows(d, n, c, TRUE)
<1>0. Good(meta, rows)
  BY DEF IInv, TablesGood
<1>1. PICK x \in rows : /\ x.dir = d /\ x.name = n
                        /\ x.ino = c.ino /\ x.type = "dir"
                        /\ Entries(c.ino) = {Row(x.ino, "", x.dir, "dir")}
  <2>1. EmptyDirEntry(d, n, c)
    BY RemoveDirErr
  <2> QED
    BY <2>1 DEF EmptyDirEntry
<1> DEFINE y == Row(x.ino, "", x.dir, "dir")
<1>2. y.name = "" /\ y.dir = c.ino /\ y \in rows
  BY <1>1 DEF Row, Entries
<1>3. \A r \in rows : r.dir = c.ino <=> r = y
  BY <1>1, <1>2 DEF Entries
<1>4. \A r \in rows : r.dir = d /\ r.name = n <=> r = x
  BY <1>0, <1>1 DEF Good, RowsGood, KeyGood
<1>5. rs = (rows \ {y}) \ {x}
  BY <1>3, <1>4 DEF RemovedRows
<1>6. mm = AddLinks(AddLinks(meta, x.dir, -1), x.ino, -1)
  BY <1>1 DEF RemovedMeta
<1>7. Good(mm, rs)
  <2>1. \A r \in rows : r.dir = x.ino => r = y
    BY <1>1, <1>3
  <2>2. Good(AddLinks(AddLinks(meta, x.dir, -1), x.ino, -1), (rows \ {y}) \ {x})
    BY <1>0, <1>1, <2>1, RmdirGood
  <2> QED
    BY <1>5, <1>6, <2>2
<1>8. SameTypes(meta, mm)
  <2>1. x.dir \in DOMAIN meta /\ x.ino \in DOMAIN meta
    BY <1>0 DEF Good, JoinGood
  <2>2. meta \in [DOMAIN meta -> MetaRow]
    BY <1>0 DEF Good, TypeGood
  <2> QED
    BY <1>6, <2>1, <2>2, LinksKeepTypesTwice
<1> QED
  BY <1>1, <1>2, <1>5, <1>7, <1>8 DEF RemovesWell

\* remove_impl() of a file.
LEMMA RemoveFileGood ==
    ASSUME IInv, NEW d \in Ino, NEW n \in AnyName, n # "",
           NEW c \in Found(d, n), RemoveErr(d, c, FALSE) = "OK"
    PROVE  RemovesWell(d, n, c, FALSE)
<1> DEFINE mm == RemovedMeta(d, c, FALSE)
           rs == RemovedRows(d, n, c, FALSE)
<1>0. Good(meta, rows)
  BY DEF IInv, TablesGood
<1>1. PICK x \in rows : /\ x.dir = d /\ x.name = n
                        /\ x.ino = c.ino /\ x.type = c.type /\ x.type # "dir"
  <2>1. FileEntry(d, n, c)
    BY RemoveFileErr
  <2> QED
    BY <2>1 DEF FileEntry
<1>2. \A r \in rows : r.dir = d /\ r.name = n <=> r = x
  BY <1>0, <1>1 DEF Good, RowsGood, KeyGood
<1>3. rs = rows \ {x}
  BY <1>2 DEF RemovedRows
<1>4. mm = AddLinks(meta, x.ino, -1)
  BY <1>1 DEF RemovedMeta
<1>5. Good(mm, rs)
  <2>1. x.name # ""
    BY <1>1
  <2>2. Good(AddLinks(meta, x.ino, -1), rows \ {x})
    BY <1>0, <1>1, <2>1, UnlinkGood
  <2> QED
    BY <1>3, <1>4, <2>2
<1>6. SameTypes(meta, mm)
  <2>1. x.ino \in DOMAIN meta
    BY <1>0 DEF Good, JoinGood
  <2>2. meta \in [DOMAIN meta -> MetaRow]
    BY <1>0 DEF Good, TypeGood
  <2> QED
    BY <1>4, <2>1, <2>2, LinksKeepTypes
<1> QED
  BY <1>1, <1>3, <1>5, <1>6 DEF RemovesWell

\* remove_impl() of either.
LEMMA RemoveGood ==
    ASSUME IInv, NEW d \in Ino, NEW n \in AnyName, n # "",
           NEW c \in Found(d, n), NEW isDir \in BOOLEAN, RemoveErr(d, c, isDir) = "OK"
    PROVE  RemovesWell(d, n, c, isDir)
<1>1. CASE isDir = TRUE
  <2>1. RemoveErr(d, c, TRUE) = "OK"
    BY <1>1
  <2>2. RemovesWell(d, n, c, TRUE)
    BY <2>1, RemoveDirGood
  <2> QED
    BY <1>1, <2>2
<1>2. CASE isDir = FALSE
  <2>1. RemoveErr(d, c, FALSE) = "OK"
    BY <1>2
  <2>2. RemovesWell(d, n, c, FALSE)
    BY <2>1, RemoveFileGood
  <2> QED
    BY <1>2, <2>2
<1> QED
  BY <1>1, <1>2

\* The tables are good, no type has changed, and the call returns an inode.
LEMMA KeepsData ==
    ASSUME IInv, Good(meta', rows'), UNCHANGED filedata,
           SameTypes(meta, meta'),
           NEW i \in Ino \cup {NoIno}, Result("OK", i)
    PROVE  IInv'
<1>1. DataGood'
  BY DEF IInv, DataGood, NoOrphanData, SameTypes
<1>2. res' \in Returned
  BY DEF Result, Returned, Errors
<1> QED
  BY <1>1, <1>2 DEF IInv, TablesGood

\* What lookup() returns is an inode number.
LEMMA FoundIno ==
    ASSUME IInv, NEW d \in Ino, NEW n, NEW c \in Found(d, n)
    PROVE  c.ino \in Ino
<1>1. \A r \in rows : r.ino \in Ino
  BY RowFields DEF IInv, TablesGood, Good, TypeGood
<1>2. CASE n = "."
  BY <1>2, FoundCases
<1>3. CASE n = ".."
  BY <1>1, <1>3, FoundCases
<1>4. CASE n # "." /\ n # ".."
  <2>1. PICK r \in RowAt(d, n) : c.ino = r.ino
    BY <1>4, FoundCases
  <2> QED
    BY <1>1, <2>1 DEF RowAt
<1> QED
  BY <1>2, <1>3, <1>4

\* sqlfs_rmdir preserves the invariant.
LEMMA RmdirInv ==
    ASSUME IInv, NEW d \in Ino, NEW n \in AnyName, Rmdir(d, n)
    PROVE  IInv'
<1>1. CASE n = "" /\ Fails("EINVAL")
  BY <1>1, FailsInv DEF Errors
<1>2. CASE n # "" /\ Found(d, n) = {} /\ Fails("ENOENT")
  BY <1>2, FailsInv DEF Errors
<1>3. ASSUME n # "", NEW c \in Found(d, n), Fails(RemoveErr(d, c, TRUE))
      PROVE  IInv'
  BY <1>3, RemoveDirErr, FailsInv
<1>4. ASSUME n # "", NEW c \in Found(d, n),
             /\ RemoveErr(d, c, TRUE) = "OK"
             /\ meta' = RemovedMeta(d, c, TRUE)
             /\ rows' = RemovedRows(d, n, c, TRUE)
             /\ Result("OK", c.ino)
             /\ UNCHANGED filedata
      PROVE  IInv'
  <2>1. Good(meta', rows') /\ SameTypes(meta, meta')
    BY <1>4, RemoveDirGood DEF RemovesWell
  <2> QED
    BY <1>4, <2>1, FoundIno, KeepsData
<1> QED
  BY <1>1, <1>2, <1>3, <1>4 DEF Rmdir, Remove

\* sqlfs_unlink preserves the invariant.
LEMMA UnlinkInv ==
    ASSUME IInv, NEW d \in Ino, NEW n \in AnyName, Unlink(d, n)
    PROVE  IInv'
<1>1. CASE n = "" /\ Fails("EINVAL")
  BY <1>1, FailsInv DEF Errors
<1>2. CASE n # "" /\ Found(d, n) = {} /\ Fails("ENOENT")
  BY <1>2, FailsInv DEF Errors
<1>3. ASSUME n # "", NEW c \in Found(d, n), Fails(RemoveErr(d, c, FALSE))
      PROVE  IInv'
  BY <1>3, RemoveFileErr, FailsInv
<1>4. ASSUME n # "", NEW c \in Found(d, n),
             /\ RemoveErr(d, c, FALSE) = "OK"
             /\ meta' = RemovedMeta(d, c, FALSE)
             /\ rows' = RemovedRows(d, n, c, FALSE)
             /\ Result("OK", c.ino)
             /\ UNCHANGED filedata
      PROVE  IInv'
  <2>1. Good(meta', rows') /\ SameTypes(meta, meta')
    BY <1>4, RemoveFileGood DEF RemovesWell
  <2> QED
    BY <1>4, <2>1, FoundIno, KeepsData
<1> QED
  BY <1>1, <1>2, <1>3, <1>4 DEF Unlink, Remove

-----------------------------------------------------------------------------
(* Calls that move entries *)

\* sql_reparent_directory on one row.
WithParent(q, i, e) == IF q.dir = i /\ q.name = "" THEN [q EXCEPT !.ino = e] ELSE q

\* The ".." row of a directory names its new parent.
LEMMA RowReparented ==
    ASSUME NEW i, NEW d, NEW e
    PROVE  WithParent(Row(i, "", d, "dir"), i, e) = Row(i, "", e, "dir")
  BY DEF Row, WithParent

\* The two UPDATEs of sqlfs_rename keep the tables good. mt and rs are the
\* tables after remove_impl(), if the target name was taken.
LEMMA MovedGood ==
    ASSUME NEW mt, NEW rs, Good(mt, rs), SameTypes(meta, mt),
           NEW r \in rs, r.name # "",
           NEW e \in DOMAIN mt, mt[e].type = "dir", HasEntry(rs, e),
           NEW m \in Names, \A q \in rs : ~(q.dir = e /\ q.name = m),
           NEW A, e \in A, r.ino \notin A,
           \A q \in rs : q.name # "" /\ q.ino \in A => q.dir \in A
    PROVE  /\ Good(MovedMeta(mt, r, e), MovedRows(rs, r, e, m))
           /\ SameTypes(meta, MovedMeta(mt, r, e))
<1>1. /\ r.ino \in DOMAIN mt /\ r.dir \in DOMAIN mt
      /\ r.type = mt[r.ino].type /\ mt[r.ino].type = meta[r.ino].type
      /\ mt \in [DOMAIN mt -> MetaRow]
  BY DEF Good, TypeGood, JoinGood, SameTypes
<1>2. CASE ~(meta[r.ino].type = "dir" /\ r.dir # e)
  <2>1. MovedMeta(mt, r, e) = mt
    BY <1>2 DEF MovedMeta
  <2>2. MovedRows(rs, r, e, m) = (rs \ {r}) \cup {Row(e, m, r.ino, r.type)}
    BY <1>2 DEF MovedRows
  <2>3. r.type # "dir" \/ e = r.dir
    BY <1>1, <1>2
  <2>4. Good(mt, (rs \ {r}) \cup {Row(e, m, r.ino, r.type)})
    BY <2>3, MoveGood
  <2> QED
    BY <2>1, <2>2, <2>4
<1>3. CASE meta[r.ino].type = "dir" /\ r.dir # e
  <2> DEFINE y == Row(e, m, r.ino, "dir")
             z == Row(r.ino, "", r.dir, "dir")
             z2 == Row(r.ino, "", e, "dir")
             moved == (rs \ {r}) \cup {y}
  <2>1. MovedMeta(mt, r, e) = AddLinks(AddLinks(mt, r.dir, -1), e, 1)
    BY <1>3 DEF MovedMeta
  <2>2. r.type = "dir"
    BY <1>1, <1>3
  <2>3. MovedRows(rs, r, e, m) = {WithParent(q, r.ino, e) : q \in moved}
    BY <1>3, <2>2 DEF MovedRows, WithParent
  <2>4. z \in rs /\ z.dir = r.ino /\ z.name = "" /\ WithParent(z, r.ino, e) = z2
    <3>1. z \in rs
      BY <2>2 DEF Good, RowsGood, ParentGood
    <3>2. z.dir = r.ino /\ z.name = ""
      BY DEF Row
    <3>3. WithParent(z, r.ino, e) = z2
      BY RowReparented
    <3> QED
      BY <3>1, <3>2, <3>3
  <2>5. y.name # ""
    BY NamesAssumption DEF Row
  <2> HIDE DEF y, z, z2
  <2>6. \A q \in moved : q.dir = r.ino /\ q.name = "" <=> q = z
    BY <2>4, <2>5 DEF Good, RowsGood, KeyGood
  <2>7. z \in moved
    BY <2>4
  <2> HIDE DEF moved
  <2>8. {WithParent(q, r.ino, e) : q \in moved} = (moved \ {z}) \cup {z2}
    <3>1. \A q \in moved \ {z} : WithParent(q, r.ino, e) = q
      BY <2>6 DEF WithParent
    <3> QED
      BY <2>4, <2>7, <3>1
  <2>9. Good(AddLinks(AddLinks(mt, r.dir, -1), e, 1), (moved \ {z}) \cup {z2})
    BY <1>3, <2>2, MoveDirGood DEF moved, y, z, z2
  <2>10. SameTypes(mt, AddLinks(AddLinks(mt, r.dir, -1), e, 1))
    BY <1>1, LinksKeepTypesTwice
  <2> QED
    BY <2>1, <2>3, <2>8, <2>9, <2>10 DEF SameTypes
<1> QED
  BY <1>2, <1>3

\* The promise of the callers gives a set that holds the new parent and all that
\* leads to it, and not the inode that moves.
LEMMA AboveTarget ==
    ASSUME IInv, NEW d, NEW n, NEW e \in Ino, IsDirectory(e),
           MakesNoCycle(d, n, e), NEW r \in RowAt(d, n)
    PROVE  \E A : /\ e \in A /\ r.ino \notin A
                 /\ \A q \in rows : q.name # "" /\ q.ino \in A => q.dir \in A
<1>1. CASE r.type = "dir"
  <2>1. NotBelow(r.ino, e)
    BY <1>1 DEF MakesNoCycle
  <2> QED
    BY <2>1 DEF NotBelow
<1>2. CASE r.type # "dir"
  <2> DEFINE A == Ino \ {r.ino}
  <2>1. r \in rows /\ meta[r.ino].type # "dir"
    BY <1>2 DEF RowAt, IInv, TablesGood, Good, JoinGood
  <2>2. e \in A /\ r.ino \notin A
    BY <2>1 DEF IsDirectory
  <2>3. \A q \in rows : q.dir \in Ino /\ q.dir # r.ino
    BY <2>1, RowFields DEF IInv, TablesGood, Good, JoinGood, TypeGood
  <2> QED
    BY <2>2, <2>3
<1> QED
  BY <1>1, <1>2

\* What is known once both parents were found to be directories, and the entry
\* to exist: nothing has changed yet.
LEMMA RenameParents ==
    ASSUME IInv, NEW d \in Ino, NEW e \in Ino, NEW n \in RowNames, NEW m \in RowNames,
           NotRemoved(e)
    PROVE  /\ RenameParentsErr(d, n, e, m) \in Errors \ {"ABORT"}
           /\ RenameParentsErr(d, n, e, m) = "OK" =>
                /\ n \in Names /\ m \in Names
                /\ IsDirectory(e) /\ e \in DOMAIN meta /\ meta[e].type = "dir"
                /\ HasEntry(rows, e)
<1>1. /\ ParentErr(d) \in {"OK", "ENOENT", "ENOTDIR"}
      /\ ParentErr(e) \in {"OK", "ENOENT", "ENOTDIR"}
      /\ ParentErr(e) = "OK" => IsDirectory(e)
  BY DEF ParentErr, IsDirectory
<1>2. RenameParentsErr(d, n, e, m) \in Errors \ {"ABORT"}
  BY <1>1 DEF RenameParentsErr, Errors
<1>3. RenameParentsErr(d, n, e, m) = "OK" =>
        n \in Names /\ m \in Names /\ IsDirectory(e)
  BY <1>1 DEF RenameParentsErr
<1> QED
  BY <1>2, <1>3, LiveDir

\* The target name is free.
LEMMA RenameToFreeInv ==
    ASSUME IInv, NEW d \in Ino, NEW n \in Names, NEW r \in Joined(d, n),
           NEW e \in Ino, NEW m \in Names, IsDirectory(e), HasEntry(rows, e),
           MakesNoCycle(d, n, e), Joined(e, m) = {}, RenameToFree(r, e, m)
    PROVE  IInv'
<1>1. MoveErr(rows, r, e, m) \in Errors \ {"ABORT"}
  BY DEF MoveErr, Errors
<1>2. CASE Fails(MoveErr(rows, r, e, m))
  BY <1>1, <1>2, FailsInv
<1>3. CASE /\ meta' = MovedMeta(meta, r, e)
           /\ rows' = MovedRows(rows, r, e, m)
           /\ Result("OK", NoIno)
           /\ UNCHANGED filedata
  <2>1. r \in RowAt(d, n) /\ r \in rows /\ r.name = n
    BY DEF Joined, RowAt
  <2>2. r.name # ""
    BY <2>1, NamesAssumption
  <2>3. \A q \in rows : ~(q.dir = e /\ q.name = m)
    BY DEF Joined, RowAt, IInv, TablesGood, Good, JoinGood
  <2>4. PICK A : /\ e \in A /\ r.ino \notin A
                 /\ \A q \in rows : q.name # "" /\ q.ino \in A => q.dir \in A
    BY <2>1, AboveTarget
  <2>5. Good(meta, rows) /\ SameTypes(meta, meta)
    BY DEF IInv, TablesGood, SameTypes
  <2>6. e \in DOMAIN meta /\ meta[e].type = "dir"
    BY DEF IsDirectory
  <2>7. Good(meta', rows') /\ SameTypes(meta, meta')
    BY <1>3, <2>1, <2>2, <2>3, <2>4, <2>5, <2>6, MovedGood
  <2> QED
    BY <1>3, <2>7, KeepsData
<1> QED
  BY <1>2, <1>3 DEF RenameToFree

\* remove_impl() of the target leaves the tables good, with the entry that
\* moves and a parent to move it to.
LEMMA TargetRemoved ==
    ASSUME IInv, NEW d \in Ino, NEW n \in Names, NEW r \in Joined(d, n),
           NEW e \in Ino, NEW m \in Names, IsDirectory(e), HasEntry(rows, e),
           NEW t \in Joined(e, m), t.ino # r.ino,
           NEW c, c = [ino |-> t.ino, type |-> t.type],
           NEW isDir \in BOOLEAN, RemoveErr(e, c, isDir) = "OK"
    PROVE  /\ Good(RemovedMeta(e, c, isDir), RemovedRows(e, m, c, isDir))
           /\ SameTypes(meta, RemovedMeta(e, c, isDir))
           /\ r \in RemovedRows(e, m, c, isDir)
           /\ HasEntry(RemovedRows(e, m, c, isDir), e)
<1> DEFINE mm == RemovedMeta(e, c, isDir)
           rs == RemovedRows(e, m, c, isDir)
<1>0. Good(meta, rows)
  BY DEF IInv, TablesGood
<1>1. /\ r \in rows /\ r.dir = d /\ r.name = n /\ n # ""
      /\ t \in rows /\ t.dir = e /\ t.name = m /\ m # "" /\ m \in AnyName
      /\ m # "." /\ m # ".."
  BY NamesAssumption DEF Joined, RowAt, AnyName, RowNames
<1>2. c \in Found(e, m) /\ c.ino = t.ino /\ c.type = t.type
  BY <1>1 DEF Found, RowAt
<1>3. c.ino # e
  <2>1. CASE isDir
    BY <2>1 DEF RemoveErr
  <2>2. CASE ~isDir
    <3>1. t.type # "dir"
      BY <1>2, <2>2 DEF RemoveErr
    <3> QED
      BY <1>0, <1>1, <1>2, <3>1 DEF Good, JoinGood, IsDirectory
  <2> QED
    BY <2>1, <2>2
<1>4. /\ Good(mm, rs) /\ SameTypes(meta, mm)
      /\ \A q \in rows \ rs : ~(q.dir = e /\ q.name = m) => q.dir = c.ino /\ q.name = ""
  <2>1. RemovesWell(e, m, c, isDir)
    BY <1>1, <1>2, RemoveGood
  <2> QED
    BY <2>1 DEF RemovesWell
<1> HIDE DEF mm, rs
<1>5. \A q \in rows : q.dir = e /\ q.name = m => q = t
  BY <1>0, <1>1 DEF Good, RowsGood, KeyGood
<1>6. r \in rs
  BY <1>1, <1>4, <1>5
<1>7. HasEntry(rs, e)
  <2>1. CASE e = Root
    BY <2>1 DEF HasEntry
  <2>2. ASSUME NEW q \in rows, q.name # "", q.ino = e
        PROVE  HasEntry(rs, e)
    <3>1. q \in rs
      BY <1>2, <1>3, <1>4, <1>5, <2>2
    <3> QED
      BY <2>2, <3>1 DEF HasEntry
  <2> QED
    BY <2>1, <2>2 DEF HasEntry
<1> QED
  BY <1>4, <1>6, <1>7 DEF mm, rs

\* The reasons for which remove_impl() refuses the target of a rename.
LEMMA TargetErr ==
    ASSUME IInv, NEW e \in Ino, NEW m \in AnyName, m # "",
           NEW c \in Found(e, m), NEW isDir \in BOOLEAN
    PROVE  RemoveErr(e, c, isDir) \in Errors \ {"ABORT"}
<1>1. CASE isDir = TRUE
  <2>1. RemoveErr(e, c, TRUE) \in Errors \ {"ABORT"}
    BY RemoveDirErr
  <2> QED
    BY <1>1, <2>1
<1>2. CASE isDir = FALSE
  <2>1. RemoveErr(e, c, FALSE) \in Errors \ {"ABORT"}
    BY RemoveFileErr
  <2> QED
    BY <1>2, <2>1
<1> QED
  BY <1>1, <1>2

\* The target name is taken by row t, which is removed before r moves there.
LEMMA RenameOverInv ==
    ASSUME IInv, NEW d \in Ino, NEW n \in Names, NEW r \in Joined(d, n),
           NEW e \in Ino, NEW m \in Names, IsDirectory(e), HasEntry(rows, e),
           MakesNoCycle(d, n, e),
           NEW t \in Joined(e, m), t.ino # r.ino, RenameOver(r, e, m, t)
    PROVE  IInv'
<1> DEFINE c == [ino |-> t.ino, type |-> t.type]
           isDir == meta[r.ino].type = "dir"
           mt == RemovedMeta(e, c, isDir)
           rs == RemovedRows(e, m, c, isDir)
<1>0. Good(meta, rows)
  BY DEF IInv, TablesGood
<1>1. /\ r \in RowAt(d, n) /\ r \in rows /\ r.name = n /\ r.name # ""
      /\ t \in rows /\ t.dir = e /\ t.name = m
      /\ m \in AnyName /\ m # "" /\ m # "." /\ m # ".."
  BY NamesAssumption DEF Joined, RowAt, AnyName, RowNames
<1>2. c \in Found(e, m) /\ isDir \in BOOLEAN
  BY <1>1 DEF Found, RowAt
<1>3. t.ino \in Ino
  BY <1>0, <1>1, RowFields DEF Good, TypeGood
<1>4. \/ Fails(RemoveErr(e, c, isDir))
      \/ /\ RemoveErr(e, c, isDir) = "OK"
         /\ \/ /\ Result("EIO", t.ino)
               /\ UNCHANGED <<meta, rows, filedata>>
            \/ /\ MoveErr(rs, r, e, m) = "OK"
               /\ meta' = MovedMeta(mt, r, e)
               /\ rows' = MovedRows(rs, r, e, m)
               /\ Result("OK", t.ino)
               /\ UNCHANGED filedata
  BY DEF RenameOver
<1> HIDE DEF c, isDir
<1>5. CASE Fails(RemoveErr(e, c, isDir))
  <2>1. RemoveErr(e, c, isDir) \in Errors \ {"ABORT"}
    BY <1>1, <1>2, TargetErr
  <2> QED
    BY <1>5, <2>1, FailsInv
<1>6. CASE Result("EIO", t.ino) /\ UNCHANGED <<meta, rows, filedata>>
  <2>1. res' \in Returned
    BY <1>3, <1>6 DEF Result, Returned, Errors
  <2> QED
    BY <1>6, <2>1 DEF IInv, TablesGood, DataGood, NoOrphanData
<1>7. CASE /\ RemoveErr(e, c, isDir) = "OK"
           /\ MoveErr(rs, r, e, m) = "OK"
           /\ meta' = MovedMeta(mt, r, e)
           /\ rows' = MovedRows(rs, r, e, m)
           /\ Result("OK", t.ino)
           /\ UNCHANGED filedata
  <2>1. /\ Good(mt, rs) /\ SameTypes(meta, mt)
        /\ r \in rs /\ HasEntry(rs, e)
    <3>1. c = [ino |-> t.ino, type |-> t.type]
      BY DEF c
    <3> QED
      BY <1>2, <1>7, <3>1, TargetRemoved
  <2>2. e \in DOMAIN mt /\ mt[e].type = "dir"
    BY <2>1 DEF SameTypes, IsDirectory
  <2>3. rs \subseteq rows
    BY DEF RemovedRows
  <2> HIDE DEF mt, rs
  <2>4. \A q \in rs : ~(q.dir = e /\ q.name = m)
    <3>1. ~(\E q \in rs \ {r} : q.dir = e /\ q.name = m)
      BY <1>7 DEF MoveErr
    <3>2. ~(r.dir = e /\ r.name = m)
      BY <1>0, <1>1 DEF Good, RowsGood, KeyGood
    <3> QED
      BY <3>1, <3>2
  <2>5. PICK A : /\ e \in A /\ r.ino \notin A
                 /\ \A q \in rows : q.name # "" /\ q.ino \in A => q.dir \in A
    BY <1>1, AboveTarget
  <2>6. \A q \in rs : q.name # "" /\ q.ino \in A => q.dir \in A
    BY <2>3, <2>5
  <2>7. /\ Good(MovedMeta(mt, r, e), MovedRows(rs, r, e, m))
        /\ SameTypes(meta, MovedMeta(mt, r, e))
    <3>1. r.name # ""
      BY <1>1
    <3>2. e \in A /\ r.ino \notin A
      BY <2>5
    <3> QED
      BY <2>1, <2>2, <2>4, <2>6, <3>1, <3>2, MovedGood
  <2>8. Good(meta', rows') /\ SameTypes(meta, meta')
    BY <1>7, <2>7
  <2> QED
    BY <1>3, <1>7, <2>8, KeepsData
<1> QED
  BY <1>4, <1>5, <1>6, <1>7

\* sqlfs_rename preserves the invariant, for callers that keep their promise.
LEMMA RenameInv ==
    ASSUME IInv, NEW d \in Ino, NEW e \in Ino, NEW n \in RowNames, NEW m \in RowNames,
           NotRemoved(e), MakesNoCycle(d, n, e), Rename(d, n, e, m)
    PROVE  IInv'
<1>1. CASE Fails(RenameParentsErr(d, n, e, m))
  BY <1>1, RenameParents, FailsInv
<1>2. ASSUME RenameParentsErr(d, n, e, m) = "OK", NEW r \in Joined(d, n),
             Joined(e, m) = {}, RenameToFree(r, e, m)
      PROVE  IInv'
  BY <1>2, RenameParents, RenameToFreeInv
<1>3. ASSUME Result("OK", NoIno), UNCHANGED <<meta, rows, filedata>>
      PROVE  IInv'
  <2>1. res' \in Returned
    BY <1>3 DEF Result, Returned, Errors
  <2> QED
    BY <1>3, <2>1 DEF IInv, TablesGood, DataGood, NoOrphanData
<1>4. ASSUME RenameParentsErr(d, n, e, m) = "OK", NEW r \in Joined(d, n),
             NEW t \in Joined(e, m), t.ino # r.ino, RenameOver(r, e, m, t)
      PROVE  IInv'
  BY <1>4, RenameParents, RenameOverInv
<1> QED
  BY <1>1, <1>2, <1>3, <1>4 DEF Rename

-----------------------------------------------------------------------------
(* Calls that purge inodes, and calls that change contents *)

\* Inodes without links are deleted, with the contents of the files among them.
LEMMA DeletedInv ==
    ASSUME IInv, NEW I, \A i \in I : i \in DOMAIN meta /\ ~(meta[i].nlink > 0),
           meta' = DeleteMeta(meta, I),
           filedata' \subseteq filedata,
           \A i \in I : meta[i].type = "file" => i \notin filedata',
           UNCHANGED rows, Result("OK", NoIno)
    PROVE  IInv'
<1>1. TablesGood'
  BY PurgeGood DEF IInv, TablesGood
<1>2. DataGood'
  <2>1. \A i \in DOMAIN meta \ I : i \in DOMAIN meta' /\ meta'[i] = meta[i]
    BY DEF DeleteMeta
  <2>2. \A i \in filedata' : i \in DOMAIN meta /\ meta[i].type = "file" /\ i \in Ino
    BY DEF IInv, DataGood, NoOrphanData
  <2> QED
    BY <2>1, <2>2 DEF DataGood, NoOrphanData
<1>3. res' \in Returned
  BY DEF Result, Returned, Errors
<1> QED
  BY <1>1, <1>2, <1>3 DEF IInv

\* sqlfs_purge preserves the invariant: an inode whose st_nlink, "." included, is
\* no more than that of an unlinked inode has no links.
LEMMA PurgeInv ==
    ASSUME IInv, NEW i \in Ino, Purge(i)
    PROVE  IInv'
<1>1. CASE Fails("ENOENT") \/ Fails("OK")
  BY <1>1, FailsInv DEF Errors
<1>2. CASE Result("OK", NoIno) /\ UNCHANGED <<meta, rows, filedata>>
  <2>1. res' \in Returned
    BY <1>2 DEF Result, Returned, Errors
  <2> QED
    BY <1>2, <2>1 DEF IInv, TablesGood, DataGood, NoOrphanData
<1>3. CASE /\ i \in DOMAIN meta
           /\ ~ (StatNlink(i) > (IF meta[i].type = "dir" THEN 1 ELSE 0))
           /\ PurgeOne(i)
           /\ Result("OK", NoIno)
  <2>1. meta[i].nlink \in Int
    BY <1>3 DEF IInv, TablesGood, Good, TypeGood, MetaRow
  <2>2. ~(meta[i].nlink > 0)
    <3>1. CASE meta[i].type = "dir"
      BY <1>3, <2>1, <3>1 DEF StatNlink
    <3>2. CASE meta[i].type # "dir"
      BY <1>3, <2>1, <3>2 DEF StatNlink
    <3> QED
      BY <3>1, <3>2
  <2>3. /\ filedata' \subseteq filedata
        /\ meta[i].type = "file" => i \notin filedata'
    BY <1>3 DEF PurgeOne
  <2>4. meta' = DeleteMeta(meta, {i}) /\ UNCHANGED rows
    BY <1>3 DEF PurgeOne
  <2>5. \A j \in {i} : j \in DOMAIN meta /\ ~(meta[j].nlink > 0)
    BY <1>3, <2>2
  <2>6. \A j \in {i} : meta[j].type = "file" => j \notin filedata'
    BY <2>3
  <2> QED
    BY <1>3, <2>3, <2>4, <2>5, <2>6, DeletedInv
<1> QED
  BY <1>1, <1>2, <1>3 DEF Purge

\* sqlfs_purge_all preserves the invariant.
LEMMA PurgeAllInv ==
    ASSUME IInv, PurgeAll
    PROVE  IInv'
<1>1. CASE Fails("OK")
  BY <1>1, FailsInv DEF Errors
<1>2. CASE /\ meta' = DeleteMeta(meta, Unlinked)
           /\ filedata' = filedata \ {i \in Unlinked : meta[i].type = "file"}
           /\ Result("OK", NoIno)
           /\ UNCHANGED rows
  <2>1. \A i \in Unlinked : i \in DOMAIN meta /\ ~(meta[i].nlink > 0)
    BY DEF Unlinked
  <2>2. \A i \in Unlinked : meta[i].type = "file" => i \notin filedata'
    BY <1>2
  <2>3. filedata' \subseteq filedata
    BY <1>2
  <2> QED
    BY <1>2, <2>1, <2>2, <2>3, DeletedInv
<1> QED
  BY <1>1, <1>2 DEF PurgeAll

\* sqlfs_write and sqlfs_set_attr give rows of filedata to files only.
LEMMA SetSizeInv ==
    ASSUME IInv, NEW i \in Ino, NEW b \in BOOLEAN, SetSize(i, b)
    PROVE  IInv'
<1>1. CASE Fails(SetSizeErr(i))
  BY <1>1, FailsInv DEF SetSizeErr, Errors
<1>2. CASE /\ SetSizeErr(i) = "OK"
           /\ filedata' = IF b THEN filedata \cup {i} ELSE filedata \ {i}
           /\ Result("OK", NoIno)
           /\ UNCHANGED <<meta, rows>>
  <2>1. i \in DOMAIN meta /\ meta[i].type # "dir"
    BY <1>2 DEF SetSizeErr
  <2>2. meta[i].type = "file"
    BY <2>1 DEF IInv, TablesGood, Good, TypeGood, MetaRow, Types
  <2>3. filedata' \subseteq filedata \cup {i}
    BY <1>2
  <2>4. TablesGood'
    BY <1>2 DEF IInv, TablesGood
  <2>5. DataGood'
    BY <1>2, <2>1, <2>2, <2>3 DEF IInv, DataGood, NoOrphanData
  <2>6. res' \in Returned
    BY <1>2 DEF Result, Returned, Errors
  <2> QED
    BY <2>4, <2>5, <2>6 DEF IInv
<1> QED
  BY <1>1, <1>2 DEF SetSize

-----------------------------------------------------------------------------
(* The theorems *)

\* Every call preserves the invariant.
LEMMA NextInv == IInv /\ [Next]_vars => IInv'
<1> SUFFICES ASSUME IInv, [Next]_vars PROVE IInv'
  OBVIOUS
<1>1. ASSUME NEW d \in Ino, NEW n \in AnyName, NotRemoved(d), Mkdir(d, n)
      PROVE  IInv'
  BY <1>1, MkdirInv
<1>2. ASSUME NEW d \in Ino, NEW n \in AnyName, NotRemoved(d), Mknod(d, n)
      PROVE  IInv'
  BY <1>2, MknodInv
<1>3. ASSUME NEW d \in Ino, NEW n \in AnyName, Rmdir(d, n)
      PROVE  IInv'
  BY <1>3, RmdirInv
<1>4. ASSUME NEW d \in Ino, NEW n \in AnyName, Unlink(d, n)
      PROVE  IInv'
  BY <1>4, UnlinkInv
<1>5. ASSUME NEW d \in Ino, NEW e \in Ino, NEW n \in RowNames, NEW m \in RowNames,
             NotRemoved(e), MakesNoCycle(d, n, e), Rename(d, n, e, m)
      PROVE  IInv'
  BY <1>5, RenameInv
<1>6. CASE Maintain
  <2>1. ASSUME NEW i \in Ino, Purge(i)
        PROVE  IInv'
    BY <2>1, PurgeInv
  <2>2. CASE PurgeAll
    BY <2>2, PurgeAllInv
  <2>3. ASSUME NEW i \in Ino, NEW b \in BOOLEAN, SetSize(i, b)
        PROVE  IInv'
    BY <2>3, SetSizeInv
  <2> QED
    BY <1>6, <2>1, <2>2, <2>3 DEF Maintain
<1>7. CASE UNCHANGED vars
  BY <1>7 DEF vars, IInv, TablesGood, DataGood, NoOrphanData
<1> QED
  BY <1>1, <1>2, <1>3, <1>4, <1>5, <1>6, <1>7 DEF Next

\* The inductive invariant holds of every history of calls.
THEOREM Invariance == Spec => []IInv
<1>1. Init => IInv
  BY InitInv
<1>2. IInv /\ [Next]_vars => IInv'
  BY NextInv
<1> QED
  BY <1>1, <1>2, PTL DEF Spec

\* Every variable keeps its type: every metadata row has a type and a count,
\* every direntries row is well formed, every call returns one of its errors.
THEOREM TypeCorrect == Spec => []TypeOK
<1>1. IInv => TypeOK
  BY IInvImplies
<1> QED
  BY <1>1, Invariance, PTL

\* After any calls, each entry is one of a kind in an existing directory, and
\* names an existing inode of the type it records: no dangling entries.
THEOREM EntriesMatch == Spec => []DirentsMatchMetadata
<1>1. IInv => DirentsMatchMetadata
  BY IInvImplies
<1> QED
  BY <1>1, Invariance, PTL

\* The increments and decrements of mkdir, remove_impl and rename add up: nlink is
\* the number of rows that name the inode.
THEOREM LinksCounted == Spec => []NlinkCountsRows
<1>1. IInv => NlinkCountsRows
  BY IInvImplies
<1> QED
  BY <1>1, Invariance, PTL

\* A directory has one entry, and its ".." names the directory of that entry,
\* after any renames.
THEOREM ParentsAgree == Spec => []ParentAgrees
<1>1. IInv => ParentAgrees
  BY IInvImplies
<1> QED
  BY <1>1, Invariance, PTL

\* A directory that waits to be purged has no rows, so sqlfs_purge is right to
\* leave direntries alone.
THEOREM RemovedAreEmpty == Spec => []RemovedDirsAreEmpty
<1>1. IInv => RemovedDirsAreEmpty
  BY IInvImplies
<1> QED
  BY <1>1, Invariance, PTL

\* As long as callers make no cycle, the linked inodes are a tree: each of them
\* can be reached from the root.
THEOREM Reachable == Spec => []LinkedIsReachable
<1>1. IInv => LinkedIsReachable
  BY IInvImplies
<1> QED
  BY <1>1, Invariance, PTL

\* No contents outlive their file, so a reused inode number starts empty.
THEOREM NoOrphans == Spec => []NoOrphanData
<1>1. IInv => NoOrphanData
  BY IInvImplies
<1> QED
  BY <1>1, Invariance, PTL

\* The CHECK on the entry count in remove_impl() never aborts the process.
THEOREM NoAbort == Spec => []NeverAborts
<1>1. IInv => NeverAborts
  BY IInvImplies
<1> QED
  BY <1>1, Invariance, PTL
=============================================================================
