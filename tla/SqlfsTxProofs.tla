--------------------------- MODULE SqlfsTxProofs ---------------------------
(***************************************************************************)
(* Savepoints and statements, for any names and any number of inodes.      *)
(*                                                                         *)
(* First the invariant TInv: what is left to run of a call is of a kind    *)
(* that can run (RestGood), and it closes the nested savepoints it opens   *)
(* (Nests).                                                                *)
(*                                                                         *)
(* Then SqlfsTx implements Sqlfs. MayDo and MayRefuse say what a call of   *)
(* Sqlfs does to given tables, and what a refusal may be. Leads runs       *)
(* statements from a Point in a call, Ends says that the call may end      *)
(* there. The invariant RInv: the statements that are left always lead to  *)
(* an end that Sqlfs allows on the tables in the database, and wherever    *)
(* one of them fails, so does the call of Sqlfs.                           *)
(***************************************************************************)
EXTENDS SqlfsTx, SqlfsProofs, SequenceTheorems

\* The tables at a savepoint.
MetaTables == UNION {[D -> MetaRow] : D \in SUBSET Ino}
Saved == [meta : MetaTables, rows : SUBSET DirRow, data : SUBSET Ino]

\* The statements a call may run.
Statements ==
    [op : {"links"}, ino : Ino, add : Int]
        \cup [op : {"newMeta"}, ino : Ino, type : Types]
        \cup [op : {"touchMeta", "delMeta", "out"}, ino : Ino]
        \cup [op : {"newRow"}, row : DirRow]
        \cup [op : {"delRow"}, dir : Ino, name : AnyName]
        \cup [op : {"delRows"}, dir : Ino]
        \cup [op : {"move"}, dir : Ino, name : Names, to : Ino, as : Names]
        \cup [op : {"reparent"}, ino : Ino, to : Ino]
        \cup [op : {"data"}, ino : Ino, nonEmpty : BOOLEAN]
        \cup [op : {"savepoint", "release"}]
        \cup [op : {"refuse"}, err : Errors]
        \cup [op : {"next"}, after : Ino \cup {0}]

\* What a statement does to the number of open savepoints.
Opens(s) == IF s.op = "savepoint" THEN 1 ELSE IF s.op = "release" THEN -1 ELSE 0

\* The loop of purge_all goes on between its nested calls.
Deepens(s, k, n) == n = k + Opens(s) /\ (s.op = "next" => k = 1)

\* p has the depth after each of the statements, from depth k to depth n: there
\* are always one or two savepoints.
Depths(p, stmts, k, n) ==
    /\ p \in [0..Len(stmts) -> {1, 2}]
    /\ p[0] = k /\ p[Len(stmts)] = n
    /\ \A j \in 1..Len(stmts) : Deepens(stmts[j], p[j - 1], p[j])

Nests(stmts, k, n) == \E p : Depths(p, stmts, k, n)

-----------------------------------------------------------------------------
(* Depths of sequences *)

LEMMA NestsNothing == \A k, n : k \in {1, 2} => (Nests(<<>>, k, n) <=> k = n)
<1> SUFFICES ASSUME NEW k \in {1, 2}, NEW n
             PROVE  Nests(<<>>, k, n) <=> k = n
  OBVIOUS
<1>1. ASSUME k = n
      PROVE  Nests(<<>>, k, n)
  <2>1. Depths([j \in 0..Len(<<>>) |-> k], <<>>, k, n)
    BY <1>1 DEF Depths
  <2> QED
    BY <2>1 DEF Nests
<1>2. ASSUME Nests(<<>>, k, n)
      PROVE  k = n
  BY <1>2 DEF Nests, Depths
<1> QED
  BY <1>1, <1>2

LEMMA NestsOne ==
    ASSUME NEW s, NEW k \in {1, 2}, NEW n \in {1, 2}, Deepens(s, k, n)
    PROVE  Nests(<<s>>, k, n)
<1> DEFINE p == [j \in 0..1 |-> IF j = 0 THEN k ELSE n]
<1>1. Depths(p, <<s>>, k, n)
  <2>1. Len(<<s>>) = 1 /\ <<s>>[1] = s
    OBVIOUS
  <2>2. \A j \in 1..1 : j = 1
    OBVIOUS
  <2>3. p \in [0..1 -> {1, 2}] /\ p[0] = k /\ p[1] = n
    OBVIOUS
  <2> HIDE DEF p
  <2> QED
    BY <2>1, <2>2, <2>3 DEF Depths
<1> QED
  BY <1>1 DEF Nests

\* One part of a call after another.
LEMMA NestsThen ==
    ASSUME NEW X, NEW s \in Seq(X), NEW t \in Seq(X), NEW k, NEW m, NEW n,
           Nests(s, k, m), Nests(t, m, n)
    PROVE  Nests(s \o t, k, n)
<1>1. PICK p : Depths(p, s, k, m)
  BY DEF Nests
<1>2. PICK q : Depths(q, t, m, n)
  BY DEF Nests
<1> DEFINE a == Len(s)
           b == Len(t)
           f == [j \in 0..(a + b) |-> IF j <= a THEN p[j] ELSE q[j - a]]
<1>3. /\ a \in Nat /\ b \in Nat /\ Len(s \o t) = a + b
      /\ \A j \in 1..(a + b) : (s \o t)[j] = IF j <= a THEN s[j] ELSE t[j - a]
  OBVIOUS
<1>4. /\ p \in [0..a -> {1, 2}] /\ p[0] = k /\ p[a] = m
      /\ \A j \in 1..a : Deepens(s[j], p[j - 1], p[j])
  BY <1>1 DEF Depths
<1>5. /\ q \in [0..b -> {1, 2}] /\ q[0] = m /\ q[b] = n
      /\ \A j \in 1..b : Deepens(t[j], q[j - 1], q[j])
  BY <1>2 DEF Depths
<1> HIDE DEF a, b
<1>6. f \in [0..(a + b) -> {1, 2}]
  BY <1>3, <1>4, <1>5
<1>7. f[0] = k /\ f[a + b] = n
  BY <1>3, <1>4, <1>5
<1>8. \A j \in 1..(a + b) : Deepens((s \o t)[j], f[j - 1], f[j])
  <2> SUFFICES ASSUME NEW j \in 1..(a + b)
               PROVE  Deepens((s \o t)[j], f[j - 1], f[j])
    OBVIOUS
  <2>0. j \in Nat /\ j - 1 \in 0..(a + b) /\ j \in 0..(a + b)
    BY <1>3
  <2>1. CASE j <= a
    BY <2>0, <2>1, <1>3, <1>4
  <2>2. CASE j = a + 1
    <3>1. j - 1 = a /\ j - a = 1 /\ 1 \in 1..b
      BY <2>2, <1>3
    <3>2. f[j - 1] = q[0] /\ f[j] = q[1] /\ (s \o t)[j] = t[1]
      BY <2>0, <2>2, <3>1, <1>3, <1>4, <1>5
    <3>3. Deepens(t[1], q[0], q[1])
      BY <3>1, <1>5
    <3> QED
      BY <3>2, <3>3
  <2>3. CASE j > a + 1
    <3>1. j - a \in 1..b /\ (j - 1) - a = (j - a) - 1 /\ ~(j <= a) /\ ~(j - 1 <= a)
      BY <2>0, <2>3, <1>3
    <3>2. f[j - 1] = q[(j - a) - 1] /\ f[j] = q[j - a] /\ (s \o t)[j] = t[j - a]
      BY <2>0, <3>1, <1>3
    <3>3. Deepens(t[j - a], q[(j - a) - 1], q[j - a])
      BY <3>1, <1>5
    <3> QED
      BY <3>2, <3>3
  <2> QED
    BY <2>0, <2>1, <2>2, <2>3, <1>3
<1>9. Depths(f, s \o t, k, n)
  <2> HIDE DEF f
  <2> QED
    BY <1>3, <1>6, <1>7, <1>8 DEF Depths
<1> QED
  BY <1>9 DEF Nests

\* The statements after the first.
LEMMA NestsTail ==
    ASSUME NEW X, NEW s \in Seq(X), s # <<>>, NEW k, NEW n, Nests(s, k, n)
    PROVE  \E m \in {1, 2} : Deepens(Head(s), k, m) /\ Nests(Tail(s), m, n)
<1>1. PICK p : Depths(p, s, k, n)
  BY DEF Nests
<1> DEFINE a == Len(s)
           f == [j \in 0..(a - 1) |-> p[j + 1]]
<1>2. /\ a \in Nat /\ a >= 1 /\ Len(Tail(s)) = a - 1 /\ Head(s) = s[1]
      /\ \A j \in 1..(a - 1) : Tail(s)[j] = s[j + 1]
  OBVIOUS
<1>3. /\ p \in [0..a -> {1, 2}] /\ p[0] = k /\ p[a] = n
      /\ \A j \in 1..a : Deepens(s[j], p[j - 1], p[j])
  BY <1>1 DEF Depths
<1> HIDE DEF a
<1>4. Deepens(Head(s), k, p[1]) /\ p[1] \in {1, 2}
  <2>1. 1 \in 1..a /\ 1 \in 0..a /\ 1 - 1 = 0
    BY <1>2
  <2> QED
    BY <2>1, <1>2, <1>3
<1>5. f \in [0..(a - 1) -> {1, 2}] /\ f[0] = p[1] /\ f[a - 1] = n
  BY <1>2, <1>3
<1>6. \A j \in 1..(a - 1) : Deepens(Tail(s)[j], f[j - 1], f[j])
  <2> SUFFICES ASSUME NEW j \in 1..(a - 1)
               PROVE  Deepens(Tail(s)[j], f[j - 1], f[j])
    OBVIOUS
  <2>1. /\ j \in 0..(a - 1) /\ j - 1 \in 0..(a - 1) /\ j + 1 \in 1..a
        /\ (j + 1) - 1 = j /\ (j - 1) + 1 = j
    BY <1>2
  <2>2. f[j] = p[j + 1] /\ f[j - 1] = p[j]
    BY <2>1
  <2>3. Deepens(s[j + 1], p[j], p[j + 1])
    BY <2>1, <1>3
  <2> QED
    BY <2>2, <2>3, <1>2
<1>7. Depths(f, Tail(s), p[1], n)
  <2> HIDE DEF f
  <2> QED
    BY <1>2, <1>4, <1>5, <1>6 DEF Depths
<1> QED
  BY <1>4, <1>7 DEF Nests
-----------------------------------------------------------------------------
(* The statements of the calls *)

LEMMA ShortSeqs ==
    ASSUME NEW X, NEW a \in X, NEW b \in X, NEW c \in X
    PROVE  /\ <<a>> \in Seq(X) /\ <<a, b>> \in Seq(X) /\ <<a, b, c>> \in Seq(X)
           /\ <<a>> \o <<b>> = <<a, b>>
<1>1. <<a>> \in Seq(X) /\ <<b>> \in Seq(X)
  OBVIOUS
<1>2. <<a, b>> \in Seq(X)
  OBVIOUS
<1>3. <<a, b, c>> \in Seq(X)
  OBVIOUS
<1>4. <<a>> \o <<b>> = <<a, b>>
  <2> DEFINE s == <<a>> \o <<b>>
             t == <<a, b>>
  <2>1. /\ s \in Seq(X) /\ Len(s) = Len(<<a>>) + Len(<<b>>)
        /\ \A i \in 1..(Len(<<a>>) + Len(<<b>>)) :
              s[i] = IF i <= Len(<<a>>) THEN <<a>>[i] ELSE <<b>>[i - Len(<<a>>)]
    BY <1>1, ConcatProperties
  <2>2. Len(<<a>>) = 1 /\ Len(<<b>>) = 1 /\ <<a>>[1] = a /\ <<b>>[1] = b
    OBVIOUS
  <2>3. Len(t) = 2 /\ t[1] = a /\ t[2] = b
    OBVIOUS
  <2> HIDE DEF s, t
  <2>4. Len(s) = 2 /\ s[1] = a /\ s[2] = b
    BY <2>1, <2>2
  <2>5. t \in Seq(X)
    BY <1>2 DEF t
  <2>6. \A i \in 1..Len(s) : s[i] = t[i]
    BY <2>3, <2>4
  <2>7. s = t
    BY <2>1, <2>3, <2>4, <2>5, <2>6, SeqEqual
  <2> QED
    BY <2>7 DEF s, t
<1> QED
  BY <1>1, <1>2, <1>3, <1>4

LEMMA FiveInSeq ==
    ASSUME NEW X, NEW a \in X, NEW b \in X, NEW c \in X, NEW d \in X, NEW e \in X
    PROVE  <<a, b, c, d, e>> \in Seq(X)
  OBVIOUS

\* Statements that open and close no savepoint and are no turn of a loop.
Plain == {s \in Statements : s.op \notin {"savepoint", "release", "next"}}

\* The rest of a call, with k savepoints open, can be run, and leaves one.
RestGood(stmts, k) == stmts \in Seq(Statements) /\ Nests(stmts, k, 1)

LEMMA PlainRest ==
    ASSUME NEW s \in Seq(Plain), NEW k \in {1, 2}
    PROVE  s \in Seq(Statements) /\ Nests(s, k, k)
<1>1. s \in Seq(Statements)
  BY DEF Plain
<1>2. Depths([j \in 0..Len(s) |-> k], s, k, k)
  <2>1. Len(s) \in Nat /\ \A j \in 1..Len(s) : Deepens(s[j], k, k)
    BY DEF Plain, Deepens, Opens
  <2> QED
    BY <2>1 DEF Depths
<1> QED
  BY <1>1, <1>2 DEF Nests

LEMMA NestedRest ==
    ASSUME NEW s \in Seq(Plain)
    PROVE  RestGood(<<Savepoint>> \o s \o <<Release>>, 1)
<1>1. Savepoint \in Statements /\ Release \in Statements
  BY DEF Statements, Savepoint, Release
<1>2. Deepens(Savepoint, 1, 2) /\ Deepens(Release, 2, 1)
  BY DEF Deepens, Opens, Savepoint, Release
<1>3. Nests(<<Savepoint>>, 1, 2) /\ Nests(<<Release>>, 2, 1)
  BY <1>2, NestsOne
<1>4. s \in Seq(Statements) /\ Nests(s, 2, 2)
  BY PlainRest
<1>5. <<Savepoint>> \in Seq(Statements) /\ <<Release>> \in Seq(Statements)
  BY <1>1
<1> DEFINE a == <<Savepoint>>
           b == <<Release>>
           u == a \o s
<1> HIDE DEF a, b
<1>6. a \in Seq(Statements) /\ b \in Seq(Statements) /\ Nests(a, 1, 2) /\ Nests(b, 2, 1)
  BY <1>3, <1>5 DEF a, b
<1>7. Nests(u, 1, 2)
  BY <1>4, <1>6, NestsThen
<1>8. u \in Seq(Statements)
  BY <1>4, <1>6
<1> HIDE DEF u
<1>9. Nests(u \o b, 1, 1)
  BY <1>6, <1>7, <1>8, NestsThen
<1>10. u \o b \in Seq(Statements)
  BY <1>6, <1>8
<1> QED
  BY <1>9, <1>10 DEF RestGood, u, a, b

LEMMA RestThen ==
    ASSUME NEW s, NEW t, RestGood(s, 1), RestGood(t, 1)
    PROVE  RestGood(s \o t, 1)
  BY NestsThen DEF RestGood

\* The statements that are not nested calls.
LEMMA PlainStatements ==
    ASSUME NEW i \in Ino, NEW d \in Ino
    PROVE  /\ \A k \in Int : Links(i, k) \in Plain
           /\ \A t \in Types : NewMeta(i, t) \in Plain
           /\ TouchMeta(i) \in Plain /\ DelMeta(i) \in Plain /\ Out(i) \in Plain
           /\ \A r \in DirRow : NewRow(r) \in Plain
           /\ \A n \in AnyName : DelRow(d, n) \in Plain
           /\ DelRows(d) \in Plain
           /\ \A n, m \in Names : Move(d, n, i, m) \in Plain
           /\ Reparent(i, d) \in Plain
           /\ \A b \in BOOLEAN : Data(i, b) \in Plain
<1>1. \A k \in Int : Links(i, k) \in Plain
  BY DEF Plain, Statements, Links
<1>2. \A t \in Types : NewMeta(i, t) \in Plain
  BY DEF Plain, Statements, NewMeta
<1>3. TouchMeta(i) \in Plain
  BY DEF Plain, Statements, TouchMeta
<1>4. DelMeta(i) \in Plain
  BY DEF Plain, Statements, DelMeta
<1>5. Out(i) \in Plain
  BY DEF Plain, Statements, Out
<1>6. \A r \in DirRow : NewRow(r) \in Plain
  BY DEF Plain, Statements, NewRow
<1>7. \A n \in AnyName : DelRow(d, n) \in Plain
  BY DEF Plain, Statements, DelRow
<1>8. DelRows(d) \in Plain
  BY DEF Plain, Statements, DelRows
<1>9. \A n, m \in Names : Move(d, n, i, m) \in Plain
  BY DEF Plain, Statements, Move
<1>10. Reparent(i, d) \in Plain
  BY DEF Plain, Statements, Reparent
<1>11. \A b \in BOOLEAN : Data(i, b) \in Plain
  BY DEF Plain, Statements, Data
<1> QED
  BY <1>1, <1>2, <1>3, <1>4, <1>5, <1>6, <1>7, <1>8, <1>9, <1>10, <1>11

LEMMA OtherStatements ==
    /\ \A e \in Errors : Refusal(e) \in Plain
    /\ \A i \in Ino \cup {0} : /\ NextUnlinked(i) \in Statements
                               /\ RestGood(<<NextUnlinked(i)>>, 1)
<1>1. \A e \in Errors : Refusal(e) \in Plain
  BY DEF Plain, Statements, Refusal
<1>2. ASSUME NEW i \in Ino \cup {0}
      PROVE  NextUnlinked(i) \in Statements /\ RestGood(<<NextUnlinked(i)>>, 1)
  <2> DEFINE s == NextUnlinked(i)
  <2>1. s \in Statements /\ Deepens(s, 1, 1)
    BY DEF Statements, NextUnlinked, Deepens, Opens
  <2> HIDE DEF s
  <2>2. Nests(<<s>>, 1, 1) /\ <<s>> \in Seq(Statements)
    BY <2>1, NestsOne
  <2> QED
    BY <2>1, <2>2 DEF RestGood, s
<1> QED
  BY <1>1, <1>2

LEMMA CreateRest ==
    ASSUME NEW d \in Ino, NEW n \in Names, NEW i \in Ino
    PROVE  /\ RestGood(MkdirStmts(d, n, i), 1)
           /\ RestGood(MknodStmts(d, n, i), 1)
<1>1. /\ Row(d, n, i, "dir") \in DirRow /\ Row(i, "", d, "dir") \in DirRow
      /\ Row(d, n, i, "file") \in DirRow
  BY DEF Row, DirRow, RowNames, Types
<1>2. Links(d, 1) \in Plain
  BY PlainStatements
<1>3. NewMeta(i, "dir") \in Plain /\ NewMeta(i, "file") \in Plain /\ Out(i) \in Plain
  BY PlainStatements DEF Types
<1>4. /\ NewRow(Row(d, n, i, "dir")) \in Plain
      /\ NewRow(Row(i, "", d, "dir")) \in Plain
      /\ NewRow(Row(d, n, i, "file")) \in Plain
  BY <1>1, PlainStatements
<1>5. MkdirStmts(d, n, i) \in Seq(Plain)
  BY <1>2, <1>3, <1>4, FiveInSeq DEF MkdirStmts
<1>6. MknodStmts(d, n, i) \in Seq(Plain)
  BY <1>3, <1>4, ShortSeqs DEF MknodStmts
<1> QED
  BY <1>5, <1>6, PlainRest DEF RestGood

\* remove_impl()
LEMMA RemovePlain ==
    ASSUME NEW d \in Ino, NEW n \in AnyName, NEW c, c.ino \in Ino, NEW isDir
    PROVE  RemoveStmts(d, n, c, isDir) \in Seq(Plain)
<1>1. /\ DelRows(c.ino) \in Plain /\ Links(d, -1) \in Plain
      /\ DelRow(d, n) \in Plain /\ Links(c.ino, -1) \in Plain
      /\ Out(c.ino) \in Plain
  BY PlainStatements
<1> QED
  BY <1>1 DEF RemoveStmts

LEMMA MovePlain ==
    ASSUME NEW d \in Ino, NEW n \in Names, NEW e \in Ino, NEW m \in Names,
           NEW r, r.ino \in Ino
    PROVE  MoveStmts(d, n, e, m, r) \in Seq(Plain)
<1>1. /\ Move(d, n, e, m) \in Plain /\ Reparent(r.ino, e) \in Plain
      /\ Links(d, -1) \in Plain /\ Links(e, 1) \in Plain
  BY PlainStatements
<1> QED
  BY <1>1 DEF MoveStmts

LEMMA ChildErrs ==
    ASSUME NEW d, NEW c, NEW isDir
    PROVE  ChildErr(d, c, isDir) \in Errors
  BY DEF ChildErr, RemoveErr, Errors

LEMMA ReplaceRest ==
    ASSUME NEW e \in Ino, NEW m \in Names, NEW c, c.ino \in Ino, NEW isDir
    PROVE  RestGood(ReplaceStmts(e, m, c, isDir), 1)
<1>1. <<Refusal(ChildErr(e, c, isDir))>> \in Seq(Plain)
  BY ChildErrs, OtherStatements
<1>2. RemoveStmts(e, m, c, isDir) \in Seq(Plain)
  BY RemovePlain DEF AnyName, RowNames
<1> QED
  BY <1>1, <1>2, NestedRest DEF ReplaceStmts

LEMMA RenameRest ==
    ASSUME rows \subseteq DirRow,
           NEW d \in Ino, NEW n \in Names, NEW e \in Ino, NEW m \in Names,
           NEW r \in rows
    PROVE  RestGood(RenameStmts(d, n, e, m, r), 1)
<1>1. RestGood(MoveStmts(d, n, e, m, r), 1)
  BY MovePlain, PlainRest DEF RestGood, DirRow
<1>2. RestGood(<<>>, 1)
  BY NestsNothing DEF RestGood
<1>3. CASE Joined(e, m) = {}
  BY <1>1, <1>3 DEF RenameStmts
<1>4. CASE Joined(e, m) # {}
  <2> DEFINE t == CHOOSE t \in Joined(e, m) : TRUE
             c == [ino |-> t.ino, type |-> t.type]
  <2>1. t \in rows /\ c.ino \in Ino
    BY <1>4 DEF Joined, RowAt, DirRow
  <2>2. RestGood(ReplaceStmts(e, m, c, meta[r.ino].type = "dir"), 1)
    BY <2>1, ReplaceRest
  <2>3. RestGood(ReplaceStmts(e, m, c, meta[r.ino].type = "dir")
                    \o MoveStmts(d, n, e, m, r), 1)
    BY <1>1, <2>2, RestThen
  <2> QED
    BY <1>2, <1>4, <2>3 DEF RenameStmts
<1> QED
  BY <1>3, <1>4

LEMMA PurgePlain ==
    ASSUME NEW i \in Ino
    PROVE  PurgeStmts(i) \in Seq(Plain)
<1> DEFINE x == Data(i, FALSE)
           y == DelMeta(i)
           a == IF meta[i].type = "dir" THEN <<>> ELSE <<x>>
<1>1. x \in Plain /\ y \in Plain
  BY PlainStatements
<1>2. PurgeStmts(i) = <<>> \/ PurgeStmts(i) = a \o <<y>>
  BY DEF PurgeStmts
<1> HIDE DEF x, y
<1>3. <<x>> \in Seq(Plain) /\ <<y>> \in Seq(Plain) /\ <<>> \in Seq(Plain)
  BY <1>1
<1>4. a \in Seq(Plain)
  BY <1>3
<1> DEFINE b == <<y>>
<1>5. b \in Seq(Plain) /\ PurgeStmts(i) \in {<<>>, a \o b}
  BY <1>2, <1>3
<1> HIDE DEF a, b
<1>6. a \o b \in Seq(Plain)
  BY <1>4, <1>5
<1> QED
  BY <1>3, <1>5, <1>6

\* The loop of purge_all takes the unlinked inodes in order.
LEMMA LeastOf ==
    ASSUME NEW S, S \subseteq Ino, S # {}
    PROVE  \E i \in S : \A j \in S : i <= j
<1> DEFINE R == OpToRel(<, Nat)
<1>1. \A i, j \in Nat : <<i, j>> \in R <=> i < j
  BY DEF OpToRel
<1>2. S \subseteq Nat
  BY DEF Ino
<1>3. IsWellFoundedOn(R, Nat)
  BY NatLessThanWellFounded
<1> HIDE DEF R
<1>4. PICK i \in S : \A j \in S : ~(<<j, i>> \in R)
  BY <1>2, <1>3, WFMin
<1>5. \A j \in S : i <= j
  <2> SUFFICES ASSUME NEW j \in S PROVE i <= j
    OBVIOUS
  <2>1. i \in Nat /\ j \in Nat /\ ~(j < i)
    BY <1>1, <1>2, <1>4
  <2> QED
    BY <2>1
<1> QED
  BY <1>5

\* A turn is a nested call and a step of the cursor.
LEMMA TurnShape ==
    ASSUME NEW i \in Ino
    PROVE  (<<Savepoint>> \o PurgeStmts(i) \o <<Release>>) \o <<NextUnlinked(i)>>
             = <<Savepoint>> \o PurgeStmts(i) \o <<Release, NextUnlinked(i)>>
<1> DEFINE u == <<Savepoint>> \o PurgeStmts(i)
<1>1. Savepoint \in Statements /\ Release \in Statements
  BY DEF Statements, Savepoint, Release
<1>2. NextUnlinked(i) \in Statements
  BY OtherStatements
<1>3. PurgeStmts(i) \in Seq(Statements)
  BY PurgePlain, PlainRest
<1>4. u \in Seq(Statements)
  BY <1>1, <1>3
<1> HIDE DEF u
<1>5. <<Release>> \o <<NextUnlinked(i)>> = <<Release, NextUnlinked(i)>>
  BY <1>1, <1>2, ShortSeqs
<1>6. <<Release>> \in Seq(Statements) /\ <<NextUnlinked(i)>> \in Seq(Statements)
  BY <1>1, <1>2
<1>7. (u \o <<Release>>) \o <<NextUnlinked(i)>>
        = u \o (<<Release>> \o <<NextUnlinked(i)>>)
  BY <1>4, <1>6, ConcatAssociative
<1> QED
  BY <1>5, <1>7 DEF u

LEMMA TurnRest ==
    ASSUME DOMAIN meta \subseteq Ino, NEW after
    PROVE  RestGood(TurnStmts(after), 1)
<1> DEFINE left == UnlinkedAfter(after)
           i == CHOOSE j \in left : \A k \in left : j <= k
<1>1. RestGood(<<>>, 1)
  BY NestsNothing DEF RestGood
<1>2. CASE left = {}
  BY <1>1, <1>2 DEF TurnStmts
<1>3. CASE left # {}
  <2>1. left \subseteq Ino
    BY DEF UnlinkedAfter, Unlinked
  <2>2. i \in Ino
    <3> HIDE DEF left
    <3> QED
      BY <1>3, <2>1, LeastOf
  <2> HIDE DEF i
  <2>3. RestGood(<<Savepoint>> \o PurgeStmts(i) \o <<Release>>, 1)
    BY <2>2, PurgePlain, NestedRest
  <2>4. RestGood(<<NextUnlinked(i)>>, 1)
    BY <2>2, OtherStatements
  <2>5. RestGood((<<Savepoint>> \o PurgeStmts(i) \o <<Release>>)
                    \o <<NextUnlinked(i)>>, 1)
    BY <2>3, <2>4, RestThen
  <2> QED
    BY <1>3, <2>2, <2>5, TurnShape DEF TurnStmts, i
<1> QED
  BY <1>2, <1>3
-----------------------------------------------------------------------------
(* Types *)

LEMMA StatementFields ==
    ASSUME NEW s \in Statements
    PROVE  /\ s.op = "links" => s.ino \in Ino /\ s.add \in Int
           /\ s.op = "newMeta" => s.ino \in Ino /\ s.type \in Types
           /\ s.op = "newRow" => s.row \in DirRow
           /\ s.op = "move" => s.to \in Ino /\ s.as \in Names
           /\ s.op = "reparent" => s.to \in Ino
           /\ s.op \in {"data", "out"} => s.ino \in Ino
           /\ s.op = "refuse" => s.err \in Errors
  BY DEF Statements

LEMMA SavedIs ==
    ASSUME NEW t
    PROVE  t \in Saved <=>
             /\ t = [meta |-> t.meta, rows |-> t.rows, data |-> t.data]
             /\ DOMAIN t.meta \subseteq Ino /\ t.meta \in [DOMAIN t.meta -> MetaRow]
             /\ t.rows \subseteq DirRow /\ t.data \subseteq Ino
<1>1. t.meta \in MetaTables <=>
        DOMAIN t.meta \subseteq Ino /\ t.meta \in [DOMAIN t.meta -> MetaRow]
  BY DEF MetaTables
<1> QED
  BY <1>1 DEF Saved

LEMMA TablesSaved ==
    Tables \in Saved <=>
        /\ DOMAIN meta \subseteq Ino /\ meta \in [DOMAIN meta -> MetaRow]
        /\ rows \subseteq DirRow /\ filedata \subseteq Ino
<1>1. /\ Tables.meta = meta /\ Tables.rows = rows /\ Tables.data = filedata
      /\ Tables = [meta |-> Tables.meta, rows |-> Tables.rows, data |-> Tables.data]
  BY DEF Tables
<1> QED
  BY <1>1, SavedIs

LEMMA TablesSet ==
    ASSUME NEW t \in Saved, SetTables(t)
    PROVE  Tables' = t
<1>1. t = [meta |-> t.meta, rows |-> t.rows, data |-> t.data]
  BY SavedIs
<1> QED
  BY <1>1 DEF SetTables, Tables

LEMMA AfterTyped ==
    ASSUME Tables \in Saved, NEW s \in Statements, StmtErr(s) = "OK"
    PROVE  After(s) \in Saved
<1>1. /\ DOMAIN meta \subseteq Ino /\ meta \in [DOMAIN meta -> MetaRow]
      /\ rows \subseteq DirRow /\ filedata \subseteq Ino
  BY TablesSaved
<1>2. \A m, rs, fd :
        /\ DOMAIN m \subseteq Ino /\ m \in [DOMAIN m -> MetaRow]
        /\ rs \subseteq DirRow /\ fd \subseteq Ino
        => [meta |-> m, rows |-> rs, data |-> fd] \in Saved
  <2> SUFFICES ASSUME NEW m, NEW rs, NEW fd,
                      DOMAIN m \subseteq Ino, m \in [DOMAIN m -> MetaRow],
                      rs \subseteq DirRow, fd \subseteq Ino
               PROVE  [meta |-> m, rows |-> rs, data |-> fd] \in Saved
    OBVIOUS
  <2>1. m \in MetaTables
    BY DEF MetaTables
  <2> QED
    BY <2>1 DEF Saved
<1>3. CASE s.op = "links"
  <2>1. s.ino \in DOMAIN meta /\ s.add \in Int
    BY <1>3, StatementFields DEF StmtErr
  <2> DEFINE m == AddLinks(meta, s.ino, s.add)
  <2>2. DOMAIN m = DOMAIN meta /\ m \in [DOMAIN meta -> MetaRow]
    BY <1>1, <2>1, AddLinksFacts
  <2>3. After(s) = [meta |-> m, rows |-> rows, data |-> filedata]
    BY <1>3 DEF After, Tables
  <2> HIDE DEF m
  <2> QED
    BY <1>1, <1>2, <2>2, <2>3
<1>4. CASE s.op = "newMeta"
  <2>1. s.ino \in Ino /\ s.type \in Types
    BY <1>4, StatementFields
  <2> DEFINE m == InsertMeta(meta, s.ino, s.type)
  <2>2. DOMAIN m = DOMAIN meta \cup {s.ino} /\ m \in [DOMAIN m -> MetaRow]
    BY <1>1, <2>1 DEF InsertMeta, MetaRow
  <2>3. After(s) = [meta |-> m, rows |-> rows, data |-> filedata]
    BY <1>4 DEF After, Tables
  <2> HIDE DEF m
  <2> QED
    BY <1>1, <1>2, <2>1, <2>2, <2>3
<1>5. CASE s.op = "delMeta"
  <2> DEFINE m == DeleteMeta(meta, {s.ino})
  <2>1. DOMAIN m = DOMAIN meta \ {s.ino} /\ m \in [DOMAIN m -> MetaRow]
    BY <1>1 DEF DeleteMeta
  <2>2. After(s) = [meta |-> m, rows |-> rows, data |-> filedata]
    BY <1>5 DEF After, Tables
  <2> HIDE DEF m
  <2> QED
    BY <1>1, <1>2, <2>1, <2>2
<1>6. CASE s.op \in {"newRow", "delRow", "delRows", "move", "reparent"}
  <2> DEFINE rs == After(s).rows
  <2>1. After(s) = [meta |-> meta, rows |-> rs, data |-> filedata]
    BY <1>6 DEF After, Tables
  <2>2. rs \subseteq DirRow
    <3>1. CASE s.op = "newRow"
      <4>1. s.row \in DirRow /\ rs = rows \cup {s.row}
        BY <3>1, StatementFields DEF After, Tables
      <4> QED
        BY <1>1, <4>1
    <3>2. CASE s.op = "delRow"
      <4>1. rs = rows \ RowAt(s.dir, s.name)
        BY <3>2 DEF After, Tables
      <4> QED
        BY <1>1, <4>1
    <3>3. CASE s.op = "delRows"
      <4>1. rs = rows \ Entries(s.dir)
        BY <3>3 DEF After, Tables
      <4> QED
        BY <1>1, <4>1
    <3>4. CASE s.op = "move"
      <4>1. s.to \in Ino /\ s.as \in RowNames
        BY <3>4, StatementFields DEF RowNames
      <4>2. rs = {IF r \in RowAt(s.dir, s.name)
                  THEN [r EXCEPT !.dir = s.to, !.name = s.as] ELSE r : r \in rows}
        BY <3>4 DEF After, Tables
      <4>3. \A r \in DirRow : [r EXCEPT !.dir = s.to, !.name = s.as] \in DirRow
        BY <4>1 DEF DirRow
      <4> QED
        BY <1>1, <4>2, <4>3
    <3>5. CASE s.op = "reparent"
      <4>1. s.to \in Ino
        BY <3>5, StatementFields
      <4>2. rs = {IF r \in RowAt(s.ino, "") THEN [r EXCEPT !.ino = s.to] ELSE r :
                    r \in rows}
        BY <3>5 DEF After, Tables
      <4>3. \A r \in DirRow : [r EXCEPT !.ino = s.to] \in DirRow
        BY <4>1 DEF DirRow
      <4> QED
        BY <1>1, <4>2, <4>3
    <3> QED
      BY <1>6, <3>1, <3>2, <3>3, <3>4, <3>5
  <2> HIDE DEF rs
  <2> QED
    BY <1>1, <1>2, <2>1, <2>2
<1>7. CASE s.op = "data"
  <2>1. s.ino \in Ino
    BY <1>7, StatementFields
  <2> DEFINE fd == After(s).data
  <2>2. After(s) = [meta |-> meta, rows |-> rows, data |-> fd]
    BY <1>7 DEF After, Tables
  <2>3. fd \subseteq filedata \cup {s.ino}
    BY <1>7 DEF After, Tables
  <2> HIDE DEF fd
  <2> QED
    BY <1>1, <1>2, <2>1, <2>2, <2>3
<1>8. CASE s.op \notin {"links", "newMeta", "delMeta", "newRow", "delRow", "delRows",
                        "move", "reparent", "data"}
  <2>1. After(s) = Tables
    BY <1>8 DEF After
  <2> QED
    BY <2>1
<1> QED
  BY <1>3, <1>4, <1>5, <1>6, <1>7, <1>8
-----------------------------------------------------------------------------
(* The invariant *)

TxTypes ==
    /\ Tables \in Saved /\ stack \in Seq(Saved)
    /\ res \in [err : Errors, ino : Ino \cup {NoIno}]
    /\ call \in {"idle"} \cup Busy \cup Dead
    /\ err \in Errors
    /\ out \in Ino \cup {NoIno}

\* A call that runs has one or two savepoints, and what it still runs leaves one;
\* an error path finds one for each call that it ends, unless SQLite has ended the
\* transaction.
Paired ==
    /\ Len(stack) \in 0..2
    /\ call = "idle" => stack = <<>> /\ todo = <<>>
    /\ call \in {"run", "commit_failed"} => Len(stack) # 0 /\ RestGood(todo, Len(stack))
    /\ call = "unwind" => todo = <<>> /\ (AutoRollback \/ stack # <<>>)
    /\ call = "rollback_failed" => AutoRollback

TInv == TxTypes /\ Paired

LEMMA TInvImplies ==
    ASSUME TInv
    PROVE  TxTypeOK /\ SavepointsPaired
<1>1. TypeOK
  BY TablesSaved DEF TInv, TxTypes, TypeOK
<1>2. TxTypeOK
  BY <1>1 DEF TxTypeOK, TInv, TxTypes, Paired
<1>3. SavepointsPaired
  BY DEF SavepointsPaired, TInv, Paired
<1> QED
  BY <1>2, <1>3

LEMMA TxInitInv == TxInit => TInv
<1> SUFFICES ASSUME TxInit PROVE TInv
  OBVIOUS
<1>1. Root \in Ino /\ NoIno = 0
  BY MaxInoAssumption DEF Root, Ino, NoIno
<1>2. Tables \in Saved
  <2>0. /\ meta = [i \in {Root} |-> [type |-> "dir", nlink |-> 1]]
        /\ rows = {Row(Root, "", Root, "dir")} /\ filedata = {}
    BY DEF TxInit, Init
  <2>1. DOMAIN meta \subseteq Ino /\ meta \in [DOMAIN meta -> MetaRow]
    <3>1. [type |-> "dir", nlink |-> 1] \in MetaRow
      BY DEF MetaRow, Types
    <3> QED
      BY <1>1, <2>0, <3>1
  <2>2. rows \subseteq DirRow /\ filedata \subseteq Ino
    <3>1. Row(Root, "", Root, "dir") \in DirRow
      BY <1>1 DEF Row, DirRow, RowNames, Types
    <3> QED
      BY <2>0, <3>1
  <2> QED
    BY <2>1, <2>2, TablesSaved
<1>3. TxTypes
  <2>1. res \in [err : Errors, ino : Ino \cup {NoIno}]
    BY DEF TxInit, Init, Errors
  <2>2. stack \in Seq(Saved) /\ call = "idle" /\ err \in Errors /\ out = NoIno
    BY DEF TxInit, Errors
  <2> QED
    BY <1>2, <2>1, <2>2 DEF TxTypes
<1>4. Paired
  BY DEF TxInit, Paired
<1> QED
  BY <1>3, <1>4 DEF TInv

-----------------------------------------------------------------------------
(* Calls begin *)

LEMMA ReturnNowInv ==
    ASSUME TInv, NEW e \in Errors, ReturnNow(e)
    PROVE  TInv'
<1>1. Tables' = Tables /\ UNCHANGED txVars
  BY DEF ReturnNow, Tables
<1>2. res' \in [err : Errors, ino : Ino \cup {NoIno}]
  BY DEF ReturnNow, Result
<1>3. TxTypes'
  BY <1>1, <1>2 DEF TInv, TxTypes, txVars
<1>4. Paired'
  BY <1>1 DEF TInv, Paired, txVars, ReturnNow
<1> QED
  BY <1>3, <1>4 DEF TInv

LEMMA StartInv ==
    ASSUME TInv, NEW e \in Errors, NEW stmts, RestGood(stmts, 1), Start(e, stmts)
    PROVE  TInv'
<1>1. /\ Tables' = Tables /\ stack' = <<Tables>> /\ out' = NoIno
      /\ Len(stack') = 1 /\ Tables \in Saved
  BY DEF Start, Tables, TInv, TxTypes
<1>2. stack' \in Seq(Saved)
  BY <1>1
<1>3. CASE /\ e # "ABORT"
           /\ err' \in {e, "EIO"}
           /\ call' = IF err' = "OK" THEN "run" ELSE "unwind"
           /\ todo' = IF err' = "OK" THEN stmts ELSE <<>>
           /\ UNCHANGED res
  <2>1. TxTypes'
    BY <1>1, <1>2, <1>3 DEF TInv, TxTypes, Errors, Busy
  <2>2. Paired'
    BY <1>1, <1>3 DEF Paired
  <2> QED
    BY <2>1, <2>2 DEF TInv
<1>4. CASE /\ e = "ABORT"
           /\ err' = "ABORT" /\ call' = "check_failed" /\ todo' = <<>>
           /\ Result("ABORT", NoIno)
  <2>1. TxTypes'
    BY <1>1, <1>2, <1>4 DEF TInv, TxTypes, Errors, Dead, Result
  <2>2. Paired'
    BY <1>1, <1>4 DEF Paired
  <2> QED
    BY <2>1, <2>2 DEF TInv
<1> QED
  BY <1>3, <1>4 DEF Start

LEMMA CreateTxInv ==
    ASSUME TInv, NEW d \in Ino, NEW n \in AnyName, TxMkdir(d, n) \/ TxMknod(d, n)
    PROVE  TInv'
<1>1. StatDirErr(d) \in Errors /\ "EINVAL" \in Errors
  BY DEF StatDirErr, Errors
<1>2. CASE n \notin Names
  BY <1>1, <1>2, ReturnNowInv DEF TxMkdir, TxMknod
<1>3. CASE n \in Names
  <2>1. PICK i \in Ino : \/ Start(StatDirErr(d), MkdirStmts(d, n, i))
                         \/ Start(StatDirErr(d), MknodStmts(d, n, i))
    BY <1>3 DEF TxMkdir, TxMknod
  <2>2. RestGood(MkdirStmts(d, n, i), 1) /\ RestGood(MknodStmts(d, n, i), 1)
    BY <1>3, CreateRest
  <2> QED
    BY <1>1, <2>1, <2>2, StartInv
<1> QED
  BY <1>2, <1>3

\* What a name refers to has a number.
LEMMA FoundTyped ==
    ASSUME Tables \in Saved, NEW d \in Ino, NEW n, NEW c \in Found(d, n)
    PROVE  c.ino \in Ino
<1>1. \A r \in rows : r.ino \in Ino
  BY TablesSaved DEF DirRow
<1>2. c.ino = d \/ \E r \in rows : c.ino = r.ino
  <2>1. CASE n = "."
    BY <2>1 DEF Found
  <2>2. CASE n # "."
    <3>1. PICK k : c \in {[ino |-> r.ino, type |-> r.type] : r \in RowAt(d, k)}
      BY <2>2 DEF Found
    <3> QED
      BY <3>1 DEF RowAt
  <2> QED
    BY <2>1, <2>2
<1> QED
  BY <1>1, <1>2

LEMMA RemoveTxInv ==
    ASSUME TInv, NEW d \in Ino, NEW n \in AnyName, NEW isDir \in BOOLEAN,
           TxRemove(d, n, isDir)
    PROVE  TInv'
<1>1. RestGood(<<>>, 1) /\ {"EINVAL", "ENOENT"} \subseteq Errors
  BY NestsNothing DEF RestGood, Errors
<1>2. CASE Start("EINVAL", <<>>) \/ Start("ENOENT", <<>>)
  BY <1>1, <1>2, StartInv
<1>3. CASE \E c \in Found(d, n) :
             Start(ChildErr(d, c, isDir), RemoveStmts(d, n, c, isDir))
  <2>1. PICK c \in Found(d, n) :
               Start(ChildErr(d, c, isDir), RemoveStmts(d, n, c, isDir))
    BY <1>3
  <2>2. c.ino \in Ino
    BY FoundTyped DEF TInv, TxTypes
  <2>3. RestGood(RemoveStmts(d, n, c, isDir), 1)
    BY <2>2, RemovePlain, PlainRest DEF RestGood
  <2> QED
    BY <2>1, <2>3, ChildErrs, StartInv
<1> QED
  BY <1>2, <1>3 DEF TxRemove

LEMMA RenameTxInv ==
    ASSUME TInv, NEW d \in Ino, NEW e \in Ino, NEW n \in RowNames, NEW m \in RowNames,
           TxRename(d, n, e, m)
    PROVE  TInv'
<1>1. RestGood(<<>>, 1) /\ {"OK", "EINVAL"} \subseteq Errors
  BY NestsNothing DEF RestGood, Errors
<1>2. RenameParentsErr(d, n, e, m) \in Errors
  BY DEF RenameParentsErr, ParentErr, Errors
<1>3. CASE ReturnNow("EINVAL")
  BY <1>1, <1>3, ReturnNowInv
<1>4. CASE Start(RenameParentsErr(d, n, e, m), <<>>)
  BY <1>1, <1>2, <1>4, StartInv
<1>5. CASE /\ n \in Names /\ m \in Names
           /\ \E r \in Joined(d, n) : Start("OK", RenameStmts(d, n, e, m, r))
  <2>1. PICK r \in Joined(d, n) : Start("OK", RenameStmts(d, n, e, m, r))
    BY <1>5
  <2>2. r \in rows /\ rows \subseteq DirRow
    BY TablesSaved DEF Joined, RowAt, TInv, TxTypes
  <2>3. RestGood(RenameStmts(d, n, e, m, r), 1)
    BY <1>5, <2>2, RenameRest
  <2> QED
    BY <1>1, <2>1, <2>3, StartInv
<1> QED
  BY <1>3, <1>4, <1>5 DEF TxRename

LEMMA MaintainTxInv ==
    ASSUME TInv,
           \/ \E i \in Ino : TxPurge(i)
           \/ TxPurgeAll
           \/ \E i \in Ino, b \in BOOLEAN : TxSetSize(i, b)
    PROVE  TInv'
<1>1. RestGood(<<>>, 1) /\ {"OK", "ENOENT"} \subseteq Errors
  BY NestsNothing DEF RestGood, Errors
<1>2. ASSUME NEW i \in Ino, TxPurge(i)
      PROVE  TInv'
  <2>1. RestGood(PurgeStmts(i), 1)
    BY PurgePlain, PlainRest DEF RestGood
  <2> QED
    BY <1>1, <1>2, <2>1, StartInv DEF TxPurge
<1>3. CASE TxPurgeAll
  <2>1. RestGood(<<NextUnlinked(0)>>, 1)
    BY OtherStatements
  <2> QED
    BY <1>1, <1>3, <2>1, StartInv DEF TxPurgeAll
<1>4. ASSUME NEW i \in Ino, NEW b \in BOOLEAN, TxSetSize(i, b)
      PROVE  TInv'
  <2> DEFINE x == Data(i, b)
             y == TouchMeta(i)
  <2>1. x \in Plain /\ y \in Plain
    BY PlainStatements
  <2>2. SetSizeErr(i) \in Errors
    BY DEF SetSizeErr, Errors
  <2>3. Start(SetSizeErr(i), <<x, y>>)
    BY <1>4 DEF TxSetSize
  <2> HIDE DEF x, y
  <2>4. <<x, y>> \in Seq(Plain)
    BY <2>1
  <2>5. RestGood(<<x, y>>, 1)
    BY <2>4, PlainRest DEF RestGood
  <2> QED
    BY <2>2, <2>3, <2>5, StartInv
<1> QED
  BY <1>2, <1>3, <1>4
-----------------------------------------------------------------------------
(* Calls go on *)

\* RELEASE
LEMMA PoppedStack ==
    ASSUME NEW X, NEW s \in Seq(X), Len(s) # 0
    PROVE  /\ SubSeq(s, 1, Len(s) - 1) \in Seq(X)
           /\ Len(SubSeq(s, 1, Len(s) - 1)) = Len(s) - 1
           /\ \A i \in 1..(Len(s) - 1) : SubSeq(s, 1, Len(s) - 1)[i] = s[i]
<1> DEFINE n == Len(s) - 1
<1>1. n \in Nat /\ \A i \in 1..n : s[i] \in X
  OBVIOUS
<1> HIDE DEF n
<1>2. /\ SubSeq(s, 1, n) \in Seq(X)
      /\ Len(SubSeq(s, 1, n)) = IF 1 <= n THEN n - 1 + 1 ELSE 0
      /\ \A i \in 1..(n - 1 + 1) : SubSeq(s, 1, n)[i] = s[1 + i - 1]
  BY <1>1, SubSeqProperties
<1>3. Len(SubSeq(s, 1, n)) = n
  BY <1>1, <1>2
<1>4. \A i \in 1..n : SubSeq(s, 1, n)[i] = s[i]
  <2> SUFFICES ASSUME NEW i \in 1..n PROVE SubSeq(s, 1, n)[i] = s[i]
    OBVIOUS
  <2>1. n - 1 + 1 = n /\ 1 + i - 1 = i
    BY <1>1
  <2> QED
    BY <1>2, <2>1
<1> QED
  BY <1>2, <1>3, <1>4 DEF n

LEMMA RunInv ==
    ASSUME TInv, Run
    PROVE  TInv'
<1> DEFINE s == Head(todo)
<1>1. /\ call = "run" /\ todo # <<>> /\ StmtErr(s) = "OK" /\ SetTables(After(s))
      /\ todo' = (IF s.op = "next" THEN TurnStmts(s.after) ELSE <<>>) \o Tail(todo)
      /\ out' = (IF s.op = "out" THEN s.ino ELSE out)
      /\ stack' = CASE s.op = "savepoint" -> Append(stack, Tables)
                    [] s.op = "release" -> SubSeq(stack, 1, Len(stack) - 1)
                    [] OTHER -> stack
      /\ call' = "run" /\ UNCHANGED <<err, res>>
  BY DEF Run
<1>2. /\ Tables \in Saved /\ stack \in Seq(Saved) /\ Len(stack) \in {1, 2}
      /\ RestGood(todo, Len(stack)) /\ out \in Ino \cup {NoIno}
  BY <1>1 DEF TInv, TxTypes, Paired
<1>3. todo \in Seq(Statements) /\ Nests(todo, Len(stack), 1)
  BY <1>2 DEF RestGood
<1>4. s \in Statements /\ Tail(todo) \in Seq(Statements)
  BY <1>1, <1>3
<1>5. PICK n \in {1, 2} : Deepens(s, Len(stack), n) /\ Nests(Tail(todo), n, 1)
  BY <1>1, <1>3, NestsTail
<1> HIDE DEF s
<1>6. stack' \in Seq(Saved) /\ Len(stack') = n
  <2>1. CASE s.op = "savepoint"
    BY <1>1, <1>2, <1>5, <2>1 DEF Deepens, Opens
  <2>2. CASE s.op = "release"
    <3>1. stack' = SubSeq(stack, 1, Len(stack) - 1)
      BY <1>1, <2>2
    <3>2. stack \in Seq(Saved) /\ Len(stack) # 0
      BY <1>1 DEF TInv, TxTypes, Paired
    <3>3. stack' \in Seq(Saved) /\ Len(stack') = Len(stack) - 1
      BY <3>1, <3>2, PoppedStack
    <3> QED
      BY <1>2, <1>5, <2>2, <3>3 DEF Deepens, Opens
  <2>3. CASE s.op \notin {"savepoint", "release"}
    BY <1>1, <1>2, <1>5, <2>3 DEF Deepens, Opens
  <2> QED
    BY <2>1, <2>2, <2>3
<1>7. RestGood(todo', Len(stack'))
  <2>1. CASE s.op = "next"
    <3>1. DOMAIN meta \subseteq Ino
      BY <1>2, TablesSaved
    <3>2. RestGood(TurnStmts(s.after), 1)
      BY <3>1, TurnRest
    <3>3. todo' = TurnStmts(s.after) \o Tail(todo)
      BY <1>1, <2>1
    <3>4. n = 1
      BY <1>5, <2>1 DEF Deepens, Opens
    <3>5. TurnStmts(s.after) \in Seq(Statements) /\ Nests(TurnStmts(s.after), 1, 1)
      BY <3>2 DEF RestGood
    <3>6. RestGood(Tail(todo), 1)
      BY <1>4, <1>5, <3>4 DEF RestGood
    <3> QED
      BY <1>6, <3>2, <3>3, <3>4, <3>6, RestThen
  <2>2. CASE s.op # "next"
    <3>1. todo' = <<>> \o Tail(todo) /\ <<>> \o Tail(todo) = Tail(todo)
      BY <1>1, <1>4, <2>2
    <3> QED
      BY <1>4, <1>5, <1>6, <3>1 DEF RestGood
  <2> QED
    BY <2>1, <2>2
<1>8. TxTypes'
  <2>1. Tables' \in Saved
    BY <1>1, <1>2, <1>4, AfterTyped, TablesSet
  <2>2. out' \in Ino \cup {NoIno}
    BY <1>1, <1>2, <1>4, StatementFields
  <2> QED
    BY <1>1, <1>6, <2>1, <2>2 DEF TInv, TxTypes
<1>9. Paired'
  <2>1. Len(stack') \in 0..2 /\ Len(stack') # 0
    BY <1>5, <1>6
  <2>2. call' = "run"
    BY <1>1
  <2> QED
    BY <1>7, <2>1, <2>2 DEF Paired
<1> QED
  BY <1>8, <1>9 DEF TInv

LEMMA RunFailsInv ==
    ASSUME TInv, RunFails
    PROVE  TInv'
<1> DEFINE s == Head(todo)
<1>1. /\ call = "run" /\ todo # <<>> /\ call' = "unwind" /\ todo' = <<>>
      /\ err' \in {"EIO", StmtErr(s)} /\ UNCHANGED <<out, res>>
      /\ \/ UNCHANGED <<meta, rows, filedata, stack>>
         \/ AutoRollback /\ SetTables(Committed) /\ stack' = <<>>
  BY DEF RunFails
<1>2. /\ Tables \in Saved /\ stack \in Seq(Saved) /\ Len(stack) \in 1..2
      /\ stack # <<>> /\ todo \in Seq(Statements)
  BY <1>1 DEF TInv, TxTypes, Paired, RestGood
<1>3. StmtErr(s) \in Errors
  <2>1. s \in Statements
    BY <1>1, <1>2
  <2> HIDE DEF s
  <2> QED
    BY <2>1, StatementFields DEF StmtErr, Errors
<1> HIDE DEF s
<1>4. CASE UNCHANGED <<meta, rows, filedata, stack>>
  <2>1. Tables' = Tables
    BY <1>4 DEF Tables
  <2>2. TxTypes'
    BY <1>1, <1>3, <1>4, <2>1 DEF TInv, TxTypes, Errors, Busy
  <2>3. Paired'
    BY <1>1, <1>2, <1>4 DEF Paired
  <2> QED
    BY <2>2, <2>3 DEF TInv
<1>5. CASE AutoRollback /\ SetTables(Committed) /\ stack' = <<>>
  <2>1. Committed \in Saved
    BY <1>2 DEF Committed
  <2>2. Tables' \in Saved
    BY <1>5, <2>1, TablesSet
  <2>3. TxTypes'
    BY <1>1, <1>3, <1>5, <2>2 DEF TInv, TxTypes, Errors, Busy
  <2>4. Paired'
    BY <1>1, <1>5 DEF Paired
  <2> QED
    BY <2>3, <2>4 DEF TInv
<1> QED
  BY <1>1, <1>4, <1>5

LEMMA UnwindInv ==
    ASSUME TInv, Unwind
    PROVE  TInv'
<1>1. /\ call = "unwind" /\ stack # <<>> /\ SetTables(stack[Len(stack)])
      /\ stack' = SubSeq(stack, 1, Len(stack) - 1) /\ UNCHANGED todo
      /\ IF Len(stack) > 1 THEN UNCHANGED <<call, res, err, out>> ELSE Return(err)
  BY DEF Unwind
<1>2. /\ stack \in Seq(Saved) /\ Len(stack) \in 0..2 /\ todo = <<>>
      /\ err \in Errors /\ out \in Ino \cup {NoIno}
  BY <1>1 DEF TInv, TxTypes, Paired
<1>3. Len(stack) \in 1..2 /\ stack[Len(stack)] \in Saved
  BY <1>1, <1>2
<1>4. stack' \in Seq(Saved) /\ Len(stack') = Len(stack) - 1
  BY <1>1, <1>2, <1>3, PoppedStack
<1>5. Tables' \in Saved
  BY <1>1, <1>3, TablesSet
<1>6. CASE Len(stack) > 1
  <2>1. UNCHANGED <<call, res, err, out>>
    BY <1>1, <1>6
  <2>2. TxTypes'
    BY <1>4, <1>5, <2>1 DEF TInv, TxTypes
  <2>3. Len(stack') = 1 /\ stack' # <<>>
    BY <1>3, <1>4, <1>6
  <2>4. Paired'
    BY <1>1, <1>2, <2>1, <2>3 DEF Paired
  <2> QED
    BY <2>2, <2>4 DEF TInv
<1>7. CASE ~(Len(stack) > 1)
  <2>1. /\ call' = "idle" /\ res' = [err |-> err, ino |-> out]
        /\ err' = "OK" /\ out' = NoIno
    BY <1>1, <1>7 DEF Return, Result
  <2>2. stack' = <<>>
    BY <1>3, <1>4, <1>7
  <2>3. TxTypes'
    BY <1>2, <1>4, <1>5, <2>1 DEF TxTypes, Errors
  <2>4. Paired'
    BY <1>1, <1>2, <2>1, <2>2 DEF Paired
  <2> QED
    BY <2>3, <2>4 DEF TInv
<1> QED
  BY <1>6, <1>7

LEMMA CommitInv ==
    ASSUME TInv, Commit
    PROVE  TInv'
<1>1. /\ call = "run" /\ todo = <<>> /\ todo' = todo
      /\ stack' = SubSeq(stack, 1, Len(stack) - 1)
      /\ call' = "idle" /\ res' = [err |-> "OK", ino |-> out]
      /\ err' = "OK" /\ out' = NoIno
      /\ UNCHANGED <<meta, rows, filedata>>
  BY DEF Commit, Return, Result
<1>2. /\ stack \in Seq(Saved) /\ Len(stack) \in 0..2 /\ Len(stack) # 0
      /\ Nests(<<>>, Len(stack), 1) /\ out \in Ino \cup {NoIno}
  BY <1>1 DEF TInv, TxTypes, Paired, RestGood
<1>3. Len(stack) = 1
  <2>1. Len(stack) \in {1, 2}
    BY <1>2
  <2> QED
    BY <1>2, <2>1, NestsNothing
<1>4. stack' = <<>>
  BY <1>1, <1>3
<1>5. Tables' = Tables
  BY <1>1 DEF Tables
<1>6. TxTypes'
  BY <1>1, <1>2, <1>4, <1>5 DEF TInv, TxTypes, Errors
<1>7. Paired'
  <2>1. call' = "idle" /\ stack' = <<>> /\ todo' = <<>>
    BY <1>1, <1>4
  <2> QED
    BY <2>1 DEF Paired
<1> QED
  BY <1>6, <1>7 DEF TInv

LEMMA RestartInv ==
    ASSUME TInv, Restart
    PROVE  TInv'
<1>1. /\ SetTables(Committed) /\ stack' = <<>> /\ call' = "idle" /\ todo' = <<>>
      /\ err' = "OK" /\ out' = NoIno /\ UNCHANGED res
  BY DEF Restart
<1>2. Tables \in Saved /\ stack \in Seq(Saved)
  BY DEF TInv, TxTypes
<1>3. Committed \in Saved
  BY <1>2 DEF Committed
<1>4. Tables' \in Saved
  BY <1>1, <1>3, TablesSet
<1>5. TxTypes'
  BY <1>1, <1>4 DEF TInv, TxTypes, Errors
<1>6. Paired'
  BY <1>1 DEF Paired
<1> QED
  BY <1>5, <1>6 DEF TInv

\* A CHECK fails: of a RELEASE or of a ROLLBACK TO.
LEMMA CheckFailsInv ==
    ASSUME TInv, UnwindFails \/ CommitFails
    PROVE  TInv'
<1>1. /\ UNCHANGED <<meta, rows, filedata, res, stack, todo, err, out>>
      /\ call' \in {"rollback_failed", "commit_failed"}
      /\ call' = "rollback_failed" => call = "unwind" /\ stack = <<>>
      /\ call' = "commit_failed" => call = "run"
  BY DEF UnwindFails, CommitFails, vars
<1>2. Tables' = Tables
  BY <1>1 DEF Tables
<1>3. TxTypes'
  BY <1>1, <1>2 DEF TInv, TxTypes, Dead
<1>4. Paired'
  BY <1>1 DEF TInv, Paired
<1> QED
  BY <1>3, <1>4 DEF TInv

LEMMA TxNextInv == TInv /\ [TxNext]_allVars => TInv'
<1> SUFFICES ASSUME TInv, [TxNext]_allVars PROVE TInv'
  OBVIOUS
<1>1. ASSUME NEW d \in Ino, NEW n \in AnyName, TxMkdir(d, n) \/ TxMknod(d, n)
      PROVE  TInv'
  BY <1>1, CreateTxInv
<1>2. ASSUME NEW d \in Ino, NEW n \in AnyName, NEW isDir \in BOOLEAN,
             TxRemove(d, n, isDir)
      PROVE  TInv'
  BY <1>2, RemoveTxInv
<1>3. ASSUME NEW d \in Ino, NEW e \in Ino, NEW n \in RowNames, NEW m \in RowNames,
             TxRename(d, n, e, m)
      PROVE  TInv'
  BY <1>3, RenameTxInv
<1>4. CASE \/ \E i \in Ino : TxPurge(i)
           \/ TxPurgeAll
           \/ \E i \in Ino, b \in BOOLEAN : TxSetSize(i, b)
  BY <1>4, MaintainTxInv
<1>5. CASE Proceed
  BY <1>5, RunInv, RunFailsInv, UnwindInv, CommitInv, CheckFailsInv DEF Proceed
<1>6. CASE Restart
  BY <1>6, RestartInv
<1>7. CASE UNCHANGED allVars
  <2>1. Tables' = Tables
    BY <1>7 DEF allVars, vars, txVars, Tables
  <2>2. TxTypes'
    BY <1>7, <2>1 DEF TInv, TxTypes, allVars, vars, txVars
  <2>3. Paired'
    BY <1>7 DEF TInv, Paired, allVars, vars, txVars
  <2> QED
    BY <2>2, <2>3 DEF TInv
<1> QED
  BY <1>1, <1>2, <1>3, <1>4, <1>5, <1>6, <1>7 DEF TxNext

-----------------------------------------------------------------------------
(* Theorems *)

\* In every state, whatever statement has failed in whatever nested call, what is
\* left of a call closes the savepoints it opens.
THEOREM TxInvariance == TxSpec => []TInv
<1>1. TxInit => TInv
  BY TxInitInv
<1>2. TInv /\ [TxNext]_allVars => TInv'
  BY TxNextInv
<1> QED
  BY <1>1, <1>2, PTL DEF TxSpec

\* Variables have their types in the middle of a call too, with any part of its
\* statements done, and there are never more than two savepoints (sqlfs.c:331-350).
THEOREM TxTypeCorrect == TxSpec => []TxTypeOK
<1>1. TInv => TxTypeOK
  BY TInvImplies
<1> QED
  BY <1>1, TxInvariance, PTL

\* Each sql_savepoint() has its sql_release_savepoint(), on every path through a
\* call, its nested calls and their failures.
THEOREM SavepointsArePaired == TxSpec => []SavepointsPaired
<1>1. TInv => SavepointsPaired
  BY TInvImplies
<1> QED
  BY <1>1, TxInvariance, PTL

\* The CHECK of sql_rollback_to_savepoint() can fail only where SQLite has ended
\* the transaction: the code itself always leaves a savepoint to go back to.
THEOREM RollbackFindsSavepoint ==
    ASSUME AutoRollback = FALSE
    PROVE  TxSpec => [](call # "rollback_failed")
<1>1. TInv => call # "rollback_failed"
  BY DEF TInv, Paired
<1> QED
  BY <1>1, TxInvariance, PTL

-----------------------------------------------------------------------------
(* What the calls of Sqlfs do to given tables *)

\* The operators of the module at the tables t.
In(t) == INSTANCE SqlfsTx WITH meta <- t.meta, rows <- t.rows, filedata <- t.data

TableSet(m, rs, fd) == [meta |-> m, rows |-> rs, data |-> fd]

CreateRefuses(T, e) ==
    \E d \in Ino, n \in AnyName, i \in Ino, t \in Types :
        In(T)!NotRemoved(d) /\ In(T)!IsNewIno(i) /\ e = In(T)!CreateErr(d, n, i, t)

RemoveRefuses(T, e) ==
    \E d \in Ino, n \in AnyName \ {""}, isDir \in BOOLEAN :
        \/ In(T)!Found(d, n) = {} /\ e = "ENOENT"
        \/ \E c \in In(T)!Found(d, n) : e = In(T)!RemoveErr(d, c, isDir)

\* A rename that the kernel asks for, of the row r.
Renames(T, d, n, e, m, r) ==
    /\ d \in Ino /\ e \in Ino /\ n \in RowNames /\ m \in RowNames
    /\ In(T)!NotRemoved(e) /\ In(T)!MakesNoCycle(d, n, e)
    /\ In(T)!RenameParentsErr(d, n, e, m) = "OK"
    /\ r \in In(T)!Joined(d, n)

Target(t) == [ino |-> t.ino, type |-> t.type]

RenameRefuses(T, x, o) ==
    \/ /\ o = NoIno
       /\ \E d, e \in Ino, n, m \in RowNames :
            /\ In(T)!NotRemoved(e) /\ In(T)!MakesNoCycle(d, n, e)
            /\ x = In(T)!RenameParentsErr(d, n, e, m)
    \/ \E d, n, e, m, r, t :
        /\ Renames(T, d, n, e, m, r) /\ t \in In(T)!Joined(e, m) /\ t.ino # r.ino
        /\ LET result == In(T)!RemoveErr(e, Target(t), T.meta[r.ino].type = "dir")
           IN  \/ o = NoIno /\ x = result
               \/ result = "OK" /\ x = "EIO" /\ o = t.ino

MaintainRefuses(T, e) ==
    \E i \in Ino : (i \notin DOMAIN T.meta /\ e = "ENOENT") \/ e = In(T)!SetSizeErr(i)

\* A call on the tables T may be refused with e and the inode number o.
MayRefuse(T, e, o) ==
    /\ e # "OK"
    /\ \/ o = NoIno /\ e \in {"EIO", "EINVAL"}
       \/ o = NoIno /\ CreateRefuses(T, e)
       \/ o = NoIno /\ RemoveRefuses(T, e)
       \/ RenameRefuses(T, e, o)
       \/ o = NoIno /\ MaintainRefuses(T, e)

CreateDoes(T, t, o) ==
    \E d \in Ino, n \in AnyName :
        /\ In(T)!NotRemoved(d) /\ o \in Ino /\ In(T)!IsNewIno(o)
        /\ \/ /\ In(T)!CreateErr(d, n, o, "dir") = "OK"
              /\ t = TableSet(InsertMeta(AddLinks(T.meta, d, 1), o, "dir"),
                              T.rows \cup NewDirRows(d, n, o), T.data)
           \/ /\ In(T)!CreateErr(d, n, o, "file") = "OK"
              /\ t = TableSet(InsertMeta(T.meta, o, "file"),
                              T.rows \cup {Row(d, n, o, "file")}, T.data)

RemoveDoes(T, t, o) ==
    \E d \in Ino, n \in AnyName \ {""}, isDir \in BOOLEAN :
        \E c \in In(T)!Found(d, n) :
            /\ In(T)!RemoveErr(d, c, isDir) = "OK" /\ o = c.ino
            /\ t = TableSet(In(T)!RemovedMeta(d, c, isDir),
                            In(T)!RemovedRows(d, n, c, isDir), T.data)

RenameDoes(T, u, o) ==
    \E d, n, e, m, r :
        /\ Renames(T, d, n, e, m, r)
        /\ \/ /\ In(T)!Joined(e, m) = {} /\ o = NoIno
              /\ In(T)!MoveErr(T.rows, r, e, m) = "OK"
              /\ u = TableSet(In(T)!MovedMeta(T.meta, r, e),
                              In(T)!MovedRows(T.rows, r, e, m), T.data)
           \/ \E t \in In(T)!Joined(e, m) :
                \/ t.ino = r.ino /\ u = T /\ o = NoIno
                \/ LET isDir == T.meta[r.ino].type = "dir"
                       rs == In(T)!RemovedRows(e, m, Target(t), isDir)
                       mt == In(T)!RemovedMeta(e, Target(t), isDir)
                   IN  /\ t.ino # r.ino /\ o = t.ino
                       /\ In(T)!RemoveErr(e, Target(t), isDir) = "OK"
                       /\ In(T)!MoveErr(rs, r, e, m) = "OK"
                       /\ u = TableSet(In(T)!MovedMeta(mt, r, e),
                                       In(T)!MovedRows(rs, r, e, m), T.data)

Linked(T, i) == In(T)!StatNlink(i) > (IF T.meta[i].type = "dir" THEN 1 ELSE 0)

\* The tables without the inodes I.
Without(T, I) ==
    TableSet(DeleteMeta(T.meta, I), T.rows,
             T.data \ {i \in I : T.meta[i].type # "dir"})

MaintainDoes(T, t, o) ==
    /\ o = NoIno
    /\ \/ \E i \in Ino : /\ i \in DOMAIN T.meta
                         /\ t = IF Linked(T, i) THEN T ELSE Without(T, {i})
       \/ t = Without(T, In(T)!Unlinked)
       \/ \E i \in Ino, b \in BOOLEAN :
            /\ In(T)!SetSizeErr(i) = "OK"
            /\ t = TableSet(T.meta, T.rows, IF b THEN T.data \cup {i} ELSE T.data \ {i})

\* A call changes the tables T to t and gives back o.
MayDo(T, t, o) ==
    CreateDoes(T, t, o) \/ RemoveDoes(T, t, o) \/ RenameDoes(T, t, o) \/ MaintainDoes(T, t, o)

-----------------------------------------------------------------------------
(* What calls may do are steps of Sqlfs *)

\* The operators at the tables in the database are those of Base.
LEMMA AtCommitted ==
    /\ \A d, n : /\ In(Committed)!RowAt(d, n) = Base!RowAt(d, n)
                 /\ In(Committed)!Found(d, n) = Base!Found(d, n)
                 /\ In(Committed)!Joined(d, n) = Base!Joined(d, n)
    /\ \A d : In(Committed)!NotRemoved(d) = Base!NotRemoved(d)
    /\ \A d, c, b : In(Committed)!RemoveErr(d, c, b) = Base!RemoveErr(d, c, b)
    /\ \A d, n, e, m :
         /\ In(Committed)!MakesNoCycle(d, n, e) = Base!MakesNoCycle(d, n, e)
         /\ In(Committed)!RenameParentsErr(d, n, e, m) = Base!RenameParentsErr(d, n, e, m)
<1>1. \A d, n : /\ In(Committed)!RowAt(d, n) = Base!RowAt(d, n)
               /\ In(Committed)!Found(d, n) = Base!Found(d, n)
               /\ In(Committed)!Joined(d, n) = Base!Joined(d, n)
  BY DEF In!Found, Base!Found, In!RowAt, Base!RowAt, In!Joined, Base!Joined
<1>2. \A d : In(Committed)!NotRemoved(d) = Base!NotRemoved(d)
  BY DEF In!NotRemoved, Base!NotRemoved, In!IsDirectory, Base!IsDirectory
<1>3. \A d, c, b : In(Committed)!RemoveErr(d, c, b) = Base!RemoveErr(d, c, b)
  <2> SUFFICES ASSUME NEW d, NEW c, NEW b
               PROVE  In(Committed)!RemoveErr(d, c, b) = Base!RemoveErr(d, c, b)
    OBVIOUS
  <2>1. In(Committed)!Entries(c.ino) = Base!Entries(c.ino)
    BY DEF In!Entries, Base!Entries
  <2> QED
    BY <2>1 DEF In!RemoveErr, Base!RemoveErr, In!Root, Base!Root, In!Cardinality, Base!Cardinality
<1>4. \A d, n, e, m :
         In(Committed)!MakesNoCycle(d, n, e) = Base!MakesNoCycle(d, n, e)
  <2> SUFFICES ASSUME NEW d, NEW n, NEW e
               PROVE  In(Committed)!MakesNoCycle(d, n, e) = Base!MakesNoCycle(d, n, e)
    OBVIOUS
  <2>1. \A c : In(Committed)!NotBelow(c, e) = Base!NotBelow(c, e)
    BY DEF In!NotBelow, Base!NotBelow, In!Ino, Base!Ino
  <2> QED
    BY <1>1, <2>1 DEF In!MakesNoCycle, Base!MakesNoCycle
<1>5. \A d, n, e, m :
         In(Committed)!RenameParentsErr(d, n, e, m) = Base!RenameParentsErr(d, n, e, m)
  BY <1>1 DEF In!RenameParentsErr, Base!RenameParentsErr, In!ParentErr, Base!ParentErr
<1> QED
  BY <1>1, <1>2, <1>3, <1>4, <1>5

LEMMA BaseRefuses ==
    ASSUME NEW e, NEW o, MayRefuse(Committed, e, o),
           Committed' = Committed, res' = [err |-> e, ino |-> o]
    PROVE  Base!Next
<1> DEFINE T == Committed
<1>1. e # "OK" /\ T'.meta = T.meta /\ T'.rows = T.rows /\ T'.data = T.data
  BY DEF MayRefuse
<1>2. o = NoIno => Base!Fails(e) /\ \A x : e = "EIO" => Base!Fails(x)
  BY <1>1 DEF Base!Fails, Base!Refuse, Base!Result, NoIno, Base!NoIno
<1>3. Ino = Base!Ino /\ AnyName = Base!AnyName /\ RowNames = Base!RowNames
  BY DEF Ino, Base!Ino, AnyName, Base!AnyName, RowNames, Base!RowNames
<1>4. Root \in Ino /\ "" \in AnyName
  BY MaxInoAssumption DEF Root, Ino, AnyName, RowNames
<1>5. CASE o = NoIno /\ e \in {"EIO", "EINVAL"}
  <2>1. Base!Rmdir(Root, "")
    BY <1>2, <1>5 DEF Base!Rmdir, Base!Remove
  <2> QED
    BY <1>3, <1>4, <2>1 DEF Base!Next
<1>6. CASE o = NoIno /\ CreateRefuses(T, e)
  <2>1. PICK d \in Ino, n \in AnyName, i \in Ino, t \in Types :
            In(T)!NotRemoved(d) /\ In(T)!IsNewIno(i) /\ e = In(T)!CreateErr(d, n, i, t)
    BY <1>6 DEF CreateRefuses
  <2>2. Base!NotRemoved(d) /\ Base!IsNewIno(i)
    BY <2>1, AtCommitted DEF In!IsNewIno, Base!IsNewIno
  <2>3. e = Base!CreateErr(d, n, i, t)
    BY <2>1 DEF In!CreateErr, Base!CreateErr, In!StatDirErr, Base!StatDirErr,
                In!RowAt, Base!RowAt, In!StatNlink, Base!StatNlink
  <2>4. CASE t = "dir"
    <3>1. Base!Mkdir(d, n)
      BY <1>2, <1>3, <1>6, <2>2, <2>3, <2>4 DEF Base!Mkdir
    <3> QED
      BY <1>3, <2>2, <3>1 DEF Base!Next
  <2>5. CASE t = "file"
    <3>1. Base!Mknod(d, n)
      BY <1>2, <1>3, <1>6, <2>2, <2>3, <2>5 DEF Base!Mknod
    <3> QED
      BY <1>3, <2>2, <3>1 DEF Base!Next
  <2> QED
    BY <2>4, <2>5 DEF Types
<1>7. CASE o = NoIno /\ RemoveRefuses(T, e)
  <2>1. PICK d \in Ino, n \in AnyName \ {""}, isDir \in BOOLEAN :
            \/ In(T)!Found(d, n) = {} /\ e = "ENOENT"
            \/ \E c \in In(T)!Found(d, n) : e = In(T)!RemoveErr(d, c, isDir)
    BY <1>7 DEF RemoveRefuses
  <2>2. Base!Remove(d, n, isDir)
    BY <1>2, <1>7, <2>1, AtCommitted DEF Base!Remove
  <2>3. Base!Rmdir(d, n) \/ Base!Unlink(d, n)
    BY <2>2 DEF Base!Rmdir, Base!Unlink
  <2> QED
    BY <1>3, <2>3 DEF Base!Next
<1>8. CASE RenameRefuses(T, e, o)
  <2>1. CASE o = NoIno /\
             \E d, x \in Ino, n, m \in RowNames :
                /\ In(T)!NotRemoved(x) /\ In(T)!MakesNoCycle(d, n, x)
                /\ e = In(T)!RenameParentsErr(d, n, x, m)
    <3>1. PICK d \in Ino, x \in Ino, n \in RowNames, m \in RowNames :
                /\ In(T)!NotRemoved(x) /\ In(T)!MakesNoCycle(d, n, x)
                /\ e = In(T)!RenameParentsErr(d, n, x, m)
      BY <2>1
    <3>2. Base!Rename(d, n, x, m)
      BY <1>2, <2>1, <3>1, AtCommitted DEF Base!Rename
    <3> QED
      BY <1>3, <3>1, <3>2, AtCommitted DEF Base!Next
  <2>2. CASE \E d, n, x, m, r, t :
            /\ Renames(T, d, n, x, m, r) /\ t \in In(T)!Joined(x, m) /\ t.ino # r.ino
            /\ LET result == In(T)!RemoveErr(x, Target(t), T.meta[r.ino].type = "dir")
               IN  \/ o = NoIno /\ e = result
                   \/ result = "OK" /\ e = "EIO" /\ o = t.ino
    <3>1. PICK d, n, x, m, r, t :
            /\ Renames(T, d, n, x, m, r) /\ t \in In(T)!Joined(x, m) /\ t.ino # r.ino
            /\ LET result == In(T)!RemoveErr(x, Target(t), T.meta[r.ino].type = "dir")
               IN  \/ o = NoIno /\ e = result
                   \/ result = "OK" /\ e = "EIO" /\ o = t.ino
      BY <2>2
    <3>2. /\ d \in Ino /\ x \in Ino /\ n \in RowNames /\ m \in RowNames
          /\ Base!NotRemoved(x) /\ Base!MakesNoCycle(d, n, x)
          /\ Base!RenameParentsErr(d, n, x, m) = "OK"
          /\ r \in Base!Joined(d, n) /\ t \in Base!Joined(x, m) /\ t.ino # r.ino
      BY <3>1, AtCommitted DEF Renames
    <3>3. Base!RenameOver(r, x, m, t)
      BY <1>1, <1>2, <3>1, AtCommitted
      DEF Base!RenameOver, Base!Result, Target
    <3>4. Base!Rename(d, n, x, m)
      BY <3>2, <3>3 DEF Base!Rename
    <3> QED
      BY <1>3, <3>2, <3>4 DEF Base!Next
  <2> QED
    BY <1>8, <2>1, <2>2 DEF RenameRefuses
<1>9. CASE o = NoIno /\ MaintainRefuses(T, e)
  <2>1. PICK i \in Ino :
            (i \notin DOMAIN T.meta /\ e = "ENOENT") \/ e = In(T)!SetSizeErr(i)
    BY <1>9 DEF MaintainRefuses
  <2>2. CASE i \notin DOMAIN T.meta /\ e = "ENOENT"
    <3>1. Base!Purge(i)
      BY <1>2, <1>9, <2>2 DEF Base!Purge
    <3> QED
      BY <1>3, <3>1 DEF Base!Next, Base!Maintain
  <2>3. CASE e = In(T)!SetSizeErr(i)
    <3>1. e = Base!SetSizeErr(i)
      BY <2>3 DEF In!SetSizeErr, Base!SetSizeErr
    <3>2. Base!SetSize(i, TRUE)
      BY <1>2, <1>9, <3>1 DEF Base!SetSize
    <3> QED
      BY <1>3, <3>2 DEF Base!Next, Base!Maintain
  <2> QED
    BY <2>1, <2>2, <2>3
<1> QED
  BY <1>5, <1>6, <1>7, <1>8, <1>9 DEF MayRefuse

\* The rest of the operators of Base.
LEMMA MoreAtCommitted ==
    /\ \A d, n, i, t : In(Committed)!CreateErr(d, n, i, t) = Base!CreateErr(d, n, i, t)
    /\ \A i : In(Committed)!IsNewIno(i) <=> Base!IsNewIno(i)
    /\ \A d, c, b : In(Committed)!RemovedMeta(d, c, b) = Base!RemovedMeta(d, c, b)
    /\ \A d, n, c, b : In(Committed)!RemovedRows(d, n, c, b) = Base!RemovedRows(d, n, c, b)
    /\ \A mt, r, e : In(Committed)!MovedMeta(mt, r, e) = Base!MovedMeta(mt, r, e)
    /\ \A rs, r, e, m : In(Committed)!MovedRows(rs, r, e, m) = Base!MovedRows(rs, r, e, m)
    /\ \A rs, r, e, m : In(Committed)!MoveErr(rs, r, e, m) = Base!MoveErr(rs, r, e, m)
    /\ \A i : /\ In(Committed)!StatNlink(i) = Base!StatNlink(i)
              /\ In(Committed)!SetSizeErr(i) = Base!SetSizeErr(i)
<1>1. \A d, n, i, t : In(Committed)!CreateErr(d, n, i, t) = Base!CreateErr(d, n, i, t)
  BY DEF In!CreateErr, Base!CreateErr, In!StatDirErr, Base!StatDirErr,
         In!RowAt, Base!RowAt, In!StatNlink, Base!StatNlink
<1>2. \A i : In(Committed)!IsNewIno(i) <=> Base!IsNewIno(i)
  BY DEF In!IsNewIno, Base!IsNewIno
<1>3. \A d, c, b : In(Committed)!RemovedMeta(d, c, b) = Base!RemovedMeta(d, c, b)
  BY DEF In!RemovedMeta, Base!RemovedMeta, In!AddLinks, Base!AddLinks
<1>4. \A d, n, c, b : In(Committed)!RemovedRows(d, n, c, b) = Base!RemovedRows(d, n, c, b)
  BY DEF In!RemovedRows, Base!RemovedRows
<1>5. \A mt, r, e : In(Committed)!MovedMeta(mt, r, e) = Base!MovedMeta(mt, r, e)
  BY DEF In!MovedMeta, Base!MovedMeta, In!AddLinks, Base!AddLinks
<1>6. \A rs, r, e, m : In(Committed)!MovedRows(rs, r, e, m) = Base!MovedRows(rs, r, e, m)
  BY DEF In!MovedRows, Base!MovedRows, In!Row, Base!Row
<1>7. \A rs, r, e, m : In(Committed)!MoveErr(rs, r, e, m) = Base!MoveErr(rs, r, e, m)
  BY DEF In!MoveErr, Base!MoveErr, In!RowAt, Base!RowAt
<1>8. \A i : /\ In(Committed)!StatNlink(i) = Base!StatNlink(i)
             /\ In(Committed)!SetSizeErr(i) = Base!SetSizeErr(i)
  BY DEF In!StatNlink, Base!StatNlink, In!SetSizeErr, Base!SetSizeErr
<1> QED
  BY <1>1, <1>2, <1>3, <1>4, <1>5, <1>6, <1>7, <1>8

LEMMA BaseDoes ==
    ASSUME NEW o, Committed \in Saved, MayDo(Committed, Committed', o),
           res' = [err |-> "OK", ino |-> o]
    PROVE  Base!Next
<1> DEFINE T == Committed
           u == Committed'
<1>1. Ino = Base!Ino /\ AnyName = Base!AnyName /\ RowNames = Base!RowNames
  BY DEF Ino, Base!Ino, AnyName, Base!AnyName, RowNames, Base!RowNames
<1>2. Base!Result("OK", o)
  BY DEF Base!Result
<1>3. \A m, rs, fd : u = TableSet(m, rs, fd) =>
          u.meta = m /\ u.rows = rs /\ u.data = fd
  BY DEF TableSet
<1>4. /\ \A m, i, k : AddLinks(m, i, k) = Base!AddLinks(m, i, k)
      /\ \A m, i, t : InsertMeta(m, i, t) = Base!InsertMeta(m, i, t)
      /\ \A m, I : DeleteMeta(m, I) = Base!DeleteMeta(m, I)
      /\ \A d, n, i, t : Row(d, n, i, t) = Base!Row(d, n, i, t)
      /\ \A d, n, i : NewDirRows(d, n, i) = Base!NewDirRows(d, n, i)
  BY DEF AddLinks, Base!AddLinks, InsertMeta, Base!InsertMeta, DeleteMeta,
         Base!DeleteMeta, Row, Base!Row, NewDirRows, Base!NewDirRows
<1> HIDE DEF u
<1>5. CASE CreateDoes(T, u, o)
  <2>1. PICK d \in Ino, n \in AnyName :
        /\ In(T)!NotRemoved(d) /\ o \in Ino /\ In(T)!IsNewIno(o)
        /\ \/ /\ In(T)!CreateErr(d, n, o, "dir") = "OK"
              /\ u = TableSet(InsertMeta(AddLinks(T.meta, d, 1), o, "dir"),
                              T.rows \cup NewDirRows(d, n, o), T.data)
           \/ /\ In(T)!CreateErr(d, n, o, "file") = "OK"
              /\ u = TableSet(InsertMeta(T.meta, o, "file"),
                              T.rows \cup {Row(d, n, o, "file")}, T.data)
    BY <1>5 DEF CreateDoes
  <2>2. Base!NotRemoved(d) /\ Base!IsNewIno(o) /\ o \in Base!Ino
    BY <1>1, <2>1, AtCommitted, MoreAtCommitted
  <2>3. CASE /\ In(T)!CreateErr(d, n, o, "dir") = "OK"
             /\ u = TableSet(InsertMeta(AddLinks(T.meta, d, 1), o, "dir"),
                             T.rows \cup NewDirRows(d, n, o), T.data)
    <3>1. /\ u.meta = InsertMeta(AddLinks(T.meta, d, 1), o, "dir")
          /\ u.rows = T.rows \cup NewDirRows(d, n, o) /\ u.data = T.data
      BY <1>3, <2>3
    <3>2. Base!Mkdir(d, n)
      BY <1>2, <1>4, <2>2, <2>3, <3>1, MoreAtCommitted DEF Base!Mkdir, u
    <3> QED
      BY <1>1, <2>2, <3>2 DEF Base!Next
  <2>4. CASE /\ In(T)!CreateErr(d, n, o, "file") = "OK"
             /\ u = TableSet(InsertMeta(T.meta, o, "file"),
                             T.rows \cup {Row(d, n, o, "file")}, T.data)
    <3>1. /\ u.meta = InsertMeta(T.meta, o, "file")
          /\ u.rows = T.rows \cup {Row(d, n, o, "file")} /\ u.data = T.data
      BY <1>3, <2>4
    <3>2. Base!Mknod(d, n)
      BY <1>2, <1>4, <2>2, <2>4, <3>1, MoreAtCommitted DEF Base!Mknod, u
    <3> QED
      BY <1>1, <2>2, <3>2 DEF Base!Next
  <2> QED
    BY <2>1, <2>3, <2>4
<1>6. CASE RemoveDoes(T, u, o)
  <2>1. PICK d \in Ino, n \in AnyName \ {""}, isDir \in BOOLEAN :
        \E c \in In(T)!Found(d, n) :
            /\ In(T)!RemoveErr(d, c, isDir) = "OK" /\ o = c.ino
            /\ u = TableSet(In(T)!RemovedMeta(d, c, isDir),
                            In(T)!RemovedRows(d, n, c, isDir), T.data)
    BY <1>6 DEF RemoveDoes
  <2>2. PICK c \in In(T)!Found(d, n) :
            /\ In(T)!RemoveErr(d, c, isDir) = "OK" /\ o = c.ino
            /\ u = TableSet(In(T)!RemovedMeta(d, c, isDir),
                            In(T)!RemovedRows(d, n, c, isDir), T.data)
    BY <2>1
  <2>3. /\ u.meta = Base!RemovedMeta(d, c, isDir)
        /\ u.rows = Base!RemovedRows(d, n, c, isDir) /\ u.data = T.data
    BY <1>3, <2>2, MoreAtCommitted
  <2>4. Base!Remove(d, n, isDir)
    BY <1>2, <2>2, <2>3, AtCommitted DEF Base!Remove, u
  <2>5. Base!Rmdir(d, n) \/ Base!Unlink(d, n)
    BY <2>4 DEF Base!Rmdir, Base!Unlink
  <2> QED
    BY <1>1, <2>5 DEF Base!Next
<1>7. CASE RenameDoes(T, u, o)
  <2>1. PICK d, n, e, m, r :
        /\ Renames(T, d, n, e, m, r)
        /\ \/ /\ In(T)!Joined(e, m) = {} /\ o = NoIno
              /\ In(T)!MoveErr(T.rows, r, e, m) = "OK"
              /\ u = TableSet(In(T)!MovedMeta(T.meta, r, e),
                              In(T)!MovedRows(T.rows, r, e, m), T.data)
           \/ \E t \in In(T)!Joined(e, m) :
                \/ t.ino = r.ino /\ u = T /\ o = NoIno
                \/ LET isDir == T.meta[r.ino].type = "dir"
                       rs == In(T)!RemovedRows(e, m, Target(t), isDir)
                       mt == In(T)!RemovedMeta(e, Target(t), isDir)
                   IN  /\ t.ino # r.ino /\ o = t.ino
                       /\ In(T)!RemoveErr(e, Target(t), isDir) = "OK"
                       /\ In(T)!MoveErr(rs, r, e, m) = "OK"
                       /\ u = TableSet(In(T)!MovedMeta(mt, r, e),
                                       In(T)!MovedRows(rs, r, e, m), T.data)
    BY <1>7 DEF RenameDoes
  <2>2. /\ d \in Base!Ino /\ e \in Base!Ino /\ n \in Base!RowNames /\ m \in Base!RowNames
        /\ Base!NotRemoved(e) /\ Base!MakesNoCycle(d, n, e)
        /\ Base!RenameParentsErr(d, n, e, m) = "OK"
        /\ r \in Base!Joined(d, n)
    BY <1>1, <2>1, AtCommitted DEF Renames
  <2>3. CASE /\ In(T)!Joined(e, m) = {} /\ o = NoIno
             /\ In(T)!MoveErr(T.rows, r, e, m) = "OK"
             /\ u = TableSet(In(T)!MovedMeta(T.meta, r, e),
                             In(T)!MovedRows(T.rows, r, e, m), T.data)
    <3>1. /\ u.meta = Base!MovedMeta(T.meta, r, e)
          /\ u.rows = Base!MovedRows(T.rows, r, e, m) /\ u.data = T.data
      BY <1>3, <2>3, MoreAtCommitted
    <3>2. Base!RenameToFree(r, e, m)
      BY <1>2, <2>3, <3>1, MoreAtCommitted DEF Base!RenameToFree, u, NoIno, Base!NoIno
    <3>3. Base!Rename(d, n, e, m)
      BY <2>2, <2>3, <3>2, AtCommitted DEF Base!Rename
    <3> QED
      BY <2>2, <3>3 DEF Base!Next
  <2>4. CASE \E t \in In(T)!Joined(e, m) : t.ino = r.ino /\ u = T /\ o = NoIno
    <3>1. Base!Rename(d, n, e, m)
      BY <1>2, <2>2, <2>4, AtCommitted DEF Base!Rename, u, NoIno, Base!NoIno
    <3> QED
      BY <2>2, <3>1 DEF Base!Next
  <2>5. ASSUME NEW t \in In(T)!Joined(e, m),
               LET isDir == T.meta[r.ino].type = "dir"
                   rs == In(T)!RemovedRows(e, m, Target(t), isDir)
                   mt == In(T)!RemovedMeta(e, Target(t), isDir)
               IN  /\ t.ino # r.ino /\ o = t.ino
                   /\ In(T)!RemoveErr(e, Target(t), isDir) = "OK"
                   /\ In(T)!MoveErr(rs, r, e, m) = "OK"
                   /\ u = TableSet(In(T)!MovedMeta(mt, r, e),
                                   In(T)!MovedRows(rs, r, e, m), T.data)
        PROVE  Base!Next
    <3> DEFINE isDir == T.meta[r.ino].type = "dir"
               rs == Base!RemovedRows(e, m, Target(t), isDir)
               mt == Base!RemovedMeta(e, Target(t), isDir)
    <3>0. /\ In(T)!RemovedRows(e, m, Target(t), isDir) = rs
          /\ In(T)!RemovedMeta(e, Target(t), isDir) = mt
      BY MoreAtCommitted
    <3>1. /\ t.ino # r.ino /\ o = t.ino /\ t \in Base!Joined(e, m)
          /\ Base!RemoveErr(e, Target(t), isDir) = "OK"
          /\ Base!MoveErr(rs, r, e, m) = "OK"
          /\ u = TableSet(Base!MovedMeta(mt, r, e), Base!MovedRows(rs, r, e, m), T.data)
      BY <2>5, <3>0, AtCommitted, MoreAtCommitted
    <3>2. /\ u.meta = Base!MovedMeta(mt, r, e)
          /\ u.rows = Base!MovedRows(rs, r, e, m) /\ u.data = T.data
      BY <1>3, <3>1
    <3>3. Base!RenameOver(r, e, m, t)
      BY <1>2, <3>1, <3>2 DEF Base!RenameOver, Target, u
    <3>4. Base!Rename(d, n, e, m)
      BY <2>2, <3>1, <3>3 DEF Base!Rename
    <3> QED
      BY <2>2, <3>4 DEF Base!Next
  <2> QED
    BY <2>1, <2>3, <2>4, <2>5
<1>8. CASE MaintainDoes(T, u, o)
  <2>0. Base!Result("OK", Base!NoIno)
    BY <1>2, <1>8 DEF MaintainDoes, NoIno, Base!NoIno
  <2>1. ASSUME NEW i \in Ino, i \in DOMAIN T.meta,
               u = IF Linked(T, i) THEN T ELSE Without(T, {i})
        PROVE  Base!Next
    <3>1. Linked(T, i) <=> Base!StatNlink(i) > (IF T.meta[i].type = "dir" THEN 1 ELSE 0)
      BY MoreAtCommitted DEF Linked
    <3>2. CASE Linked(T, i)
      <4>1. Base!Purge(i)
        BY <2>0, <2>1, <3>1, <3>2 DEF Base!Purge, u
      <4> QED
        BY <1>1, <4>1 DEF Base!Next, Base!Maintain
    <3>3. CASE ~Linked(T, i)
      <4>1. /\ u.meta = DeleteMeta(T.meta, {i}) /\ u.rows = T.rows
            /\ u.data = T.data \ {j \in {i} : T.meta[j].type # "dir"}
        BY <1>3, <2>1, <3>3 DEF Without
      <4>2. u.data = IF T.meta[i].type = "dir" THEN T.data ELSE T.data \ {i}
        BY <4>1
      <4>3. Base!PurgeOne(i)
        BY <1>4, <4>1, <4>2 DEF Base!PurgeOne, u
      <4>4. Base!Purge(i)
        BY <2>0, <2>1, <3>1, <3>3, <4>3 DEF Base!Purge
      <4> QED
        BY <1>1, <4>4 DEF Base!Next, Base!Maintain
    <3> QED
      BY <3>2, <3>3
  <2>2. CASE u = Without(T, In(T)!Unlinked)
    <3>1. In(T)!Unlinked = Base!Unlinked
      BY DEF In!Unlinked, Base!Unlinked
    <3>2. /\ u.meta = DeleteMeta(T.meta, Base!Unlinked) /\ u.rows = T.rows
          /\ u.data = T.data \ {i \in Base!Unlinked : T.meta[i].type # "dir"}
      BY <1>3, <2>2, <3>1 DEF Without
    <3>3. \A i \in Base!Unlinked : T.meta[i].type # "dir" <=> T.meta[i].type = "file"
      <4>1. \A i \in DOMAIN T.meta : T.meta[i].type \in {"dir", "file"}
        BY DEF Saved, MetaTables, MetaRow, Types
      <4>2. Base!Unlinked \subseteq DOMAIN T.meta
        BY DEF Base!Unlinked
      <4> QED
        BY <4>1, <4>2
    <3>4. u.data = T.data \ {i \in Base!Unlinked : T.meta[i].type = "file"}
      BY <3>2, <3>3
    <3>5. Base!PurgeAll
      BY <1>4, <2>0, <3>2, <3>4 DEF Base!PurgeAll, u
    <3> QED
      BY <3>5 DEF Base!Next, Base!Maintain
  <2>3. ASSUME NEW i \in Ino, NEW b \in BOOLEAN,
               In(T)!SetSizeErr(i) = "OK",
               u = TableSet(T.meta, T.rows, IF b THEN T.data \cup {i} ELSE T.data \ {i})
        PROVE  Base!Next
    <3>1. /\ u.meta = T.meta /\ u.rows = T.rows
          /\ u.data = IF b THEN T.data \cup {i} ELSE T.data \ {i}
      BY <1>3, <2>3
    <3>2. Base!SetSize(i, b)
      BY <2>0, <2>3, <3>1, MoreAtCommitted DEF Base!SetSize, u
    <3> QED
      BY <1>1, <3>2 DEF Base!Next, Base!Maintain
  <2> QED
    BY <1>8, <2>1, <2>2, <2>3 DEF MaintainDoes
<1> QED
  BY <1>5, <1>6, <1>7, <1>8 DEF MayDo, u

-----------------------------------------------------------------------------
(* What is left of a call leads somewhere *)

\* A point in a call: the tables of the connection, the number given back so far,
\* and how it has failed, if it has.
Point(t, o, e) == [t |-> t, out |-> o, err |-> e]

\* The rows "SELECT ino FROM metadata WHERE nlink = 0" has still to yield are
\* deleted by the turns of the loop to come.
Purged(t, i) == Without(t, {j \in In(t)!Unlinked : j > i})

\* The point after statement s. A call that has failed goes no further.
DoneAt(s, S) ==
    IF S.err # "OK" THEN S
    ELSE IF s.op = "next" THEN Point(Purged(S.t, s.after), S.out, "OK")
    ELSE IF In(S.t)!StmtErr(s) # "OK" THEN Point(S.t, S.out, In(S.t)!StmtErr(s))
    ELSE Point(In(S.t)!After(s), IF s.op = "out" THEN s.ino ELSE S.out, "OK")

\* A call on the tables T goes from S to R by s. It may fail there with EIO, or with
\* the error of s, if it has one.
Runs(T, s, S, R) ==
    /\ R = DoneAt(s, S)
    /\ S.err = "OK" => MayRefuse(T, "EIO", S.out)
    /\ R.err # "OK" => MayRefuse(T, R.err, R.out)

Path(T, f, stmts, S, F) ==
    /\ f[0] = S /\ f[Len(stmts)] = F
    /\ \A j \in 1..Len(stmts) : Runs(T, stmts[j], f[j - 1], f[j])

Leads(T, stmts, S, F) == \E f : Path(T, f, stmts, S, F)

\* The call ends as a call of Sqlfs may end.
Ends(T, F) == IF F.err = "OK" THEN MayDo(T, F.t, F.out) ELSE MayRefuse(T, F.err, F.out)

LEMMA LeadsNowhere ==
    \A T, S, F : Leads(T, <<>>, S, F) <=> S = F
<1> SUFFICES ASSUME NEW T, NEW S, NEW F
             PROVE  Leads(T, <<>>, S, F) <=> S = F
  OBVIOUS
<1>1. ASSUME S = F
      PROVE  Leads(T, <<>>, S, F)
  <2>1. Path(T, [j \in 0..0 |-> S], <<>>, S, F)
    BY <1>1 DEF Path
  <2> QED
    BY <2>1 DEF Leads
<1>2. ASSUME Leads(T, <<>>, S, F)
      PROVE  S = F
  BY <1>2 DEF Leads, Path
<1> QED
  BY <1>1, <1>2

LEMMA LeadsThen ==
    ASSUME NEW T, NEW X, NEW s \in Seq(X), NEW t \in Seq(X), NEW S, NEW R, NEW F,
           Leads(T, s, S, R), Leads(T, t, R, F)
    PROVE  Leads(T, s \o t, S, F)
<1>1. PICK p : Path(T, p, s, S, R)
  BY DEF Leads
<1>2. PICK q : Path(T, q, t, R, F)
  BY DEF Leads
<1> DEFINE a == Len(s)
           b == Len(t)
           f == [j \in 0..(a + b) |-> IF j <= a THEN p[j] ELSE q[j - a]]
<1>3. /\ a \in Nat /\ b \in Nat /\ Len(s \o t) = a + b
      /\ \A j \in 1..(a + b) : (s \o t)[j] = IF j <= a THEN s[j] ELSE t[j - a]
  OBVIOUS
<1>4. p[0] = S /\ p[a] = R /\ \A j \in 1..a : Runs(T, s[j], p[j - 1], p[j])
  BY <1>1 DEF Path
<1>5. q[0] = R /\ q[b] = F /\ \A j \in 1..b : Runs(T, t[j], q[j - 1], q[j])
  BY <1>2 DEF Path
<1> HIDE DEF a, b
<1>6. f[0] = S /\ f[a + b] = F
  BY <1>3, <1>4, <1>5
<1>7. ASSUME NEW j \in 1..(a + b)
      PROVE  Runs(T, (s \o t)[j], f[j - 1], f[j])
  <2>0. j \in Nat /\ j - 1 \in 0..(a + b) /\ j \in 0..(a + b)
    BY <1>3
  <2>1. CASE j <= a
    BY <2>0, <2>1, <1>3, <1>4
  <2>2. CASE j = a + 1
    <3>1. j - 1 = a /\ j - a = 1 /\ 1 \in 1..b
      BY <2>2, <1>3
    <3>2. f[j - 1] = q[0] /\ f[j] = q[1] /\ (s \o t)[j] = t[1]
      BY <2>0, <2>2, <3>1, <1>3, <1>4, <1>5
    <3>3. Runs(T, t[1], q[0], q[1])
      BY <3>1, <1>5
    <3> QED
      BY <3>2, <3>3
  <2>3. CASE j > a + 1
    <3>1. j - a \in 1..b /\ (j - 1) - a = (j - a) - 1 /\ ~(j <= a) /\ ~(j - 1 <= a)
      BY <2>0, <2>3, <1>3
    <3>2. f[j - 1] = q[(j - a) - 1] /\ f[j] = q[j - a] /\ (s \o t)[j] = t[j - a]
      BY <2>0, <3>1, <1>3
    <3>3. Runs(T, t[j - a], q[(j - a) - 1], q[j - a])
      BY <3>1, <1>5
    <3> QED
      BY <3>2, <3>3
  <2> QED
    BY <2>0, <2>1, <2>2, <2>3, <1>3
<1>8. Path(T, f, s \o t, S, F)
  <2> HIDE DEF f
  <2> QED
    BY <1>3, <1>6, <1>7 DEF Path
<1> QED
  BY <1>8 DEF Leads

\* The statements after the first.
LEMMA LeadsTail ==
    ASSUME NEW T, NEW X, NEW s \in Seq(X), s # <<>>, NEW S, NEW F, Leads(T, s, S, F)
    PROVE  \E R : Runs(T, Head(s), S, R) /\ Leads(T, Tail(s), R, F)
<1>1. PICK p : Path(T, p, s, S, F)
  BY DEF Leads
<1> DEFINE a == Len(s)
           f == [j \in 0..(a - 1) |-> p[j + 1]]
<1>2. /\ a \in Nat /\ a >= 1 /\ Len(Tail(s)) = a - 1 /\ Head(s) = s[1]
      /\ \A j \in 1..(a - 1) : Tail(s)[j] = s[j + 1]
  OBVIOUS
<1>3. p[0] = S /\ p[a] = F /\ \A j \in 1..a : Runs(T, s[j], p[j - 1], p[j])
  BY <1>1 DEF Path
<1> HIDE DEF a
<1>4. Runs(T, Head(s), S, p[1])
  <2>1. 1 \in 1..a /\ 1 - 1 = 0
    BY <1>2
  <2> QED
    BY <2>1, <1>2, <1>3
<1>5. f[0] = p[1] /\ f[a - 1] = F
  BY <1>2, <1>3
<1>6. ASSUME NEW j \in 1..(a - 1)
      PROVE  Runs(T, Tail(s)[j], f[j - 1], f[j])
  <2>1. /\ j \in 0..(a - 1) /\ j - 1 \in 0..(a - 1) /\ j + 1 \in 1..a
        /\ (j + 1) - 1 = j /\ (j - 1) + 1 = j
    BY <1>2
  <2>2. f[j] = p[j + 1] /\ f[j - 1] = p[j]
    BY <2>1
  <2>3. Runs(T, s[j + 1], p[j], p[j + 1])
    BY <2>1, <1>3
  <2> QED
    BY <2>2, <2>3, <1>2
<1>7. Path(T, f, Tail(s), p[1], F)
  <2> HIDE DEF f
  <2> QED
    BY <1>2, <1>5, <1>6 DEF Path
<1> QED
  BY <1>4, <1>7 DEF Leads

\* Nothing more happens in a call that has failed.
LEMMA LeadsFailed ==
    ASSUME NEW T, NEW X, NEW s \in Seq(X), NEW S,
           S.err # "OK", MayRefuse(T, S.err, S.out)
    PROVE  Leads(T, s, S, S)
<1>1. \A x : Runs(T, x, S, S)
  BY DEF Runs, DoneAt
<1>2. Path(T, [j \in 0..Len(s) |-> S], s, S, S)
  <2>1. Len(s) \in Nat
    OBVIOUS
  <2> QED
    BY <1>1, <2>1 DEF Path
<1> QED
  BY <1>2 DEF Leads

\* Statements one by one.
LEMMA LeadsShort ==
    ASSUME NEW T, NEW a, NEW b, NEW c, NEW d, NEW e,
           NEW S, NEW P, NEW Q, NEW R, NEW U, NEW F
    PROVE  /\ Runs(T, a, S, P) => Leads(T, <<a>>, S, P)
           /\ Runs(T, a, S, P) /\ Runs(T, b, P, Q) => Leads(T, <<a, b>>, S, Q)
           /\ Runs(T, a, S, P) /\ Runs(T, b, P, Q) /\ Runs(T, c, Q, R)
                => Leads(T, <<a, b, c>>, S, R)
           /\ Runs(T, a, S, P) /\ Runs(T, b, P, Q) /\ Runs(T, c, Q, R)
                /\ Runs(T, d, R, U) /\ Runs(T, e, U, F)
                => Leads(T, <<a, b, c, d, e>>, S, F)
<1> DEFINE f == [j \in 0..5 |-> CASE j = 0 -> S [] j = 1 -> P [] j = 2 -> Q
                                  [] j = 3 -> R [] j = 4 -> U [] OTHER -> F]
<1>1. f[0] = S /\ f[1] = P /\ f[2] = Q /\ f[3] = R /\ f[4] = U /\ f[5] = F
  OBVIOUS
<1> HIDE DEF f
<1>2. ASSUME Runs(T, a, S, P)
      PROVE  Leads(T, <<a>>, S, P)
  <2> DEFINE s == <<a>>
  <2>1. Len(s) = 1 /\ s[1] = a
    OBVIOUS
  <2> HIDE DEF s
  <2>2. Path(T, f, s, S, P)
    BY <1>1, <1>2, <2>1 DEF Path
  <2> QED
    BY <2>2 DEF Leads, s
<1>3. ASSUME Runs(T, a, S, P), Runs(T, b, P, Q)
      PROVE  Leads(T, <<a, b>>, S, Q)
  <2> DEFINE s == <<a, b>>
  <2>1. Len(s) = 2 /\ s[1] = a /\ s[2] = b
    OBVIOUS
  <2> HIDE DEF s
  <2>2. \A j \in 1..2 : Runs(T, s[j], f[j - 1], f[j])
    <3>1. \A j \in 1..2 : j = 1 \/ j = 2
      OBVIOUS
    <3> QED
      BY <1>1, <1>3, <2>1, <3>1
  <2>3. Path(T, f, s, S, Q)
    BY <1>1, <2>1, <2>2 DEF Path
  <2> QED
    BY <2>3 DEF Leads, s
<1>4. ASSUME Runs(T, a, S, P), Runs(T, b, P, Q), Runs(T, c, Q, R)
      PROVE  Leads(T, <<a, b, c>>, S, R)
  <2> DEFINE s == <<a, b, c>>
  <2>1. Len(s) = 3 /\ s[1] = a /\ s[2] = b /\ s[3] = c
    OBVIOUS
  <2> HIDE DEF s
  <2>2. \A j \in 1..3 : Runs(T, s[j], f[j - 1], f[j])
    <3>1. \A j \in 1..3 : j = 1 \/ j = 2 \/ j = 3
      OBVIOUS
    <3> QED
      BY <1>1, <1>4, <2>1, <3>1
  <2>3. Path(T, f, s, S, R)
    BY <1>1, <2>1, <2>2 DEF Path
  <2> QED
    BY <2>3 DEF Leads, s
<1>5. ASSUME Runs(T, a, S, P), Runs(T, b, P, Q), Runs(T, c, Q, R),
             Runs(T, d, R, U), Runs(T, e, U, F)
      PROVE  Leads(T, <<a, b, c, d, e>>, S, F)
  <2> DEFINE s == <<a, b, c, d, e>>
  <2>1. Len(s) = 5 /\ s[1] = a /\ s[2] = b /\ s[3] = c /\ s[4] = d /\ s[5] = e
    OBVIOUS
  <2> HIDE DEF s
  <2>2. \A j \in 1..5 : Runs(T, s[j], f[j - 1], f[j])
    <3>1. \A j \in 1..5 : j = 1 \/ j = 2 \/ j = 3 \/ j = 4 \/ j = 5
      OBVIOUS
    <3> QED
      BY <1>1, <1>5, <2>1, <3>1
  <2>3. Path(T, f, s, S, F)
    BY <1>1, <2>1, <2>2 DEF Path
  <2> QED
    BY <2>3 DEF Leads, s
<1> QED
  BY <1>2, <1>3, <1>4, <1>5

-----------------------------------------------------------------------------
(* What each statement does *)

At(rs, d, n) == {q \in rs : q.dir = d /\ q.name = n}

HasRow(rs, d, n) == \E q \in rs : q.dir = d /\ q.name = n

Moved(rs, d, n, e, m) ==
    {IF q \in At(rs, d, n) THEN [q EXCEPT !.dir = e, !.name = m] ELSE q : q \in rs}

Adopted(rs, i, e) == {IF q \in At(rs, i, "") THEN [q EXCEPT !.ino = e] ELSE q : q \in rs}

NotIn(rs, d) == {q \in rs : q.dir # d}

Filled(fd, i, x) == IF x THEN fd \cup {i} ELSE fd \ {i}

\* Points as they occur: the call goes on, or it has failed with e.
Going(m, rs, fd, o) == Point(TableSet(m, rs, fd), o, "OK")
Stopped(m, rs, fd, o, e) == Point(TableSet(m, rs, fd), o, e)

LEMMA PointFields ==
    ASSUME NEW m, NEW rs, NEW fd, NEW o, NEW e
    PROVE  /\ Going(m, rs, fd, o).t = TableSet(m, rs, fd)
           /\ Going(m, rs, fd, o).out = o /\ Going(m, rs, fd, o).err = "OK"
           /\ Stopped(m, rs, fd, o, e).out = o /\ Stopped(m, rs, fd, o, e).err = e
  BY DEF Going, Stopped, Point

LEMMA SetFields ==
    ASSUME NEW m, NEW rs, NEW fd
    PROVE  /\ TableSet(m, rs, fd).meta = m /\ TableSet(m, rs, fd).rows = rs
           /\ TableSet(m, rs, fd).data = fd
           /\ In(TableSet(m, rs, fd))!Tables = TableSet(m, rs, fd)
  BY DEF TableSet, In!Tables

LEMMA StoppedStays ==
    ASSUME NEW s, NEW m, NEW rs, NEW fd, NEW o, NEW e, e # "OK"
    PROVE  DoneAt(s, Stopped(m, rs, fd, o, e)) = Stopped(m, rs, fd, o, e)
  BY DEF DoneAt, Stopped, Point

\* A statement that SQLite runs on the tables of a point.
LEMMA Executed ==
    ASSUME NEW s, s.op \notin {"next", "out"}, NEW m, NEW rs, NEW fd, NEW o,
           In(TableSet(m, rs, fd))!StmtErr(s) = "OK",
           NEW a, NEW b, NEW c, In(TableSet(m, rs, fd))!After(s) = TableSet(a, b, c)
    PROVE  DoneAt(s, Going(m, rs, fd, o)) = Going(a, b, c, o)
<1> DEFINE S == Going(m, rs, fd, o)
<1>1. S.t = TableSet(m, rs, fd) /\ S.out = o /\ S.err = "OK"
  BY PointFields
<1> HIDE DEF S
<1> QED
  BY <1>1 DEF DoneAt, Going, S

LEMMA NotExecuted ==
    ASSUME NEW s, s.op \notin {"next", "out"}, NEW m, NEW rs, NEW fd, NEW o, NEW e,
           In(TableSet(m, rs, fd))!StmtErr(s) = e, e # "OK"
    PROVE  DoneAt(s, Going(m, rs, fd, o)) = Stopped(m, rs, fd, o, e)
<1> DEFINE S == Going(m, rs, fd, o)
<1>1. S.t = TableSet(m, rs, fd) /\ S.out = o /\ S.err = "OK"
  BY PointFields
<1> HIDE DEF S
<1> QED
  BY <1>1 DEF DoneAt, Stopped, S

LEMMA GoLinks ==
    ASSUME NEW m, NEW rs, NEW fd, NEW o, NEW i, NEW k
    PROVE  DoneAt(Links(i, k), Going(m, rs, fd, o)) =
             IF i \in DOMAIN m THEN Going(AddLinks(m, i, k), rs, fd, o)
             ELSE Stopped(m, rs, fd, o, "ENOENT")
<1> DEFINE t == TableSet(m, rs, fd)
           s == Links(i, k)
           v == AddLinks(m, i, k)
<1>1. t.meta = m /\ t.rows = rs /\ t.data = fd /\ In(t)!Tables = t
  BY SetFields
<1>2. s.op = "links" /\ s.ino = i /\ s.add = k
  BY DEF Links
<1>0. In(t)!AddLinks(m, i, k) = v
  BY DEF AddLinks, In!AddLinks
<1> HIDE DEF t, s, v
<1>3. In(t)!StmtErr(s) = IF i \in DOMAIN m THEN "OK" ELSE "ENOENT"
  BY <1>1, <1>2, <1>0 DEF In!StmtErr
<1>4. In(t)!After(s) = [t EXCEPT !.meta = v]
  BY <1>1, <1>2, <1>0 DEF In!After
<1>5. In(t)!After(s) = TableSet(v, rs, fd)
  BY <1>4 DEF t, TableSet
<1>6. s.op \notin {"next", "out"}
  BY <1>2
<1>7. DoneAt(s, Going(m, rs, fd, o)) =
             IF i \in DOMAIN m THEN Going(AddLinks(m, i, k), rs, fd, o)
             ELSE Stopped(m, rs, fd, o, "ENOENT")
  BY <1>3, <1>5, <1>6, Executed, NotExecuted DEF t, v
<1> QED
  BY <1>7 DEF s

LEMMA GoNewMeta ==
    ASSUME NEW m, NEW rs, NEW fd, NEW o, NEW i, NEW x
    PROVE  DoneAt(NewMeta(i, x), Going(m, rs, fd, o)) = Going(InsertMeta(m, i, x), rs, fd, o)
<1> DEFINE t == TableSet(m, rs, fd)
           s == NewMeta(i, x)
           v == InsertMeta(m, i, x)
<1>1. t.meta = m /\ t.rows = rs /\ t.data = fd /\ In(t)!Tables = t
  BY SetFields
<1>2. s.op = "newMeta" /\ s.ino = i /\ s.type = x
  BY DEF NewMeta
<1>0. In(t)!InsertMeta(m, i, x) = v
  BY DEF InsertMeta, In!InsertMeta
<1> HIDE DEF t, s, v
<1>3. In(t)!StmtErr(s) = "OK"
  BY <1>1, <1>2, <1>0 DEF In!StmtErr
<1>4. In(t)!After(s) = [t EXCEPT !.meta = v]
  BY <1>1, <1>2, <1>0 DEF In!After
<1>5. In(t)!After(s) = TableSet(v, rs, fd)
  BY <1>4 DEF t, TableSet
<1>6. s.op \notin {"next", "out"}
  BY <1>2
<1>7. DoneAt(s, Going(m, rs, fd, o)) = Going(InsertMeta(m, i, x), rs, fd, o)
  BY <1>3, <1>5, <1>6, Executed, NotExecuted DEF t, v
<1> QED
  BY <1>7 DEF s

LEMMA GoTouchMeta ==
    ASSUME NEW m, NEW rs, NEW fd, NEW o, NEW i
    PROVE  DoneAt(TouchMeta(i), Going(m, rs, fd, o)) =
             IF i \in DOMAIN m THEN Going(m, rs, fd, o)
             ELSE Stopped(m, rs, fd, o, "ENOENT")
<1> DEFINE t == TableSet(m, rs, fd)
           s == TouchMeta(i)
<1>1. t.meta = m /\ t.rows = rs /\ t.data = fd /\ In(t)!Tables = t
  BY SetFields
<1>2. s.op = "touchMeta" /\ s.ino = i
  BY DEF TouchMeta
<1> HIDE DEF t, s
<1>3. In(t)!StmtErr(s) = IF i \in DOMAIN m THEN "OK" ELSE "ENOENT"
  BY <1>1, <1>2 DEF In!StmtErr
<1>4. In(t)!After(s) = t
  BY <1>1, <1>2 DEF In!After
<1>5. In(t)!After(s) = TableSet(m, rs, fd)
  BY <1>4 DEF t, TableSet
<1>6. s.op \notin {"next", "out"}
  BY <1>2
<1>7. DoneAt(s, Going(m, rs, fd, o)) =
             IF i \in DOMAIN m THEN Going(m, rs, fd, o)
             ELSE Stopped(m, rs, fd, o, "ENOENT")
  BY <1>3, <1>5, <1>6, Executed, NotExecuted DEF t
<1> QED
  BY <1>7 DEF s

LEMMA GoDelMeta ==
    ASSUME NEW m, NEW rs, NEW fd, NEW o, NEW i
    PROVE  DoneAt(DelMeta(i), Going(m, rs, fd, o)) = Going(DeleteMeta(m, {i}), rs, fd, o)
<1> DEFINE t == TableSet(m, rs, fd)
           s == DelMeta(i)
           v == DeleteMeta(m, {i})
<1>1. t.meta = m /\ t.rows = rs /\ t.data = fd /\ In(t)!Tables = t
  BY SetFields
<1>2. s.op = "delMeta" /\ s.ino = i
  BY DEF DelMeta
<1>0. In(t)!DeleteMeta(m, {i}) = v
  BY DEF DeleteMeta, In!DeleteMeta
<1> HIDE DEF t, s, v
<1>3. In(t)!StmtErr(s) = "OK"
  BY <1>1, <1>2, <1>0 DEF In!StmtErr
<1>4. In(t)!After(s) = [t EXCEPT !.meta = v]
  BY <1>1, <1>2, <1>0 DEF In!After
<1>5. In(t)!After(s) = TableSet(v, rs, fd)
  BY <1>4 DEF t, TableSet
<1>6. s.op \notin {"next", "out"}
  BY <1>2
<1>7. DoneAt(s, Going(m, rs, fd, o)) = Going(DeleteMeta(m, {i}), rs, fd, o)
  BY <1>3, <1>5, <1>6, Executed, NotExecuted DEF t, v
<1> QED
  BY <1>7 DEF s

LEMMA GoNewRow ==
    ASSUME NEW m, NEW rs, NEW fd, NEW o, NEW r
    PROVE  DoneAt(NewRow(r), Going(m, rs, fd, o)) =
             IF HasRow(rs, r.dir, r.name) THEN Stopped(m, rs, fd, o, "EEXIST")
             ELSE Going(m, rs \cup {r}, fd, o)
<1> DEFINE t == TableSet(m, rs, fd)
           s == NewRow(r)
           v == rs \cup {r}
<1>1. t.meta = m /\ t.rows = rs /\ t.data = fd /\ In(t)!Tables = t
  BY SetFields
<1>2. s.op = "newRow" /\ s.row = r
  BY DEF NewRow
<1>0. \A x, y : /\ In(t)!RowAt(x, y) = At(rs, x, y)
                /\ At(rs, x, y) = {} <=> ~HasRow(rs, x, y)
  BY <1>1 DEF In!RowAt, At, HasRow
<1> HIDE DEF t, s, v
<1>3. In(t)!StmtErr(s) = IF HasRow(rs, r.dir, r.name) THEN "EEXIST" ELSE "OK"
  BY <1>1, <1>2, <1>0 DEF In!StmtErr
<1>4. In(t)!After(s) = [t EXCEPT !.rows = v]
  BY <1>1, <1>2 DEF In!After, v
<1>5. In(t)!After(s) = TableSet(m, v, fd)
  BY <1>4 DEF t, TableSet
<1>6. s.op \notin {"next", "out"}
  BY <1>2
<1>7. DoneAt(s, Going(m, rs, fd, o)) =
             IF HasRow(rs, r.dir, r.name) THEN Stopped(m, rs, fd, o, "EEXIST")
             ELSE Going(m, rs \cup {r}, fd, o)
  BY <1>3, <1>5, <1>6, Executed, NotExecuted DEF t, v
<1> QED
  BY <1>7 DEF s

LEMMA GoDelRow ==
    ASSUME NEW m, NEW rs, NEW fd, NEW o, NEW d, NEW n
    PROVE  DoneAt(DelRow(d, n), Going(m, rs, fd, o)) = Going(m, rs \ At(rs, d, n), fd, o)
<1> DEFINE t == TableSet(m, rs, fd)
           s == DelRow(d, n)
           v == rs \ At(rs, d, n)
<1>1. t.meta = m /\ t.rows = rs /\ t.data = fd /\ In(t)!Tables = t
  BY SetFields
<1>2. s.op = "delRow" /\ s.dir = d /\ s.name = n
  BY DEF DelRow
<1>0. \A x, y : /\ In(t)!RowAt(x, y) = At(rs, x, y)
                /\ At(rs, x, y) = {} <=> ~HasRow(rs, x, y)
  BY <1>1 DEF In!RowAt, At, HasRow
<1>8. rs \ In(t)!RowAt(d, n) = v
  BY <1>0
<1> HIDE DEF t, s, v
<1>3. In(t)!StmtErr(s) = "OK"
  BY <1>1, <1>2, <1>8 DEF In!StmtErr
<1>4. In(t)!After(s) = [t EXCEPT !.rows = v]
  BY <1>1, <1>2, <1>8 DEF In!After
<1>5. In(t)!After(s) = TableSet(m, v, fd)
  BY <1>4 DEF t, TableSet
<1>6. s.op \notin {"next", "out"}
  BY <1>2
<1>7. DoneAt(s, Going(m, rs, fd, o)) = Going(m, rs \ At(rs, d, n), fd, o)
  BY <1>3, <1>5, <1>6, Executed, NotExecuted DEF t, v
<1> QED
  BY <1>7 DEF s

LEMMA GoDelRows ==
    ASSUME NEW m, NEW rs, NEW fd, NEW o, NEW d
    PROVE  DoneAt(DelRows(d), Going(m, rs, fd, o)) = Going(m, NotIn(rs, d), fd, o)
<1> DEFINE t == TableSet(m, rs, fd)
           s == DelRows(d)
           v == NotIn(rs, d)
<1>1. t.meta = m /\ t.rows = rs /\ t.data = fd /\ In(t)!Tables = t
  BY SetFields
<1>2. s.op = "delRows" /\ s.dir = d
  BY DEF DelRows
<1>0. rs \ In(t)!Entries(d) = v
  BY <1>1 DEF In!Entries, NotIn
<1> HIDE DEF t, s, v
<1>3. In(t)!StmtErr(s) = "OK"
  BY <1>1, <1>2, <1>0 DEF In!StmtErr
<1>4. In(t)!After(s) = [t EXCEPT !.rows = v]
  BY <1>1, <1>2, <1>0 DEF In!After
<1>5. In(t)!After(s) = TableSet(m, v, fd)
  BY <1>4 DEF t, TableSet
<1>6. s.op \notin {"next", "out"}
  BY <1>2
<1>7. DoneAt(s, Going(m, rs, fd, o)) = Going(m, NotIn(rs, d), fd, o)
  BY <1>3, <1>5, <1>6, Executed, NotExecuted DEF t, v
<1> QED
  BY <1>7 DEF s

LEMMA GoMove ==
    ASSUME NEW m, NEW rs, NEW fd, NEW o, NEW d, NEW n, NEW e, NEW x
    PROVE  DoneAt(Move(d, n, e, x), Going(m, rs, fd, o)) =
             IF HasRow(rs, d, n) /\ ~HasRow(rs, e, x)
             THEN Going(m, Moved(rs, d, n, e, x), fd, o)
             ELSE Stopped(m, rs, fd, o, "EIO")
<1> DEFINE t == TableSet(m, rs, fd)
           s == Move(d, n, e, x)
           v == Moved(rs, d, n, e, x)
<1>1. t.meta = m /\ t.rows = rs /\ t.data = fd /\ In(t)!Tables = t
  BY SetFields
<1>2. s.op = "move" /\ s.dir = d /\ s.name = n /\ s.to = e /\ s.as = x
  BY DEF Move
<1>0. \A y, z : /\ In(t)!RowAt(y, z) = At(rs, y, z)
                /\ At(rs, y, z) = {} <=> ~HasRow(rs, y, z)
  BY <1>1 DEF In!RowAt, At, HasRow
<1>8. {IF q \in In(t)!RowAt(d, n) THEN [q EXCEPT !.dir = e, !.name = x] ELSE q : q \in rs} = v
  BY <1>1 DEF Moved, At, In!RowAt
<1> HIDE DEF t, s, v
<1>3. In(t)!StmtErr(s) = IF HasRow(rs, d, n) /\ ~HasRow(rs, e, x) THEN "OK" ELSE "EIO"
  BY <1>1, <1>2, <1>0 DEF In!StmtErr
<1>4. In(t)!After(s) = [t EXCEPT !.rows = v]
  BY <1>1, <1>2, <1>8 DEF In!After
<1>5. In(t)!After(s) = TableSet(m, v, fd)
  BY <1>4 DEF t, TableSet
<1>6. s.op \notin {"next", "out"}
  BY <1>2
<1>7. DoneAt(s, Going(m, rs, fd, o)) =
             IF HasRow(rs, d, n) /\ ~HasRow(rs, e, x)
             THEN Going(m, Moved(rs, d, n, e, x), fd, o)
             ELSE Stopped(m, rs, fd, o, "EIO")
  BY <1>3, <1>5, <1>6, Executed, NotExecuted DEF t, v
<1> QED
  BY <1>7 DEF s

LEMMA GoReparent ==
    ASSUME NEW m, NEW rs, NEW fd, NEW o, NEW i, NEW e
    PROVE  DoneAt(Reparent(i, e), Going(m, rs, fd, o)) =
             IF HasRow(rs, i, "") THEN Going(m, Adopted(rs, i, e), fd, o)
             ELSE Stopped(m, rs, fd, o, "EIO")
<1> DEFINE t == TableSet(m, rs, fd)
           s == Reparent(i, e)
           v == Adopted(rs, i, e)
<1>1. t.meta = m /\ t.rows = rs /\ t.data = fd /\ In(t)!Tables = t
  BY SetFields
<1>2. s.op = "reparent" /\ s.ino = i /\ s.to = e
  BY DEF Reparent
<1>0. \A x, y : /\ In(t)!RowAt(x, y) = At(rs, x, y)
                /\ At(rs, x, y) = {} <=> ~HasRow(rs, x, y)
  BY <1>1 DEF In!RowAt, At, HasRow
<1>8. {IF q \in In(t)!RowAt(i, "") THEN [q EXCEPT !.ino = e] ELSE q : q \in rs} = v
  BY <1>1 DEF Adopted, At, In!RowAt
<1> HIDE DEF t, s, v
<1>3. In(t)!StmtErr(s) = IF HasRow(rs, i, "") THEN "OK" ELSE "EIO"
  BY <1>1, <1>2, <1>0 DEF In!StmtErr
<1>4. In(t)!After(s) = [t EXCEPT !.rows = v]
  BY <1>1, <1>2, <1>8 DEF In!After
<1>5. In(t)!After(s) = TableSet(m, v, fd)
  BY <1>4 DEF t, TableSet
<1>6. s.op \notin {"next", "out"}
  BY <1>2
<1>7. DoneAt(s, Going(m, rs, fd, o)) =
             IF HasRow(rs, i, "") THEN Going(m, Adopted(rs, i, e), fd, o)
             ELSE Stopped(m, rs, fd, o, "EIO")
  <2>1. CASE HasRow(rs, i, "")
    <3>1. In(t)!StmtErr(s) = "OK"
      BY <1>3, <2>1
    <3>2. DoneAt(s, Going(m, rs, fd, o)) = Going(m, v, fd, o)
      BY <1>5, <1>6, <3>1, Executed DEF t
    <3> QED
      BY <2>1, <3>2 DEF v
  <2>2. CASE ~HasRow(rs, i, "")
    <3>1. In(t)!StmtErr(s) = "EIO"
      BY <1>3, <2>2
    <3>2. DoneAt(s, Going(m, rs, fd, o)) = Stopped(m, rs, fd, o, "EIO")
      BY <1>6, <3>1, NotExecuted DEF t
    <3> QED
      BY <2>2, <3>2
  <2> QED
    BY <2>1, <2>2
<1> QED
  BY <1>7 DEF s

LEMMA GoData ==
    ASSUME NEW m, NEW rs, NEW fd, NEW o, NEW i, NEW x
    PROVE  DoneAt(Data(i, x), Going(m, rs, fd, o)) = Going(m, rs, Filled(fd, i, x), o)
<1> DEFINE t == TableSet(m, rs, fd)
           s == Data(i, x)
           v == Filled(fd, i, x)
<1>1. t.meta = m /\ t.rows = rs /\ t.data = fd /\ In(t)!Tables = t
  BY SetFields
<1>2. s.op = "data" /\ s.ino = i /\ s.nonEmpty = x
  BY DEF Data
<1> HIDE DEF t, s
<1>3. In(t)!StmtErr(s) = "OK"
  BY <1>1, <1>2 DEF In!StmtErr
<1>4. In(t)!After(s) = [t EXCEPT !.data = v]
  BY <1>1, <1>2 DEF In!After, Filled
<1> HIDE DEF v
<1>5. In(t)!After(s) = TableSet(m, rs, v)
  BY <1>4 DEF t, TableSet
<1>6. s.op \notin {"next", "out"}
  BY <1>2
<1>7. DoneAt(s, Going(m, rs, fd, o)) = Going(m, rs, v, o)
  BY <1>3, <1>5, <1>6, Executed DEF t
<1> QED
  BY <1>7 DEF s, v

LEMMA GoRefusal ==
    ASSUME NEW m, NEW rs, NEW fd, NEW o, NEW e
    PROVE  DoneAt(Refusal(e), Going(m, rs, fd, o)) =
             IF e = "OK" THEN Going(m, rs, fd, o) ELSE Stopped(m, rs, fd, o, e)
<1> DEFINE t == TableSet(m, rs, fd)
           s == Refusal(e)
<1>1. t.meta = m /\ t.rows = rs /\ t.data = fd /\ In(t)!Tables = t
  BY SetFields
<1>2. s.op = "refuse" /\ s.err = e
  BY DEF Refusal
<1> HIDE DEF t, s
<1>3. In(t)!StmtErr(s) = e
  BY <1>1, <1>2 DEF In!StmtErr
<1>4. In(t)!After(s) = t
  BY <1>1, <1>2 DEF In!After
<1>5. In(t)!After(s) = TableSet(m, rs, fd)
  BY <1>4 DEF t, TableSet
<1>6. s.op \notin {"next", "out"}
  BY <1>2
<1>7. DoneAt(s, Going(m, rs, fd, o)) =
             IF e = "OK" THEN Going(m, rs, fd, o) ELSE Stopped(m, rs, fd, o, e)
  BY <1>3, <1>5, <1>6, Executed, NotExecuted DEF t
<1> QED
  BY <1>7 DEF s

LEMMA GoSavepoint ==
    ASSUME NEW m, NEW rs, NEW fd, NEW o
    PROVE  DoneAt(Savepoint, Going(m, rs, fd, o)) = Going(m, rs, fd, o)
<1> DEFINE t == TableSet(m, rs, fd)
           s == Savepoint
<1>1. t.meta = m /\ t.rows = rs /\ t.data = fd /\ In(t)!Tables = t
  BY SetFields
<1>2. s.op = "savepoint"
  BY DEF Savepoint
<1> HIDE DEF t, s
<1>3. In(t)!StmtErr(s) = "OK"
  BY <1>1, <1>2 DEF In!StmtErr
<1>4. In(t)!After(s) = t
  BY <1>1, <1>2 DEF In!After
<1>5. In(t)!After(s) = TableSet(m, rs, fd)
  BY <1>4 DEF t, TableSet
<1>6. s.op \notin {"next", "out"}
  BY <1>2
<1>7. DoneAt(s, Going(m, rs, fd, o)) = Going(m, rs, fd, o)
  BY <1>3, <1>5, <1>6, Executed, NotExecuted DEF t
<1> QED
  BY <1>7 DEF s

LEMMA GoRelease ==
    ASSUME NEW m, NEW rs, NEW fd, NEW o
    PROVE  DoneAt(Release, Going(m, rs, fd, o)) = Going(m, rs, fd, o)
<1> DEFINE t == TableSet(m, rs, fd)
           s == Release
<1>1. t.meta = m /\ t.rows = rs /\ t.data = fd /\ In(t)!Tables = t
  BY SetFields
<1>2. s.op = "release"
  BY DEF Release
<1> HIDE DEF t, s
<1>3. In(t)!StmtErr(s) = "OK"
  BY <1>1, <1>2 DEF In!StmtErr
<1>4. In(t)!After(s) = t
  BY <1>1, <1>2 DEF In!After
<1>5. In(t)!After(s) = TableSet(m, rs, fd)
  BY <1>4 DEF t, TableSet
<1>6. s.op \notin {"next", "out"}
  BY <1>2
<1>7. DoneAt(s, Going(m, rs, fd, o)) = Going(m, rs, fd, o)
  BY <1>3, <1>5, <1>6, Executed, NotExecuted DEF t
<1> QED
  BY <1>7 DEF s

LEMMA GoOut ==
    ASSUME NEW m, NEW rs, NEW fd, NEW o, NEW i
    PROVE  DoneAt(Out(i), Going(m, rs, fd, o)) = Going(m, rs, fd, i)
<1> DEFINE t == TableSet(m, rs, fd)
           s == Out(i)
<1>1. In(t)!Tables = t
  BY SetFields
<1>2. s.op = "out" /\ s.ino = i
  BY DEF Out
<1> HIDE DEF t, s
<1>3. In(t)!StmtErr(s) = "OK" /\ In(t)!After(s) = t
  BY <1>1, <1>2 DEF In!StmtErr, In!After
<1>4. DoneAt(s, Point(t, o, "OK")) = Point(t, i, "OK")
  BY <1>2, <1>3 DEF DoneAt, Point
<1> QED
  BY <1>4 DEF Going, t, s

LEMMA GoNext ==
    ASSUME NEW m, NEW rs, NEW fd, NEW o, NEW i
    PROVE  DoneAt(NextUnlinked(i), Going(m, rs, fd, o)) =
             Point(Purged(TableSet(m, rs, fd), i), o, "OK")
  BY DEF DoneAt, NextUnlinked, Going, Point

-----------------------------------------------------------------------------
(* What each call leads to *)

Begun == Going(meta, rows, filedata, NoIno)

\* A call that goes on with these statements ends as it may.
MayRun(stmts) == \E F : Leads(Tables, stmts, Begun, F) /\ Ends(Tables, F)

\* The operators at the tables of the connection.
LEMMA AtTables ==
    /\ Tables.meta = meta /\ Tables.rows = rows /\ Tables.data = filedata
    /\ \A d, n : In(Tables)!Found(d, n) = Found(d, n) /\ In(Tables)!Joined(d, n) = Joined(d, n)
    /\ \A d : In(Tables)!NotRemoved(d) <=> NotRemoved(d)
    /\ \A d, c, b : /\ In(Tables)!RemoveErr(d, c, b) = RemoveErr(d, c, b)
                    /\ In(Tables)!RemovedMeta(d, c, b) = RemovedMeta(d, c, b)
    /\ \A d, n, c, b : In(Tables)!RemovedRows(d, n, c, b) = RemovedRows(d, n, c, b)
    /\ \A d, n, e, m :
         /\ In(Tables)!MakesNoCycle(d, n, e) <=> MakesNoCycle(d, n, e)
         /\ In(Tables)!RenameParentsErr(d, n, e, m) = RenameParentsErr(d, n, e, m)
    /\ \A mt, r, e : In(Tables)!MovedMeta(mt, r, e) = MovedMeta(mt, r, e)
    /\ \A rs, r, e, m : /\ In(Tables)!MovedRows(rs, r, e, m) = MovedRows(rs, r, e, m)
                        /\ In(Tables)!MoveErr(rs, r, e, m) = MoveErr(rs, r, e, m)
    /\ \A i : /\ In(Tables)!IsNewIno(i) <=> IsNewIno(i)
              /\ In(Tables)!StatNlink(i) = StatNlink(i)
              /\ In(Tables)!SetSizeErr(i) = SetSizeErr(i)
    /\ \A d, n, i, t : In(Tables)!CreateErr(d, n, i, t) = CreateErr(d, n, i, t)
    /\ In(Tables)!Unlinked = Unlinked
<1>0. Tables.meta = meta /\ Tables.rows = rows /\ Tables.data = filedata
  BY DEF Tables
<1>1. \A d, n : /\ In(Tables)!RowAt(d, n) = RowAt(d, n)
                /\ In(Tables)!Found(d, n) = Found(d, n)
                /\ In(Tables)!Joined(d, n) = Joined(d, n)
  BY <1>0 DEF In!Found, Found, In!RowAt, RowAt, In!Joined, Joined
<1>2. \A d : In(Tables)!NotRemoved(d) <=> NotRemoved(d)
  BY <1>0 DEF In!NotRemoved, NotRemoved, In!IsDirectory, IsDirectory
<1>3. \A d, c, b : In(Tables)!RemoveErr(d, c, b) = RemoveErr(d, c, b)
  <2> SUFFICES ASSUME NEW d, NEW c, NEW b
               PROVE  In(Tables)!RemoveErr(d, c, b) = RemoveErr(d, c, b)
    OBVIOUS
  <2>1. In(Tables)!Entries(c.ino) = Entries(c.ino)
    BY <1>0 DEF In!Entries, Entries
  <2> QED
    BY <1>0, <2>1 DEF In!RemoveErr, RemoveErr, In!Root, Root, In!Cardinality, Cardinality
<1>4. \A d, c, b : In(Tables)!RemovedMeta(d, c, b) = RemovedMeta(d, c, b)
  BY <1>0 DEF In!RemovedMeta, RemovedMeta, In!AddLinks, AddLinks
<1>5. \A d, n, c, b : In(Tables)!RemovedRows(d, n, c, b) = RemovedRows(d, n, c, b)
  BY <1>0 DEF In!RemovedRows, RemovedRows
<1>6. \A d, n, e, m : In(Tables)!MakesNoCycle(d, n, e) <=> MakesNoCycle(d, n, e)
  <2> SUFFICES ASSUME NEW d, NEW n, NEW e
               PROVE  In(Tables)!MakesNoCycle(d, n, e) <=> MakesNoCycle(d, n, e)
    OBVIOUS
  <2>1. \A c : In(Tables)!NotBelow(c, e) <=> NotBelow(c, e)
    BY <1>0 DEF In!NotBelow, NotBelow, In!Ino, Ino
  <2> QED
    BY <1>1, <2>1 DEF In!MakesNoCycle, MakesNoCycle
<1>7. \A d, n, e, m :
         In(Tables)!RenameParentsErr(d, n, e, m) = RenameParentsErr(d, n, e, m)
  BY <1>0, <1>1 DEF In!RenameParentsErr, RenameParentsErr, In!ParentErr, ParentErr
<1>8. \A mt, r, e : In(Tables)!MovedMeta(mt, r, e) = MovedMeta(mt, r, e)
  BY <1>0 DEF In!MovedMeta, MovedMeta, In!AddLinks, AddLinks
<1>9. \A rs, r, e, m : In(Tables)!MovedRows(rs, r, e, m) = MovedRows(rs, r, e, m)
  BY <1>0 DEF In!MovedRows, MovedRows, In!Row, Row
<1>10. \A rs, r, e, m : In(Tables)!MoveErr(rs, r, e, m) = MoveErr(rs, r, e, m)
  BY <1>0, <1>1 DEF In!MoveErr, MoveErr
<1>11. \A i : /\ In(Tables)!IsNewIno(i) <=> IsNewIno(i)
              /\ In(Tables)!StatNlink(i) = StatNlink(i)
              /\ In(Tables)!SetSizeErr(i) = SetSizeErr(i)
  BY <1>0 DEF In!IsNewIno, IsNewIno, In!StatNlink, StatNlink, In!SetSizeErr, SetSizeErr
<1>12. \A d, n, i, t : In(Tables)!CreateErr(d, n, i, t) = CreateErr(d, n, i, t)
  BY <1>0 DEF In!CreateErr, CreateErr, In!StatDirErr, StatDirErr, In!RowAt, RowAt,
              In!StatNlink, StatNlink
<1>13. In(Tables)!Unlinked = Unlinked
  BY <1>0 DEF In!Unlinked, Unlinked
<1> QED
  BY <1>0, <1>1, <1>2, <1>3, <1>4, <1>5, <1>6, <1>7, <1>8, <1>9, <1>10, <1>11, <1>12, <1>13

\* As long as no number was given back, any statement may fail.
LEMMA MayFail == \A T : MayRefuse(T, "EIO", NoIno)
  BY DEF MayRefuse

LEMMA RunsOn ==
    ASSUME NEW T, NEW s, NEW m, NEW rs, NEW fd, NEW o, NEW a, NEW b, NEW c, NEW p,
           MayRefuse(T, "EIO", o), DoneAt(s, Going(m, rs, fd, o)) = Going(a, b, c, p)
    PROVE  Runs(T, s, Going(m, rs, fd, o), Going(a, b, c, p))
  BY PointFields DEF Runs

LEMMA RunsOut ==
    ASSUME NEW T, NEW s, NEW m, NEW rs, NEW fd, NEW o, NEW e,
           MayRefuse(T, "EIO", o), MayRefuse(T, e, o),
           DoneAt(s, Going(m, rs, fd, o)) = Stopped(m, rs, fd, o, e)
    PROVE  Runs(T, s, Going(m, rs, fd, o), Stopped(m, rs, fd, o, e))
  BY PointFields DEF Runs

LEMMA RunsStopped ==
    ASSUME NEW T, NEW s, NEW m, NEW rs, NEW fd, NEW o, NEW e, MayRefuse(T, e, o)
    PROVE  Runs(T, s, Stopped(m, rs, fd, o, e), Stopped(m, rs, fd, o, e))
<1>1. e # "OK"
  BY DEF MayRefuse
<1>2. DoneAt(s, Stopped(m, rs, fd, o, e)) = Stopped(m, rs, fd, o, e)
  BY <1>1, StoppedStays
<1> QED
  BY <1>1, <1>2, PointFields DEF Runs

LEMMA EndsDone ==
    ASSUME NEW m, NEW rs, NEW fd, NEW o, MayDo(Tables, TableSet(m, rs, fd), o)
    PROVE  Ends(Tables, Going(m, rs, fd, o))
  BY PointFields DEF Ends

LEMMA EndsRefused ==
    ASSUME NEW m, NEW rs, NEW fd, NEW o, NEW e, MayRefuse(Tables, e, o)
    PROVE  Ends(Tables, Stopped(m, rs, fd, o, e))
<1>1. e # "OK"
  BY DEF MayRefuse
<1> QED
  BY <1>1, PointFields DEF Ends

LEMMA MkdirRuns ==
    ASSUME NEW d \in Ino, NEW n \in Names, NEW i \in Ino,
           NotRemoved(d), IsNewIno(i), StatDirErr(d) = "OK"
    PROVE  MayRun(MkdirStmts(d, n, i))
<1> DEFINE r == Row(d, n, i, "dir")
           q == Row(i, "", d, "dir")
           m1 == AddLinks(meta, d, 1)
           m2 == InsertMeta(m1, i, "dir")
           rr == rows \cup {r}
           rq == rr \cup {q}
           P1 == Going(m1, rows, filedata, NoIno)
           P2 == Going(m2, rows, filedata, NoIno)
           P3 == Going(m2, rr, filedata, NoIno)
           P4 == Going(m2, rq, filedata, NoIno)
           F == Going(m2, rq, filedata, i)
           F1 == Stopped(m2, rows, filedata, NoIno, "EEXIST")
           F2 == Stopped(m2, rr, filedata, NoIno, "EEXIST")
           s3 == NewRow(r)
           s4 == NewRow(q)
           stmts == <<Links(d, 1), NewMeta(i, "dir"), s3, s4, Out(i)>>
<1>0. MkdirStmts(d, n, i) = stmts
  BY DEF MkdirStmts
<1>1. d \in DOMAIN meta
  BY DEF StatDirErr
<1>2. r.dir = d /\ r.name = n /\ q.dir = i /\ q.name = "" /\ n # ""
  BY NamesAssumption DEF Row
<1>3. HasRow(rr, i, "") <=> HasRow(rows, i, "")
  BY <1>2 DEF HasRow
<1>4. CreateErr(d, n, i, "dir") =
        IF HasRow(rows, d, n) \/ HasRow(rows, i, "") THEN "EEXIST" ELSE "OK"
  BY DEF CreateErr, HasRow, RowAt
<1>5. rq = rows \cup NewDirRows(d, n, i)
  BY DEF NewDirRows
<1> HIDE DEF r, q, m1, rr, rq
<1>6. Runs(Tables, Links(d, 1), Begun, P1)
  <2>1. DoneAt(Links(d, 1), Begun) = P1
    BY <1>1, GoLinks DEF Begun, m1
  <2> QED
    BY <2>1, MayFail, RunsOn DEF Begun
<1>7. Runs(Tables, NewMeta(i, "dir"), P1, P2)
  BY GoNewMeta, MayFail, RunsOn
<1> HIDE DEF m2
<1>8. DoneAt(s3, P2) = IF HasRow(rows, d, n) THEN F1 ELSE P3
  <2>1. DoneAt(s3, P2) = IF HasRow(rows, r.dir, r.name) THEN F1
                         ELSE Going(m2, rows \cup {r}, filedata, NoIno)
    BY GoNewRow
  <2> QED
    BY <1>2, <2>1 DEF rr
<1>9. DoneAt(s4, P3) = IF HasRow(rows, i, "") THEN F2 ELSE P4
  <2>1. DoneAt(s4, P3) = IF HasRow(rr, q.dir, q.name) THEN F2
                         ELSE Going(m2, rr \cup {q}, filedata, NoIno)
    BY GoNewRow
  <2> QED
    BY <1>2, <1>3, <2>1 DEF rq
<1>10. DoneAt(Out(i), P4) = F
  BY GoOut
<1> HIDE DEF s3, s4
<1>11. CASE HasRow(rows, d, n) \/ HasRow(rows, i, "")
  <2>1. CreateRefuses(Tables, "EEXIST")
    BY <1>4, <1>11, AtTables DEF CreateRefuses, AnyName, RowNames, Types
  <2>2. MayRefuse(Tables, "EEXIST", NoIno)
    BY <2>1 DEF MayRefuse
  <2>3. CASE HasRow(rows, d, n)
    <3>1. Runs(Tables, s3, P2, F1)
      BY <1>8, <2>2, <2>3, MayFail, RunsOut
    <3>2. Runs(Tables, s4, F1, F1) /\ Runs(Tables, Out(i), F1, F1)
      BY <2>2, RunsStopped
    <3>3. Ends(Tables, F1)
      BY <2>2, EndsRefused
    <3> HIDE DEF P1, P2, F1
    <3>4. Leads(Tables, stmts, Begun, F1)
      BY <1>6, <1>7, <3>1, <3>2, LeadsShort
    <3> QED
      BY <1>0, <3>3, <3>4 DEF MayRun
  <2>4. CASE ~HasRow(rows, d, n) /\ HasRow(rows, i, "")
    <3>1. Runs(Tables, s3, P2, P3)
      BY <1>8, <2>4, MayFail, RunsOn
    <3>2. Runs(Tables, s4, P3, F2)
      BY <1>9, <2>2, <2>4, MayFail, RunsOut
    <3>3. Runs(Tables, Out(i), F2, F2)
      BY <2>2, RunsStopped
    <3>4. Ends(Tables, F2)
      BY <2>2, EndsRefused
    <3> HIDE DEF P1, P2, P3, F2
    <3>5. Leads(Tables, stmts, Begun, F2)
      BY <1>6, <1>7, <3>1, <3>2, <3>3, LeadsShort
    <3> QED
      BY <1>0, <3>4, <3>5 DEF MayRun
  <2> QED
    BY <1>11, <2>3, <2>4
<1>12. CASE ~HasRow(rows, d, n) /\ ~HasRow(rows, i, "")
  <2>1. CreateDoes(Tables, TableSet(m2, rq, filedata), i)
    BY <1>4, <1>5, <1>12, AtTables DEF CreateDoes, AnyName, RowNames, m1, m2
  <2>2. Ends(Tables, F)
    BY <2>1, EndsDone DEF MayDo
  <2>3. Runs(Tables, s3, P2, P3)
    BY <1>8, <1>12, MayFail, RunsOn
  <2>4. Runs(Tables, s4, P3, P4)
    BY <1>9, <1>12, MayFail, RunsOn
  <2>5. Runs(Tables, Out(i), P4, F)
    BY <1>10, MayFail, RunsOn
  <2> HIDE DEF P1, P2, P3, P4, F
  <2>6. Leads(Tables, stmts, Begun, F)
    BY <1>6, <1>7, <2>3, <2>4, <2>5, LeadsShort
  <2> QED
    BY <1>0, <2>2, <2>6 DEF MayRun
<1> QED
  BY <1>11, <1>12

LEMMA MknodRuns ==
    ASSUME NEW d \in Ino, NEW n \in Names, NEW i \in Ino,
           NotRemoved(d), IsNewIno(i), StatDirErr(d) = "OK"
    PROVE  MayRun(MknodStmts(d, n, i))
<1> DEFINE r == Row(d, n, i, "file")
           m2 == InsertMeta(meta, i, "file")
           rr == rows \cup {r}
           P1 == Going(m2, rows, filedata, NoIno)
           P2 == Going(m2, rr, filedata, NoIno)
           F == Going(m2, rr, filedata, i)
           F1 == Stopped(m2, rows, filedata, NoIno, "EEXIST")
           s2 == NewRow(r)
           stmts == <<NewMeta(i, "file"), s2, Out(i)>>
<1>0. MknodStmts(d, n, i) = stmts
  BY DEF MknodStmts
<1>1. r.dir = d /\ r.name = n
  BY DEF Row
<1>2. CreateErr(d, n, i, "file") = IF HasRow(rows, d, n) THEN "EEXIST" ELSE "OK"
  BY DEF CreateErr, HasRow, RowAt
<1>3. Runs(Tables, NewMeta(i, "file"), Begun, P1)
  BY GoNewMeta, MayFail, RunsOn DEF Begun
<1> HIDE DEF r, m2
<1>4. DoneAt(s2, P1) = IF HasRow(rows, d, n) THEN F1 ELSE P2
  BY <1>1, GoNewRow
<1> HIDE DEF rr, s2
<1>5. DoneAt(Out(i), P2) = F
  BY GoOut
<1>6. CASE HasRow(rows, d, n)
  <2>1. CreateRefuses(Tables, "EEXIST")
    BY <1>2, <1>6, AtTables DEF CreateRefuses, AnyName, RowNames, Types
  <2>2. MayRefuse(Tables, "EEXIST", NoIno)
    BY <2>1 DEF MayRefuse
  <2>3. Runs(Tables, s2, P1, F1)
    BY <1>4, <1>6, <2>2, MayFail, RunsOut
  <2>4. Runs(Tables, Out(i), F1, F1)
    BY <2>2, RunsStopped
  <2>5. Ends(Tables, F1)
    BY <2>2, EndsRefused
  <2> HIDE DEF P1, F1
  <2>6. Leads(Tables, stmts, Begun, F1)
    BY <1>3, <2>3, <2>4, LeadsShort
  <2> QED
    BY <1>0, <2>5, <2>6 DEF MayRun
<1>7. CASE ~HasRow(rows, d, n)
  <2>1. CreateDoes(Tables, TableSet(m2, rr, filedata), i)
    BY <1>2, <1>7, AtTables DEF CreateDoes, AnyName, RowNames, m2, rr, r
  <2>2. Ends(Tables, F)
    BY <2>1, EndsDone DEF MayDo
  <2>3. Runs(Tables, s2, P1, P2)
    BY <1>4, <1>7, MayFail, RunsOn
  <2>4. Runs(Tables, Out(i), P2, F)
    BY <1>5, MayFail, RunsOn
  <2> HIDE DEF P1, P2, F
  <2>5. Leads(Tables, stmts, Begun, F)
    BY <1>3, <2>3, <2>4, LeadsShort
  <2> QED
    BY <1>0, <2>2, <2>5 DEF MayRun
<1> QED
  BY <1>6, <1>7

-----------------------------------------------------------------------------
(* remove_impl() *)

LEMMA UnlinkLeads ==
    ASSUME NEW d, NEW n, NEW i, NEW m, NEW rs
    PROVE  LET stmts == <<DelRow(d, n), Links(i, -1), Out(i)>>
               S == Going(m, rs, filedata, NoIno)
           IN  /\ i \in DOMAIN m =>
                    Leads(Tables, stmts, S,
                          Going(AddLinks(m, i, -1), rs \ At(rs, d, n), filedata, i))
               /\ i \notin DOMAIN m /\ MayRefuse(Tables, "ENOENT", NoIno) =>
                    Leads(Tables, stmts, S,
                          Stopped(m, rs \ At(rs, d, n), filedata, NoIno, "ENOENT"))
<1> DEFINE stmts == <<DelRow(d, n), Links(i, -1), Out(i)>>
           m1 == AddLinks(m, i, -1)
           rd == rs \ At(rs, d, n)
           S == Going(m, rs, filedata, NoIno)
           P1 == Going(m, rd, filedata, NoIno)
           P2 == Going(m1, rd, filedata, NoIno)
           F == Going(m1, rd, filedata, i)
           F1 == Stopped(m, rd, filedata, NoIno, "ENOENT")
           s2 == Links(i, -1)
<1>1. DoneAt(DelRow(d, n), S) = P1
  BY GoDelRow
<1> HIDE DEF rd
<1>2. Runs(Tables, DelRow(d, n), S, P1)
  BY <1>1, MayFail, RunsOn
<1>3. DoneAt(s2, P1) = IF i \in DOMAIN m THEN P2 ELSE F1
  BY GoLinks
<1> HIDE DEF m1, s2
<1>4. DoneAt(Out(i), P2) = F
  BY GoOut
<1>5. ASSUME i \in DOMAIN m
      PROVE  Leads(Tables, stmts, S, F)
  <2>1. Runs(Tables, s2, P1, P2)
    BY <1>3, <1>5, MayFail, RunsOn
  <2>2. Runs(Tables, Out(i), P2, F)
    BY <1>4, MayFail, RunsOn
  <2> HIDE DEF S, P1, P2, F
  <2> QED
    BY <1>2, <2>1, <2>2, LeadsShort DEF s2
<1>6. ASSUME i \notin DOMAIN m, MayRefuse(Tables, "ENOENT", NoIno)
      PROVE  Leads(Tables, stmts, S, F1)
  <2>1. Runs(Tables, s2, P1, F1)
    BY <1>3, <1>6, MayFail, RunsOut
  <2>2. Runs(Tables, Out(i), F1, F1)
    BY <1>6, RunsStopped
  <2> HIDE DEF S, P1, F1
  <2> QED
    BY <1>2, <2>1, <2>2, LeadsShort DEF s2
<1> QED
  BY <1>5, <1>6 DEF rd, m1

\* The point a removal leads to: the tables without the child, or ENOENT for a link
\* count that has no row.
Removed(d, n, c, isDir) ==
    Going(RemovedMeta(d, c, isDir), RemovedRows(d, n, c, isDir), filedata, c.ino)

RemoveLeadsTo(d, n, c, isDir, F) ==
    /\ Leads(Tables, RemoveStmts(d, n, c, isDir), Begun, F)
    /\ \/ RemoveErr(d, c, isDir) = "OK" /\ F = Removed(d, n, c, isDir)
       \/ /\ RemoveErr(d, c, isDir) = "ENOENT"
          /\ F.err = "ENOENT" /\ F.out = NoIno

LEMMA RemoveLeads ==
    ASSUME NEW d \in Ino, NEW n \in AnyName, NEW c, c.ino \in Ino, NEW isDir \in BOOLEAN,
           ChildErr(d, c, isDir) = "OK",
           RemoveErr(d, c, isDir) # "OK" => MayRefuse(Tables, RemoveErr(d, c, isDir), NoIno)
    PROVE  \E F : RemoveLeadsTo(d, n, c, isDir, F)
<1> DEFINE i == c.ino
           last == <<DelRow(d, n), Links(i, -1), Out(i)>>
<1>1. RemoveErr(d, c, isDir) =
        IF i \in DOMAIN meta /\ (isDir => d \in DOMAIN meta) THEN "OK" ELSE "ENOENT"
  BY DEF ChildErr, RemoveErr
<1>2. last \in Seq(Plain)
  <2>1. DelRow(d, n) \in Plain /\ Links(i, -1) \in Plain /\ Out(i) \in Plain
    BY PlainStatements
  <2> QED
    BY <2>1, ShortSeqs
<1>3. MayRefuse(Tables, "ENOENT", NoIno) \/ RemoveErr(d, c, isDir) = "OK"
  BY <1>1
<1>4. CASE ~isDir
  <2> DEFINE rd == rows \ At(rows, d, n)
             m1 == AddLinks(meta, i, -1)
             F1 == Stopped(meta, rd, filedata, NoIno, "ENOENT")
  <2>1. RemoveStmts(d, n, c, isDir) = last
    <3>1. RemoveStmts(d, n, c, isDir) = <<>> \o last
      BY <1>4 DEF RemoveStmts
    <3> HIDE DEF last
    <3> QED
      BY <1>2, <3>1
  <2>2. RemovedRows(d, n, c, isDir) = rd /\ RemovedMeta(d, c, isDir) = m1
    BY <1>4 DEF RemovedRows, RemovedMeta, At
  <2>3. CASE i \in DOMAIN meta
    <3>1. Leads(Tables, last, Begun, Going(m1, rd, filedata, i))
      BY <2>3, UnlinkLeads DEF Begun
    <3> HIDE DEF last, m1, rd
    <3>2. RemoveLeadsTo(d, n, c, isDir, Removed(d, n, c, isDir))
      BY <1>1, <1>4, <2>1, <2>2, <2>3, <3>1 DEF RemoveLeadsTo, Removed
    <3> QED
      BY <3>2
  <2>4. CASE i \notin DOMAIN meta
    <3>1. Leads(Tables, last, Begun, F1)
      BY <1>1, <1>3, <2>4, UnlinkLeads DEF Begun
    <3>2. F1.err = "ENOENT" /\ F1.out = NoIno
      BY PointFields
    <3> HIDE DEF last, F1
    <3>3. RemoveLeadsTo(d, n, c, isDir, F1)
      BY <1>1, <1>4, <2>1, <2>4, <3>1, <3>2 DEF RemoveLeadsTo
    <3> QED
      BY <3>3
  <2> QED
    BY <2>3, <2>4
<1>5. CASE isDir
  <2> DEFINE rn == NotIn(rows, i)
             rd == rn \ At(rn, d, n)
             m1 == AddLinks(meta, d, -1)
             m2 == AddLinks(m1, i, -1)
             P1 == Going(meta, rn, filedata, NoIno)
             P2 == Going(m1, rn, filedata, NoIno)
             F1 == Stopped(m1, rd, filedata, NoIno, "ENOENT")
             F2 == Stopped(meta, rn, filedata, NoIno, "ENOENT")
             s2 == Links(d, -1)
             first == <<DelRows(i), s2>>
  <2>1. RemoveStmts(d, n, c, isDir) = first \o last
    BY <1>5 DEF RemoveStmts
  <2>2. RemovedRows(d, n, c, isDir) = rd /\ RemovedMeta(d, c, isDir) = m2
    BY <1>5 DEF RemovedRows, RemovedMeta, At, NotIn
  <2>3. first \in Seq(Plain)
    <3>1. DelRows(i) \in Plain /\ Links(d, -1) \in Plain
      BY PlainStatements
    <3> QED
      BY <3>1, ShortSeqs
  <2>4. Runs(Tables, DelRows(i), Begun, P1)
    BY GoDelRows, MayFail, RunsOn DEF Begun
  <2>5. DOMAIN m1 = DOMAIN meta
    BY DEF AddLinks
  <2>6. DoneAt(s2, P1) = IF d \in DOMAIN meta THEN P2 ELSE F2
    BY GoLinks
  <2> HIDE DEF last, s2
  <2>7. CASE d \in DOMAIN meta
    <3>1. Runs(Tables, s2, P1, P2)
      BY <2>6, <2>7, MayFail, RunsOn
    <3>2. Leads(Tables, first, Begun, P2)
      <4> HIDE DEF P1, P2
      <4> QED
        BY <2>4, <3>1, LeadsShort
    <3>3. CASE i \in DOMAIN meta
      <4>1. Leads(Tables, last, P2, Going(m2, rd, filedata, i))
        BY <2>5, <3>3, UnlinkLeads DEF last
      <4> HIDE DEF first, m2, rd, P2
      <4>2. Leads(Tables, first \o last, Begun, Going(m2, rd, filedata, i))
        BY <1>2, <2>3, <3>2, <4>1, LeadsThen
      <4>3. RemoveLeadsTo(d, n, c, isDir, Removed(d, n, c, isDir))
        BY <1>1, <1>5, <2>1, <2>2, <2>7, <3>3, <4>2 DEF RemoveLeadsTo, Removed
      <4> QED
        BY <4>3
    <3>4. CASE i \notin DOMAIN meta
      <4>1. Leads(Tables, last, P2, F1)
        BY <1>1, <1>3, <2>5, <3>4, UnlinkLeads DEF last
      <4>2. F1.err = "ENOENT" /\ F1.out = NoIno
        BY PointFields
      <4> HIDE DEF first, F1, P2
      <4>3. Leads(Tables, first \o last, Begun, F1)
        BY <1>2, <2>3, <3>2, <4>1, LeadsThen
      <4>4. RemoveLeadsTo(d, n, c, isDir, F1)
        BY <1>1, <2>1, <3>4, <4>2, <4>3 DEF RemoveLeadsTo
      <4> QED
        BY <4>4
    <3> QED
      BY <3>3, <3>4
  <2>8. CASE d \notin DOMAIN meta
    <3>0. MayRefuse(Tables, "ENOENT", NoIno)
      BY <1>1, <1>3, <1>5, <2>8
    <3>1. Runs(Tables, s2, P1, F2)
      BY <2>6, <2>8, <3>0, MayFail, RunsOut
    <3>2. F2.err = "ENOENT" /\ F2.out = NoIno
      BY PointFields
    <3>3. Leads(Tables, first, Begun, F2)
      <4> HIDE DEF P1, F2
      <4> QED
        BY <2>4, <3>1, LeadsShort
    <3> HIDE DEF first, F2
    <3>4. Leads(Tables, last, F2, F2)
      BY <1>2, <3>0, <3>2, LeadsFailed
    <3>5. Leads(Tables, first \o last, Begun, F2)
      BY <1>2, <2>3, <3>3, <3>4, LeadsThen
    <3>6. RemoveLeadsTo(d, n, c, isDir, F2)
      BY <1>1, <1>5, <2>1, <2>8, <3>2, <3>5 DEF RemoveLeadsTo
    <3> QED
      BY <3>6
  <2> QED
    BY <2>7, <2>8
<1> QED
  BY <1>4, <1>5

LEMMA RemoveRuns ==
    ASSUME Tables \in Saved, NEW d \in Ino, NEW n \in AnyName \ {""}, NEW isDir \in BOOLEAN,
           NEW c \in Found(d, n), ChildErr(d, c, isDir) = "OK"
    PROVE  MayRun(RemoveStmts(d, n, c, isDir))
<1>1. c.ino \in Ino
  BY FoundTyped
<1>2. RemoveErr(d, c, isDir) # "OK" => MayRefuse(Tables, RemoveErr(d, c, isDir), NoIno)
  <2>1. RemoveRefuses(Tables, RemoveErr(d, c, isDir))
    BY AtTables DEF RemoveRefuses
  <2> QED
    BY <2>1 DEF MayRefuse
<1>3. PICK F : RemoveLeadsTo(d, n, c, isDir, F)
  BY <1>1, <1>2, RemoveLeads
<1>4. CASE RemoveErr(d, c, isDir) = "OK" /\ F = Removed(d, n, c, isDir)
  <2> DEFINE m1 == RemovedMeta(d, c, isDir)
             rd == RemovedRows(d, n, c, isDir)
  <2>1. RemoveDoes(Tables, TableSet(m1, rd, filedata), c.ino)
    BY <1>4, AtTables DEF RemoveDoes
  <2> HIDE DEF m1, rd
  <2>2. Ends(Tables, Going(m1, rd, filedata, c.ino))
    BY <2>1, EndsDone DEF MayDo
  <2> QED
    BY <1>3, <1>4, <2>2 DEF RemoveLeadsTo, Removed, MayRun, m1, rd
<1>5. CASE RemoveErr(d, c, isDir) = "ENOENT" /\ F.err = "ENOENT" /\ F.out = NoIno
  BY <1>2, <1>3, <1>5 DEF RemoveLeadsTo, MayRun, Ends
<1> QED
  BY <1>3, <1>4, <1>5 DEF RemoveLeadsTo

-----------------------------------------------------------------------------
(* sql_rename() and sql_reparent_directory() *)

\* (dir_ino, entry_name) is the key of direntries.
Keyed(rs) == \A q, r \in rs : q.dir = r.dir /\ q.name = r.name => q = r

\* The point a move leads to: the entry in its place, or EIO.
MovesTo(r, e, m, mt, rs, o, F) ==
    \/ /\ MoveErr(rs, r, e, m) = "OK"
       /\ F = Going(MovedMeta(mt, r, e), MovedRows(rs, r, e, m), filedata, o)
    \/ F.err = "EIO" /\ F.out = o

LEMMA MoveLeads ==
    ASSUME Tables \in Saved, Keyed(rows),
           NEW d \in Ino, NEW n \in Names, NEW e \in Ino, NEW m \in Names,
           NEW r \in RowAt(d, n), NEW rs \in SUBSET rows, NEW mt,
           d \in DOMAIN mt, e \in DOMAIN mt,
           NEW o, MayRefuse(Tables, "EIO", o)
    PROVE  \E F : /\ Leads(Tables, MoveStmts(d, n, e, m, r), Going(mt, rs, filedata, o), F)
                  /\ MovesTo(r, e, m, mt, rs, o, F)
<1> DEFINE S == Going(mt, rs, filedata, o)
           s1 == Move(d, n, e, m)
           rm == Moved(rs, d, n, e, m)
           P1 == Going(mt, rm, filedata, o)
           F1 == Stopped(mt, rs, filedata, o, "EIO")
           isDir == meta[r.ino].type = "dir"
           i == r.ino
           s2 == Reparent(i, e)
           s3 == Links(d, -1)
           s4 == Links(e, 1)
           rest == IF isDir /\ d # e THEN <<s2, s3, s4>> ELSE <<>>
<1>1. /\ rows \subseteq DirRow /\ r \in rows /\ r.dir = d /\ r.name = n /\ r \in DirRow
      /\ i \in Ino /\ n # "" /\ m # ""
  BY TablesSaved, NamesAssumption DEF RowAt, DirRow
<1>2. MoveStmts(d, n, e, m, r) = <<s1>> \o rest
  BY DEF MoveStmts
<1>3. <<s1>> \in Seq(Plain) /\ rest \in Seq(Plain)
  <2>0. i \in Ino
    BY <1>1
  <2> HIDE DEF i
  <2>1. s1 \in Plain /\ s2 \in Plain /\ s3 \in Plain /\ s4 \in Plain
    BY <2>0, PlainStatements
  <2> HIDE DEF s1, s2, s3, s4, isDir
  <2>2. <<s2, s3, s4>> \in Seq(Plain) /\ <<>> \in Seq(Plain) /\ <<s1>> \in Seq(Plain)
    BY <2>1, ShortSeqs
  <2> QED
    BY <2>2
<1>4. DoneAt(s1, S) = IF HasRow(rs, d, n) /\ ~HasRow(rs, e, m) THEN P1 ELSE F1
  BY GoMove
<1> HIDE DEF rm, s1
<1>5. CASE ~(HasRow(rs, d, n) /\ ~HasRow(rs, e, m))
  <2>1. Runs(Tables, s1, S, F1)
    BY <1>4, <1>5, RunsOut
  <2>2. F1.err = "EIO" /\ F1.out = o
    BY PointFields
  <2> HIDE DEF S, F1, rest
  <2>3. Leads(Tables, <<s1>>, S, F1)
    BY <2>1, LeadsShort
  <2>4. Leads(Tables, rest, F1, F1)
    BY <1>3, <2>2, LeadsFailed
  <2>5. Leads(Tables, <<s1>> \o rest, S, F1)
    BY <1>3, <2>3, <2>4, LeadsThen
  <2> QED
    BY <1>2, <2>2, <2>5 DEF MovesTo, S
<1>6. CASE HasRow(rs, d, n) /\ ~HasRow(rs, e, m)
  <2>1. r \in rs /\ ~(\E q \in rs \ {r} : q.dir = e /\ q.name = m)
    BY <1>1, <1>6 DEF HasRow, Keyed
  <2>2. rm = (rs \ {r}) \cup {Row(e, m, i, r.type)}
    <3>1. \A q \in rs : q \in At(rs, d, n) <=> q = r
      BY <1>1, <2>1 DEF At, Keyed
    <3>2. [r EXCEPT !.dir = e, !.name = m] = Row(e, m, i, r.type)
      <4> DEFINE u == [r EXCEPT !.dir = e, !.name = m]
      <4>1. u \in DirRow
        BY <1>1 DEF DirRow, RowNames
      <4>2. u.dir = e /\ u.name = m /\ u.ino = i /\ u.type = r.type
        BY <1>1 DEF DirRow
      <4> HIDE DEF u
      <4>3. u = [dir |-> u.dir, name |-> u.name, ino |-> u.ino, type |-> u.type]
        BY <4>1 DEF DirRow
      <4>4. u = Row(e, m, i, r.type)
        BY <4>2, <4>3 DEF Row
      <4> QED
        BY <4>4 DEF u
    <3>3. rm = {IF q = r THEN Row(e, m, i, r.type) ELSE q : q \in rs}
      BY <3>1, <3>2 DEF rm, Moved
    <3> QED
      BY <2>1, <3>3
  <2>3. Runs(Tables, s1, S, P1)
    BY <1>4, <1>6, RunsOn
  <2>4. Leads(Tables, <<s1>>, S, P1)
    <3> HIDE DEF S, P1
    <3> QED
      BY <2>3, LeadsShort
  <2>5. CASE ~(isDir /\ d # e)
    <3>1. MovedMeta(mt, r, e) = mt /\ MovedRows(rs, r, e, m) = rm
      BY <1>1, <2>2, <2>5 DEF MovedMeta, MovedRows
    <3>2. MoveErr(rs, r, e, m) = "OK"
      BY <1>1, <2>1, <2>5 DEF MoveErr
    <3>3. rest = <<>>
      BY <2>5
    <3> HIDE DEF rest
    <3>4. Leads(Tables, rest, P1, P1)
      BY <3>3, LeadsNowhere
    <3>5. Leads(Tables, <<s1>> \o rest, S, P1)
      <4> HIDE DEF S, P1
      <4> QED
        BY <1>3, <2>4, <3>4, LeadsThen
    <3>6. MovesTo(r, e, m, mt, rs, o, P1)
      BY <3>1, <3>2 DEF MovesTo
    <3> QED
      BY <1>2, <3>5, <3>6
  <2>6. CASE isDir /\ d # e
    <3> DEFINE ra == Adopted(rm, i, e)
               m1 == AddLinks(mt, d, -1)
               m2 == AddLinks(m1, e, 1)
               P2 == Going(mt, ra, filedata, o)
               P3 == Going(m1, ra, filedata, o)
               F == Going(m2, ra, filedata, o)
               F2 == Stopped(mt, rm, filedata, o, "EIO")
    <3>1. MovedMeta(mt, r, e) = m2
      BY <1>1, <2>6 DEF MovedMeta
    <3>2. MovedRows(rs, r, e, m) = ra
      <4>1. MovedRows(rs, r, e, m) =
              {IF q.dir = i /\ q.name = "" THEN [q EXCEPT !.ino = e] ELSE q : q \in rm}
        BY <1>1, <2>2, <2>6 DEF MovedRows
      <4> QED
        BY <4>1 DEF Adopted, At
    <3>3. rest = <<s2, s3, s4>>
      BY <2>6
    <3>4. DoneAt(s2, P1) = IF HasRow(rm, i, "") THEN P2 ELSE F2
      BY GoReparent
    <3>5. DOMAIN m1 = DOMAIN mt
      BY DEF AddLinks
    <3> HIDE DEF ra, rest
    <3>6. DoneAt(s3, P2) = P3
      BY GoLinks
    <3> HIDE DEF m1
    <3>7. DoneAt(s4, P3) = F
      BY <3>5, GoLinks
    <3> HIDE DEF m2, s2, s3, s4
    <3>8. CASE HasRow(rm, i, "")
      <4>1. RowAt(i, "") # {}
        <5>1. PICK q \in rm : q.dir = i /\ q.name = ""
          BY <3>8 DEF HasRow
        <5>2. Row(e, m, i, r.type).name = m
          BY DEF Row
        <5>3. q \in rows
          BY <1>1, <2>2, <5>1, <5>2
        <5> QED
          BY <5>1, <5>3 DEF RowAt
      <4>2. MoveErr(rs, r, e, m) = "OK"
        BY <2>1, <4>1 DEF MoveErr
      <4>3. Runs(Tables, s2, P1, P2) /\ Runs(Tables, s3, P2, P3) /\ Runs(Tables, s4, P3, F)
        BY <3>4, <3>6, <3>7, <3>8, RunsOn
      <4>4. MovesTo(r, e, m, mt, rs, o, F)
        BY <3>1, <3>2, <4>2 DEF MovesTo
      <4> HIDE DEF S, P1, P2, P3, F
      <4>5. Leads(Tables, rest, P1, F)
        BY <3>3, <4>3, LeadsShort
      <4>6. Leads(Tables, <<s1>> \o rest, S, F)
        BY <1>3, <2>4, <4>5, LeadsThen
      <4> QED
        BY <1>2, <4>4, <4>6 DEF S, rest, s2, s3, s4
    <3>9. CASE ~HasRow(rm, i, "")
      <4>1. Runs(Tables, s2, P1, F2) /\ Runs(Tables, s3, F2, F2) /\ Runs(Tables, s4, F2, F2)
        BY <3>4, <3>9, RunsOut, RunsStopped
      <4>2. F2.err = "EIO" /\ F2.out = o
        BY PointFields
      <4> HIDE DEF S, P1, F2
      <4>3. Leads(Tables, rest, P1, F2)
        BY <3>3, <4>1, LeadsShort
      <4>4. Leads(Tables, <<s1>> \o rest, S, F2)
        BY <1>3, <2>4, <4>3, LeadsThen
      <4> QED
        BY <1>2, <4>2, <4>4 DEF MovesTo, S, rest, s2, s3, s4
    <3> QED
      BY <3>8, <3>9
  <2> QED
    BY <2>5, <2>6
<1> QED
  BY <1>5, <1>6

-----------------------------------------------------------------------------
(* sqlfs_rename() *)

\* A nested call, and what comes after it.
LEMMA NestedLeads ==
    ASSUME NEW T, NEW s \in Seq(Statements), NEW t \in Seq(Statements),
           NEW m, NEW rs, NEW fd, NEW o, MayRefuse(T, "EIO", o),
           NEW R, Leads(T, s, Going(m, rs, fd, o), R), Runs(T, Release, R, R),
           NEW F, Leads(T, t, R, F)
    PROVE  Leads(T, (<<Savepoint>> \o s \o <<Release>>) \o t, Going(m, rs, fd, o), F)
<1> DEFINE S == Going(m, rs, fd, o)
           a == <<Savepoint>>
           b == <<Release>>
           u == a \o s
           v == u \o b
<1>1. Runs(T, Savepoint, S, S)
  BY GoSavepoint, RunsOn
<1>2. a \in Seq(Statements) /\ b \in Seq(Statements)
  BY DEF Statements, Savepoint, Release
<1> HIDE DEF S
<1>3. Leads(T, a, S, S) /\ Leads(T, b, R, R)
  BY <1>1, LeadsShort
<1> HIDE DEF a, b
<1>4. u \in Seq(Statements) /\ Leads(T, u, S, R)
  BY <1>2, <1>3, LeadsThen DEF S
<1> HIDE DEF u
<1>5. v \in Seq(Statements) /\ Leads(T, v, S, R)
  BY <1>2, <1>3, <1>4, LeadsThen
<1> HIDE DEF v
<1>6. Leads(T, v \o t, S, F)
  BY <1>5, LeadsThen
<1> QED
  BY <1>6 DEF v, u, a, b, S

LEMMA ReplaceRuns ==
    ASSUME Tables \in Saved, Keyed(rows),
           NEW d \in Ino, NEW n \in Names, NEW e \in Ino, NEW m \in Names, NEW r, NEW t,
           Renames(Tables, d, n, e, m, r), r \in Joined(d, n),
           t \in Joined(e, m), t.ino # r.ino, d \in DOMAIN meta, e \in DOMAIN meta
    PROVE  MayRun(ReplaceStmts(e, m, Target(t), meta[r.ino].type = "dir")
                    \o MoveStmts(d, n, e, m, r))
<1> DEFINE c == Target(t)
           isDir == meta[r.ino].type = "dir"
           move == MoveStmts(d, n, e, m, r)
           stmts == ReplaceStmts(e, m, c, isDir) \o move
<1>1. r \in RowAt(d, n) /\ r \in DirRow /\ t \in DirRow /\ c.ino = t.ino /\ t.ino \in Ino
  BY TablesSaved DEF Joined, RowAt, Target, DirRow
<1>2. move \in Seq(Statements)
  <2>1. r.ino \in Ino
    BY <1>1 DEF DirRow
  <2>2. move \in Seq(Plain)
    BY <2>1, MovePlain
  <2> QED
    BY <2>2, PlainRest
<1>3. c.ino \in Ino /\ m \in AnyName
  BY <1>1 DEF AnyName, RowNames
<1>4. /\ t \in In(Tables)!Joined(e, m)
      /\ In(Tables)!RemoveErr(e, c, isDir) = RemoveErr(e, c, isDir)
      /\ Tables.meta = meta
  BY AtTables
<1>5. RemoveErr(e, c, isDir) # "OK" => MayRefuse(Tables, RemoveErr(e, c, isDir), NoIno)
  <2>1. RenameRefuses(Tables, RemoveErr(e, c, isDir), NoIno)
    BY <1>4 DEF RenameRefuses
  <2> QED
    BY <2>1 DEF MayRefuse
<1>6. RemoveErr(e, c, isDir) = "OK" => MayRefuse(Tables, "EIO", t.ino)
  <2> SUFFICES ASSUME RemoveErr(e, c, isDir) = "OK"
               PROVE  MayRefuse(Tables, "EIO", t.ino)
    OBVIOUS
  <2>1. RenameRefuses(Tables, "EIO", t.ino)
    BY <1>4 DEF RenameRefuses
  <2> QED
    BY <2>1 DEF MayRefuse
<1> HIDE DEF move
<1>7. CASE ChildErr(e, c, isDir) # "OK"
  <2> DEFINE x == ChildErr(e, c, isDir)
             s == <<Refusal(x)>>
             F == Stopped(meta, rows, filedata, NoIno, x)
  <2>1. x = RemoveErr(e, c, isDir) /\ x # "OK"
    BY <1>7 DEF ChildErr
  <2>2. MayRefuse(Tables, x, NoIno)
    BY <1>5, <2>1
  <2>3. stmts = (<<Savepoint>> \o s \o <<Release>>) \o move
    BY <1>7 DEF ReplaceStmts
  <2>4. s \in Seq(Statements)
    <3>1. Refusal(x) \in Plain
      BY ChildErrs, OtherStatements
    <3> QED
      BY <3>1 DEF Plain
  <2> HIDE DEF x
  <2>5. Runs(Tables, Refusal(x), Begun, F)
    <3>1. DoneAt(Refusal(x), Begun) = F
      BY <2>1, GoRefusal DEF Begun
    <3> QED
      BY <2>2, <3>1, MayFail, RunsOut DEF Begun
  <2>6. Runs(Tables, Release, F, F)
    BY <2>2, RunsStopped
  <2>7. Ends(Tables, F)
    BY <2>2, EndsRefused
  <2>8. F.err # "OK" /\ MayRefuse(Tables, F.err, F.out)
    BY <2>1, <2>2, PointFields
  <2> HIDE DEF F
  <2>9. Leads(Tables, s, Begun, F)
    BY <2>5, LeadsShort
  <2>10. Leads(Tables, move, F, F)
    BY <1>2, <2>8, LeadsFailed
  <2> HIDE DEF s
  <2>11. Leads(Tables, stmts, Begun, F)
    <3> HIDE DEF stmts
    <3> QED
      BY <1>2, <2>3, <2>4, <2>6, <2>9, <2>10, MayFail, NestedLeads DEF Begun
  <2> QED
    BY <2>7, <2>11 DEF MayRun, move
<1>8. CASE ChildErr(e, c, isDir) = "OK"
  <2> DEFINE s == RemoveStmts(e, m, c, isDir)
             rs == RemovedRows(e, m, c, isDir)
             mt == RemovedMeta(e, c, isDir)
             R == Removed(e, m, c, isDir)
  <2>1. stmts = (<<Savepoint>> \o s \o <<Release>>) \o move
    BY <1>8 DEF ReplaceStmts
  <2>2. s \in Seq(Statements)
    <3>1. s \in Seq(Plain)
      BY <1>3, RemovePlain
    <3> QED
      BY <3>1, PlainRest
  <2>3. PICK F0 : RemoveLeadsTo(e, m, c, isDir, F0)
    <3>1. isDir \in BOOLEAN
      OBVIOUS
    <3> HIDE DEF isDir, c
    <3> QED
      BY <1>3, <1>5, <1>8, <3>1, RemoveLeads
  <2>4. Leads(Tables, s, Begun, F0)
    BY <2>3 DEF RemoveLeadsTo
  <2>5. CASE RemoveErr(e, c, isDir) = "ENOENT" /\ F0.err = "ENOENT" /\ F0.out = NoIno
    <3>1. F0.err # "OK" /\ MayRefuse(Tables, F0.err, F0.out)
      BY <1>5, <2>5
    <3>2. Runs(Tables, Release, F0, F0)
      BY <3>1 DEF Runs, DoneAt
    <3>3. Leads(Tables, move, F0, F0)
      BY <1>2, <3>1, LeadsFailed
    <3> HIDE DEF s
    <3>4. Leads(Tables, stmts, Begun, F0)
      <4> HIDE DEF stmts
      <4> QED
        BY <1>2, <2>1, <2>2, <2>4, <3>2, <3>3, MayFail, NestedLeads DEF Begun
    <3> QED
      BY <3>1, <3>4 DEF MayRun, Ends, move
  <2>6. CASE RemoveErr(e, c, isDir) = "OK" /\ F0 = R
    <3>1. MayRefuse(Tables, "EIO", t.ino)
      BY <1>6, <2>6
    <3>2. R = Going(mt, rs, filedata, t.ino)
      BY <1>1 DEF Removed
    <3>3. rs \in SUBSET rows /\ DOMAIN mt = DOMAIN meta
      BY DEF RemovedRows, RemovedMeta, AddLinks
    <3> HIDE DEF rs, mt, R, s
    <3>4. Runs(Tables, Release, R, R)
      BY <3>1, <3>2, GoRelease, RunsOn
    <3>5. PICK F : Leads(Tables, move, R, F) /\ MovesTo(r, e, m, mt, rs, t.ino, F)
      BY <1>1, <3>1, <3>2, <3>3, MoveLeads DEF move
    <3>6. Leads(Tables, stmts, Begun, F)
      <4> HIDE DEF stmts
      <4> QED
        BY <1>2, <2>1, <2>2, <2>4, <2>6, <3>4, <3>5, MayFail, NestedLeads DEF Begun
    <3>7. CASE F.err = "EIO" /\ F.out = t.ino
      BY <3>1, <3>6, <3>7 DEF MayRun, Ends, move
    <3>8. CASE /\ MoveErr(rs, r, e, m) = "OK"
               /\ F = Going(MovedMeta(mt, r, e), MovedRows(rs, r, e, m), filedata, t.ino)
      <4> DEFINE m2 == MovedMeta(mt, r, e)
                 r2 == MovedRows(rs, r, e, m)
                 u == TableSet(m2, r2, filedata)
      <4>1. /\ In(Tables)!RemovedRows(e, m, c, isDir) = rs
            /\ In(Tables)!RemovedMeta(e, c, isDir) = mt
            /\ In(Tables)!MoveErr(rs, r, e, m) = "OK"
            /\ In(Tables)!MovedMeta(mt, r, e) = m2
            /\ In(Tables)!MovedRows(rs, r, e, m) = r2
            /\ Tables.data = filedata
        BY <3>8, AtTables DEF rs, mt
      <4> HIDE DEF m2, r2
      <4>2. RenameDoes(Tables, u, t.ino)
        BY <1>4, <2>6, <4>1 DEF RenameDoes
      <4>3. Ends(Tables, Going(m2, r2, filedata, t.ino))
        BY <4>2, EndsDone DEF MayDo
      <4> QED
        BY <3>6, <3>8, <4>3 DEF MayRun, m2, r2, move
    <3> QED
      BY <3>5, <3>7, <3>8 DEF MovesTo
  <2> QED
    BY <2>3, <2>5, <2>6 DEF RemoveLeadsTo
<1> QED
  BY <1>7, <1>8

LEMMA RenameRuns ==
    ASSUME Tables \in Saved, Keyed(rows),
           NEW d \in Ino, NEW n \in RowNames, NEW e \in Ino, NEW m \in RowNames,
           NotRemoved(e), MakesNoCycle(d, n, e), RenameParentsErr(d, n, e, m) = "OK",
           NEW r \in Joined(d, n)
    PROVE  MayRun(RenameStmts(d, n, e, m, r))
<1>1. n \in Names /\ m \in Names /\ d \in DOMAIN meta /\ e \in DOMAIN meta
  BY DEF RenameParentsErr, ParentErr
<1>2. Renames(Tables, d, n, e, m, r)
  BY AtTables DEF Renames
<1>3. r \in RowAt(d, n)
  BY DEF Joined
<1>4. CASE Joined(e, m) = {}
  <2>1. RenameStmts(d, n, e, m, r) = MoveStmts(d, n, e, m, r)
    BY <1>4 DEF RenameStmts
  <2>2. PICK F : /\ Leads(Tables, MoveStmts(d, n, e, m, r), Begun, F)
                 /\ MovesTo(r, e, m, meta, rows, NoIno, F)
    BY <1>1, <1>3, MayFail, MoveLeads DEF Begun
  <2>3. CASE F.err = "EIO" /\ F.out = NoIno
    BY <2>1, <2>2, <2>3, MayFail DEF MayRun, Ends
  <2>4. CASE /\ MoveErr(rows, r, e, m) = "OK"
             /\ F = Going(MovedMeta(meta, r, e), MovedRows(rows, r, e, m), filedata, NoIno)
    <3> DEFINE m2 == MovedMeta(meta, r, e)
               r2 == MovedRows(rows, r, e, m)
               u == TableSet(m2, r2, filedata)
    <3>1. /\ In(Tables)!Joined(e, m) = {}
          /\ In(Tables)!MoveErr(rows, r, e, m) = "OK"
          /\ In(Tables)!MovedMeta(meta, r, e) = m2
          /\ In(Tables)!MovedRows(rows, r, e, m) = r2
          /\ Tables.data = filedata /\ Tables.rows = rows /\ Tables.meta = meta
      BY <1>4, <2>4, AtTables
    <3> HIDE DEF m2, r2
    <3>2. RenameDoes(Tables, u, NoIno)
      BY <1>2, <3>1 DEF RenameDoes
    <3>3. Ends(Tables, Going(m2, r2, filedata, NoIno))
      BY <3>2, EndsDone DEF MayDo
    <3> QED
      BY <2>1, <2>2, <2>4, <3>3 DEF MayRun, m2, r2
  <2> QED
    BY <2>2, <2>3, <2>4 DEF MovesTo
<1>5. CASE Joined(e, m) # {}
  <2> DEFINE t == CHOOSE t \in Joined(e, m) : TRUE
  <2>1. t \in Joined(e, m)
    BY <1>5
  <2>2. RenameStmts(d, n, e, m, r) =
          IF t.ino = r.ino THEN <<>>
          ELSE ReplaceStmts(e, m, Target(t), meta[r.ino].type = "dir")
                 \o MoveStmts(d, n, e, m, r)
    BY <1>5 DEF RenameStmts, Target
  <2> HIDE DEF t
  <2>3. CASE t.ino = r.ino
    <3>1. Leads(Tables, <<>>, Begun, Begun)
      BY LeadsNowhere
    <3>2. RenameDoes(Tables, Tables, NoIno)
      BY <1>2, <2>1, <2>3, AtTables DEF RenameDoes
    <3>3. Tables = TableSet(meta, rows, filedata)
      BY DEF Tables, TableSet
    <3>4. Ends(Tables, Begun)
      BY <3>2, <3>3, EndsDone DEF MayDo, Begun
    <3> QED
      BY <2>2, <2>3, <3>1, <3>4 DEF MayRun
  <2>4. CASE t.ino # r.ino
    BY <1>1, <1>2, <2>1, <2>2, <2>4, ReplaceRuns
  <2> QED
    BY <2>3, <2>4
<1> QED
  BY <1>4, <1>5

-----------------------------------------------------------------------------
(* sqlfs_purge(), sqlfs_purge_all(), sqlfs_set_attr() *)

Now(o) == Going(meta, rows, filedata, o)

LEMMA NowIs == \A o : Now(o) = Point(Tables, o, "OK")
  BY DEF Now, Going, Tables, TableSet

LEMMA PurgeLeads ==
    ASSUME NEW T, NEW i \in Ino, NEW o, MayRefuse(T, "EIO", o)
    PROVE  Leads(T, PurgeStmts(i), Now(o),
                 IF Linked(Tables, i) THEN Now(o)
                 ELSE Point(Without(Tables, {i}), o, "OK"))
<1>1. Linked(Tables, i) <=> StatNlink(i) > (IF meta[i].type = "dir" THEN 1 ELSE 0)
  BY AtTables DEF Linked
<1>2. CASE Linked(Tables, i)
  <2>1. PurgeStmts(i) = <<>>
    BY <1>1, <1>2 DEF PurgeStmts
  <2> QED
    BY <1>2, <2>1, LeadsNowhere
<1>3. CASE ~Linked(Tables, i)
  <2> DEFINE md == DeleteMeta(meta, {i})
             s1 == Data(i, FALSE)
             s2 == DelMeta(i)
  <2>1. CASE meta[i].type = "dir"
    <3> DEFINE F == Going(md, rows, filedata, o)
    <3>1. Without(Tables, {i}) = TableSet(md, rows, filedata)
      BY <2>1, AtTables DEF Without
    <3>2. PurgeStmts(i) = <<s2>>
      <4>1. PurgeStmts(i) = <<>> \o <<s2>>
        BY <1>1, <1>3, <2>1 DEF PurgeStmts
      <4> HIDE DEF s2
      <4> QED
        BY <4>1
    <3>3. Runs(T, s2, Now(o), F)
      BY GoDelMeta, RunsOn DEF Now
    <3>4. F = Point(Without(Tables, {i}), o, "OK")
      BY <3>1 DEF Going
    <3> HIDE DEF F
    <3>5. Leads(T, <<s2>>, Now(o), F)
      BY <3>3, LeadsShort
    <3> QED
      BY <1>3, <3>2, <3>4, <3>5
  <2>2. CASE meta[i].type # "dir"
    <3> DEFINE fd == filedata \ {i}
               P == Going(meta, rows, fd, o)
               F == Going(md, rows, fd, o)
    <3>1. Without(Tables, {i}) = TableSet(md, rows, fd)
      <4>1. {j \in {i} : meta[j].type # "dir"} = {i}
        BY <2>2
      <4> QED
        BY <4>1, AtTables DEF Without
    <3>2. PurgeStmts(i) = <<s1, s2>>
      <4>1. PurgeStmts(i) = <<s1>> \o <<s2>>
        BY <1>1, <1>3, <2>2 DEF PurgeStmts
      <4>2. s1 \in Plain /\ s2 \in Plain
        BY PlainStatements
      <4> HIDE DEF s1, s2
      <4>3. <<s1>> \o <<s2>> = <<s1, s2>>
        BY <4>2, ShortSeqs
      <4> QED
        BY <4>1, <4>3
    <3>3. DoneAt(s1, Now(o)) = P
      <4> DEFINE b == FALSE
      <4>1. Filled(filedata, i, b) = fd
        BY DEF Filled
      <4> HIDE DEF b, fd
      <4>2. DoneAt(Data(i, b), Now(o)) = P
        BY <4>1, GoData DEF Now
      <4> QED
        BY <4>2 DEF b
    <3> HIDE DEF fd, s1
    <3>4. Runs(T, s1, Now(o), P)
      BY <3>3, RunsOn DEF Now
    <3>5. Runs(T, s2, P, F)
      BY GoDelMeta, RunsOn
    <3>6. F = Point(Without(Tables, {i}), o, "OK")
      BY <3>1 DEF Going
    <3> HIDE DEF P, F
    <3>7. Leads(T, <<s1, s2>>, Now(o), F)
      BY <3>5, <3>4, LeadsShort
    <3> QED
      BY <1>3, <3>2, <3>6, <3>7 DEF s1
  <2> QED
    BY <2>1, <2>2
<1> QED
  BY <1>2, <1>3

LEMMA PurgeRuns ==
    ASSUME NEW i \in Ino, i \in DOMAIN meta
    PROVE  MayRun(PurgeStmts(i))
<1> DEFINE t == IF Linked(Tables, i) THEN Tables ELSE Without(Tables, {i})
           F == Point(t, NoIno, "OK")
<1>1. MaintainDoes(Tables, t, NoIno)
  BY AtTables DEF MaintainDoes
<1>2. Leads(Tables, PurgeStmts(i), Begun, F)
  <2>1. F = IF Linked(Tables, i) THEN Now(NoIno)
            ELSE Point(Without(Tables, {i}), NoIno, "OK")
    BY NowIs
  <2> HIDE DEF F
  <2> QED
    BY <2>1, MayFail, PurgeLeads DEF Begun, Now
<1> HIDE DEF t
<1>3. Ends(Tables, F)
  BY <1>1 DEF Ends, MayDo, Point
<1> QED
  BY <1>2, <1>3 DEF MayRun

LEMMA PurgeAllRuns ==
    ASSUME Tables \in Saved
    PROVE  MayRun(<<NextUnlinked(0)>>)
<1> DEFINE s == NextUnlinked(0)
           t == Purged(Tables, 0)
           F == Point(t, NoIno, "OK")
<1>1. t = Without(Tables, In(Tables)!Unlinked)
  <2>1. In(Tables)!Unlinked = Unlinked
    BY AtTables
  <2>2. \A j \in Unlinked : j > 0
    BY TablesSaved DEF Unlinked, Ino
  <2>3. {j \in Unlinked : j > 0} = Unlinked
    BY <2>2
  <2> QED
    BY <2>1, <2>3 DEF Purged
<1>2. MaintainDoes(Tables, t, NoIno)
  BY <1>1 DEF MaintainDoes
<1>3. DoneAt(s, Begun) = F
  <2>1. DoneAt(s, Begun) = Point(Purged(TableSet(meta, rows, filedata), 0), NoIno, "OK")
    BY GoNext DEF Begun
  <2>2. Tables = TableSet(meta, rows, filedata)
    BY DEF Tables, TableSet
  <2> QED
    BY <2>1, <2>2
<1> HIDE DEF t, s
<1>4. F.err = "OK" /\ F.t = t /\ F.out = NoIno
  BY DEF Point
<1>5. Runs(Tables, s, Begun, F)
  BY <1>3, <1>4, MayFail, PointFields DEF Runs, Begun
<1>6. Ends(Tables, F)
  BY <1>2, <1>4 DEF Ends, MayDo
<1> HIDE DEF F
<1>7. Leads(Tables, <<s>>, Begun, F)
  BY <1>5, LeadsShort
<1> QED
  BY <1>6, <1>7 DEF MayRun, s

LEMMA SetSizeRuns ==
    ASSUME NEW i \in Ino, NEW b \in BOOLEAN, SetSizeErr(i) = "OK"
    PROVE  MayRun(<<Data(i, b), TouchMeta(i)>>)
<1> DEFINE fd == IF b THEN filedata \cup {i} ELSE filedata \ {i}
           s1 == Data(i, b)
           s2 == TouchMeta(i)
           F == Going(meta, rows, fd, NoIno)
<1>1. i \in DOMAIN meta
  BY DEF SetSizeErr
<1>2. MaintainDoes(Tables, TableSet(meta, rows, fd), NoIno)
  BY AtTables DEF MaintainDoes
<1>3. DoneAt(s1, Begun) = F
  <2>1. Filled(filedata, i, b) = fd
    BY DEF Filled
  <2> HIDE DEF fd
  <2> QED
    BY <2>1, GoData DEF Begun
<1> HIDE DEF fd, s1
<1>4. Ends(Tables, F)
  BY <1>2, EndsDone DEF MayDo
<1>5. Runs(Tables, s1, Begun, F)
  BY <1>3, MayFail, RunsOn DEF Begun
<1>6. DoneAt(s2, F) = F
  BY <1>1, GoTouchMeta
<1> HIDE DEF s2
<1>7. Runs(Tables, s2, F, F)
  BY <1>6, MayFail, RunsOn
<1> HIDE DEF F
<1>8. Leads(Tables, <<s1, s2>>, Begun, F)
  BY <1>5, <1>7, LeadsShort
<1> QED
  BY <1>4, <1>8 DEF MayRun, s1, s2

\* The turns to come after inode i, in the tables without it.
LEMMA PurgedNext ==
    ASSUME Tables \in Saved, NEW after \in Int, NEW i \in Unlinked, i > after,
           \A j \in Unlinked : j > after => i <= j
    PROVE  Purged(Without(Tables, {i}), i) = Purged(Tables, after)
<1> DEFINE t == Without(Tables, {i})
           md == DeleteMeta(meta, {i})
           J == {j \in Unlinked : j > after}
           K == {j \in Unlinked \ {i} : j > i}
<1>1. Unlinked \subseteq DOMAIN meta /\ DOMAIN meta \subseteq Int
  BY TablesSaved DEF Unlinked, Ino
<1>2. /\ t.meta = md /\ t.rows = rows
      /\ t.data = filedata \ {j \in {i} : meta[j].type # "dir"}
  BY AtTables DEF Without, TableSet
<1>3. DOMAIN md = DOMAIN meta \ {i} /\ \A j \in DOMAIN meta \ {i} : md[j] = meta[j]
  BY DEF DeleteMeta
<1> HIDE DEF t, md
<1>4. In(t)!Unlinked = Unlinked \ {i}
  BY <1>2, <1>3 DEF In!Unlinked, Unlinked
<1>5. J = K \cup {i} /\ K \subseteq DOMAIN meta \ {i} /\ i \in DOMAIN meta
  <2>1. ASSUME NEW j \in Unlinked
        PROVE  j > after <=> j = i \/ j > i
    <3>1. i \in Int /\ j \in Int
      BY <1>1
    <3> QED
      BY <3>1
  <2> QED
    BY <1>1, <2>1
<1>6. Purged(t, i) =
        TableSet(DeleteMeta(md, K), rows, t.data \ {j \in K : md[j].type # "dir"})
  BY <1>2, <1>4 DEF Purged, Without
<1>7. Purged(Tables, after) =
        TableSet(DeleteMeta(meta, J), rows, filedata \ {j \in J : meta[j].type # "dir"})
  BY AtTables DEF Purged, Without
<1> HIDE DEF J, K
<1>8. DeleteMeta(md, K) = DeleteMeta(meta, J)
  BY <1>3, <1>5 DEF DeleteMeta
<1>9. t.data \ {j \in K : md[j].type # "dir"} = filedata \ {j \in J : meta[j].type # "dir"}
  BY <1>2, <1>3, <1>5
<1> QED
  BY <1>6, <1>7, <1>8, <1>9 DEF t

\* A turn of the loop leads where the loop does.
LEMMA TurnLeads ==
    ASSUME Tables \in Saved, NEW T, NEW after \in Int, NEW o, MayRefuse(T, "EIO", o)
    PROVE  Leads(T, TurnStmts(after), Now(o), DoneAt(NextUnlinked(after), Now(o)))
<1> DEFINE left == UnlinkedAfter(after)
           i == CHOOSE j \in left : \A k \in left : j <= k
           F == Point(Purged(Tables, after), o, "OK")
<1>1. Tables = TableSet(meta, rows, filedata)
  BY DEF Tables, TableSet
<1>2. DoneAt(NextUnlinked(after), Now(o)) = F
  BY <1>1, GoNext DEF Now
<1>3. CASE left = {}
  <2>1. TurnStmts(after) = <<>>
    BY <1>3 DEF TurnStmts
  <2>2. Purged(Tables, after) = Tables
    <3>1. {j \in In(Tables)!Unlinked : j > after} = {}
      BY <1>3, AtTables DEF UnlinkedAfter
    <3>2. Without(Tables, {}) = Tables
      <4>1. meta = [j \in DOMAIN meta |-> meta[j]]
        BY TablesSaved
      <4>2. DeleteMeta(meta, {}) = meta
        BY <4>1 DEF DeleteMeta
      <4>3. filedata \ {j \in {} : meta[j].type # "dir"} = filedata
        OBVIOUS
      <4> QED
        BY <1>1, <4>2, <4>3, AtTables DEF Without
    <3> QED
      BY <3>1, <3>2 DEF Purged
  <2>3. F = Now(o)
    BY <2>2, NowIs
  <2> QED
    BY <1>2, <2>1, <2>3, LeadsNowhere
<1>4. CASE left # {}
  <2>1. left \subseteq Ino
    BY TablesSaved DEF UnlinkedAfter, Unlinked
  <2>2. i \in left /\ \A k \in left : i <= k
    <3> HIDE DEF left
    <3> QED
      BY <1>4, <2>1, LeastOf
  <2>3. TurnStmts(after) = <<Savepoint>> \o PurgeStmts(i) \o <<Release, NextUnlinked(i)>>
    BY <1>4 DEF TurnStmts
  <2> HIDE DEF i
  <2>4. i \in Ino /\ i \in Unlinked /\ i > after /\ \A j \in Unlinked : j > after => i <= j
    BY <2>1, <2>2 DEF UnlinkedAfter
  <2> HIDE DEF left
  <2> DEFINE t == Without(Tables, {i})
             R == Point(t, o, "OK")
             s == PurgeStmts(i)
             u == <<NextUnlinked(i)>>
  <2>5. ~Linked(Tables, i)
    <3>1. meta[i].nlink = 0
      BY <2>4 DEF Unlinked
    <3> QED
      BY <3>1, AtTables DEF Linked, StatNlink
  <2>6. Leads(T, s, Now(o), R)
    BY <2>4, <2>5, PurgeLeads
  <2>7. t = TableSet(t.meta, t.rows, t.data)
    BY DEF Without, TableSet
  <2>8. R = Going(t.meta, t.rows, t.data, o)
    BY <2>7 DEF Going
  <2>9. Runs(T, Release, R, R)
    BY <2>8, GoRelease, RunsOn
  <2>10. DoneAt(NextUnlinked(i), R) = F
    <3>1. DoneAt(NextUnlinked(i), R) = Point(Purged(t, i), o, "OK")
      BY <2>7, <2>8, GoNext
    <3>2. Purged(t, i) = Purged(Tables, after)
      BY <2>4, PurgedNext
    <3> QED
      BY <3>1, <3>2
  <2>11. Leads(T, u, R, F)
    <3>1. F.err = "OK" /\ R.err = "OK" /\ R.out = o
      BY DEF Point
    <3> HIDE DEF F, R
    <3>2. Runs(T, NextUnlinked(i), R, F)
      BY <2>10, <3>1 DEF Runs
    <3> QED
      BY <3>2, LeadsShort
  <2>12. s \in Seq(Statements) /\ u \in Seq(Statements)
    <3>1. s \in Seq(Plain) /\ NextUnlinked(i) \in Statements
      BY <2>4, PurgePlain, OtherStatements
    <3> QED
      BY <3>1, PlainRest
  <2> HIDE DEF R, F, s, u
  <2>13. Leads(T, (<<Savepoint>> \o s \o <<Release>>) \o u, Now(o), F)
    BY <2>6, <2>9, <2>11, <2>12, NestedLeads DEF Now
  <2> QED
    BY <1>2, <2>3, <2>4, <2>13, TurnShape DEF s, u
<1> QED
  BY <1>3, <1>4

-----------------------------------------------------------------------------
(* The key of direntries *)

LEMMA SubsetKeyed ==
    ASSUME NEW rs, NEW qs \in SUBSET rs, Keyed(rs)
    PROVE  Keyed(qs)
  BY DEF Keyed

LEMMA KeyedAfter ==
    ASSUME Tables \in Saved, Keyed(rows), NEW s \in Statements, StmtErr(s) = "OK"
    PROVE  Keyed(After(s).rows)
<1> DEFINE rs == After(s).rows
<1>1. CASE s.op = "newRow"
  <2>1. rs = rows \cup {s.row}
    BY <1>1 DEF After, Tables
  <2>2. RowAt(s.row.dir, s.row.name) = {}
    BY <1>1 DEF StmtErr
  <2> HIDE DEF rs
  <2>3. Keyed(rs)
    BY <2>1, <2>2 DEF Keyed, RowAt
  <2> QED
    BY <2>3 DEF rs
<1>2. CASE s.op = "delRow"
  <2>1. rs = rows \ RowAt(s.dir, s.name)
    BY <1>2 DEF After, Tables
  <2> HIDE DEF rs
  <2>2. rs \in SUBSET rows
    BY <2>1
  <2> QED
    BY <2>2, SubsetKeyed DEF rs
<1>3. CASE s.op = "delRows"
  <2>1. rs = rows \ Entries(s.dir)
    BY <1>3 DEF After, Tables
  <2> HIDE DEF rs
  <2>2. rs \in SUBSET rows
    BY <2>1
  <2> QED
    BY <2>2, SubsetKeyed DEF rs
<1>4. CASE s.op = "move"
  <2> DEFINE new(q) == [q EXCEPT !.dir = s.to, !.name = s.as]
  <2>1. rs = {IF r \in RowAt(s.dir, s.name) THEN new(r) ELSE r : r \in rows}
    BY <1>4 DEF After, Tables
  <2>2. RowAt(s.to, s.as) = {}
    BY <1>4 DEF StmtErr
  <2>3. \A r \in rows : new(r).dir = s.to /\ new(r).name = s.as
    BY TablesSaved DEF DirRow
  <2> HIDE DEF rs, new
  <2>4. SUFFICES ASSUME NEW q \in rs, NEW r \in rs, q.dir = r.dir, q.name = r.name
                 PROVE  q = r
    BY DEF Keyed, rs
  <2>5. PICK q0 \in rows : q = IF q0 \in RowAt(s.dir, s.name) THEN new(q0) ELSE q0
    BY <2>1
  <2>6. PICK r0 \in rows : r = IF r0 \in RowAt(s.dir, s.name) THEN new(r0) ELSE r0
    BY <2>1
  <2>7. CASE q0 \in RowAt(s.dir, s.name) /\ r0 \in RowAt(s.dir, s.name)
    <3>1. q0 = r0
      BY <2>7 DEF RowAt, Keyed
    <3> QED
      BY <2>5, <2>6, <3>1
  <2>8. CASE q0 \in RowAt(s.dir, s.name) /\ r0 \notin RowAt(s.dir, s.name)
    <3>1. r = r0 /\ r0.dir = s.to /\ r0.name = s.as
      BY <2>3, <2>4, <2>5, <2>6, <2>8
    <3> QED
      BY <2>2, <3>1 DEF RowAt
  <2>9. CASE q0 \notin RowAt(s.dir, s.name) /\ r0 \in RowAt(s.dir, s.name)
    <3>1. q = q0 /\ q0.dir = s.to /\ q0.name = s.as
      BY <2>3, <2>4, <2>5, <2>6, <2>9
    <3> QED
      BY <2>2, <3>1 DEF RowAt
  <2>10. CASE q0 \notin RowAt(s.dir, s.name) /\ r0 \notin RowAt(s.dir, s.name)
    BY <2>4, <2>5, <2>6, <2>10 DEF Keyed
  <2> QED
    BY <2>7, <2>8, <2>9, <2>10
<1>5. CASE s.op = "reparent"
  <2> DEFINE new(q) == [q EXCEPT !.ino = s.to]
  <2>1. rs = {IF r \in RowAt(s.ino, "") THEN new(r) ELSE r : r \in rows}
    BY <1>5 DEF After, Tables
  <2>2. \A r \in rows : new(r).dir = r.dir /\ new(r).name = r.name
    BY TablesSaved DEF DirRow
  <2> HIDE DEF rs, new
  <2>3. SUFFICES ASSUME NEW q \in rs, NEW r \in rs, q.dir = r.dir, q.name = r.name
                 PROVE  q = r
    BY DEF Keyed, rs
  <2>4. PICK q0 \in rows : q = IF q0 \in RowAt(s.ino, "") THEN new(q0) ELSE q0
    BY <2>1
  <2>5. PICK r0 \in rows : r = IF r0 \in RowAt(s.ino, "") THEN new(r0) ELSE r0
    BY <2>1
  <2>6. q0 = r0
    <3>1. q.dir = q0.dir /\ q.name = q0.name
      BY <2>2, <2>4
    <3>2. r.dir = r0.dir /\ r.name = r0.name
      BY <2>2, <2>5
    <3> QED
      BY <2>3, <3>1, <3>2 DEF Keyed
  <2> QED
    BY <2>4, <2>5, <2>6
<1>6. CASE s.op \notin {"newRow", "delRow", "delRows", "move", "reparent"}
  <2>1. rs = rows
    BY <1>6 DEF After, Tables
  <2> QED
    BY <2>1
<1> QED
  BY <1>1, <1>2, <1>3, <1>4, <1>5, <1>6

-----------------------------------------------------------------------------
(* The invariant of the refinement *)

\* The tables of the connection and of every savepoint have their key.
KeysHold == Keyed(rows) /\ \A k \in 1..Len(stack) : Keyed(stack[k].rows)

\* What is left of a call that runs leads to the end of a call of Sqlfs on the
\* tables in the database.
WillEnd == \E F : Leads(Committed, todo, Point(Tables, out, "OK"), F) /\ Ends(Committed, F)

RInv ==
    /\ KeysHold
    /\ call = "run" => WillEnd
    /\ call = "unwind" => MayRefuse(Committed, err, out)

\* One step is a call of Sqlfs, or changes nothing in the database.
BaseStep == [Base!Next]_Base!vars

LEMMA BaseStutters ==
    ASSUME Committed' = Committed, res' = res
    PROVE  BaseStep
  BY DEF BaseStep, Base!vars

LEMMA AtStatement ==
    ASSUME NEW s
    PROVE  In(Tables)!StmtErr(s) = StmtErr(s) /\ In(Tables)!After(s) = After(s)
<1>1. Tables.meta = meta /\ Tables.rows = rows /\ Tables.data = filedata
  BY AtTables
<1>2. /\ \A d, n : In(Tables)!RowAt(d, n) = RowAt(d, n)
      /\ \A d : In(Tables)!Entries(d) = Entries(d)
      /\ \A m, i, k : In(Tables)!AddLinks(m, i, k) = AddLinks(m, i, k)
      /\ \A m, i, t : In(Tables)!InsertMeta(m, i, t) = InsertMeta(m, i, t)
      /\ \A m, I : In(Tables)!DeleteMeta(m, I) = DeleteMeta(m, I)
  BY <1>1 DEF In!RowAt, RowAt, In!Entries, Entries, In!AddLinks, AddLinks,
              In!InsertMeta, InsertMeta, In!DeleteMeta, DeleteMeta
<1>3. In(Tables)!Tables = Tables
  BY <1>1 DEF In!Tables, Tables
<1>4. In(Tables)!StmtErr(s) = StmtErr(s)
  BY <1>1, <1>2 DEF In!StmtErr, StmtErr
<1>5. In(Tables)!After(s) = After(s)
  <2>1. CASE s.op = "links"
    BY <1>1, <1>2, <1>3, <2>1 DEF In!After, After
  <2>2. CASE s.op = "newMeta"
    BY <1>1, <1>2, <1>3, <2>2 DEF In!After, After
  <2>3. CASE s.op = "delMeta"
    BY <1>1, <1>2, <1>3, <2>3 DEF In!After, After
  <2>4. CASE s.op = "newRow"
    BY <1>1, <1>2, <1>3, <2>4 DEF In!After, After
  <2>5. CASE s.op = "delRow"
    BY <1>1, <1>2, <1>3, <2>5 DEF In!After, After
  <2>6. CASE s.op = "delRows"
    BY <1>1, <1>2, <1>3, <2>6 DEF In!After, After
  <2>7. CASE s.op = "move"
    <3> DEFINE A == In(Tables)!RowAt(s.dir, s.name)
               B == RowAt(s.dir, s.name)
               moved(X) == {IF r \in X THEN [r EXCEPT !.dir = s.to, !.name = s.as] ELSE r :
                              r \in rows}
    <3>1. In(Tables)!After(s) = [Tables EXCEPT !.rows = moved(A)]
      BY <1>1, <1>3, <2>7 DEF In!After
    <3>2. After(s) = [Tables EXCEPT !.rows = moved(B)]
      BY <2>7 DEF After
    <3>3. A = B
      BY <1>2
    <3> HIDE DEF moved, A, B
    <3> QED
      BY <3>1, <3>2, <3>3
  <2>8. CASE s.op = "reparent"
    <3> DEFINE A == In(Tables)!RowAt(s.ino, "")
               B == RowAt(s.ino, "")
               moved(X) == {IF r \in X THEN [r EXCEPT !.ino = s.to] ELSE r : r \in rows}
    <3>1. In(Tables)!After(s) = [Tables EXCEPT !.rows = moved(A)]
      BY <1>1, <1>3, <2>8 DEF In!After
    <3>2. After(s) = [Tables EXCEPT !.rows = moved(B)]
      BY <2>8 DEF After
    <3>3. A = B
      BY <1>2
    <3> HIDE DEF moved, A, B
    <3> QED
      BY <3>1, <3>2, <3>3
  <2>9. CASE s.op = "data"
    BY <1>1, <1>2, <1>3, <2>9 DEF In!After, After
  <2>10. CASE s.op \notin {"links", "newMeta", "delMeta", "newRow", "delRow", "delRows",
                        "move", "reparent", "data"}
    BY <1>3, <2>10 DEF In!After, After
  <2> QED
    BY <2>1, <2>2, <2>3, <2>4, <2>5, <2>6, <2>7, <2>8, <2>9, <2>10
<1> QED
  BY <1>4, <1>5

\* The tables in the database stay as they are while the outermost savepoint does.
LEMMA CommittedKept ==
    ASSUME stack # <<>>, stack' # <<>>, stack'[1] = stack[1]
    PROVE  Committed' = Committed
  BY DEF Committed

LEMMA CommittedSaved ==
    ASSUME TInv
    PROVE  Committed \in Saved /\ (stack = <<>> => Committed = Tables)
  BY DEF Committed, TInv, TxTypes

-----------------------------------------------------------------------------
(* The refinement: calls begin *)

LEMMA ReturnNowStep ==
    ASSUME TInv, RInv, ReturnNow("EINVAL")
    PROVE  RInv' /\ BaseStep
<1>1. /\ call = "idle" /\ call' = "idle" /\ UNCHANGED <<meta, rows, filedata, stack>>
      /\ res' = [err |-> "EINVAL", ino |-> NoIno]
  BY DEF ReturnNow, Result, txVars
<1>2. Committed' = Committed
  BY <1>1 DEF Committed, Tables
<1>3. MayRefuse(Committed, "EINVAL", NoIno)
  BY DEF MayRefuse
<1>4. Base!Next
  BY <1>1, <1>2, <1>3, BaseRefuses
<1>5. RInv'
  BY <1>1 DEF RInv, KeysHold
<1> QED
  BY <1>4, <1>5 DEF BaseStep

LEMMA StartStep ==
    ASSUME TInv, RInv, NEW e, NEW stmts, Start(e, stmts),
           e = "OK" => MayRun(stmts),
           e # "OK" => MayRefuse(Tables, e, NoIno)
    PROVE  RInv' /\ BaseStep
<1>1. /\ call = "idle" /\ stack' = <<Tables>> /\ out' = NoIno
      /\ UNCHANGED <<meta, rows, filedata>>
  BY DEF Start
<1>2. Committed = Tables
  BY <1>1, CommittedSaved DEF TInv, Paired
<1>3. Tables' = Tables /\ Len(stack') = 1 /\ stack'[1] = Tables /\ stack' # <<>>
  BY <1>1 DEF Tables
<1>4. Committed' = Tables
  BY <1>3 DEF Committed
<1>5. KeysHold'
  <2>1. Keyed(rows') /\ Keyed(Tables.rows)
    BY <1>1, AtTables DEF RInv, KeysHold
  <2>2. \A k \in 1..Len(stack') : stack'[k] = Tables
    BY <1>3
  <2> QED
    BY <2>1, <2>2 DEF KeysHold
<1>6. CASE /\ e # "ABORT"
           /\ err' \in {e, "EIO"}
           /\ call' = IF err' = "OK" THEN "run" ELSE "unwind"
           /\ todo' = IF err' = "OK" THEN stmts ELSE <<>>
           /\ UNCHANGED res
  <2>1. BaseStep
    BY <1>2, <1>4, <1>6, BaseStutters
  <2>2. CASE err' = "OK"
    <3>1. e = "OK" /\ call' = "run" /\ todo' = stmts
      BY <1>6, <2>2
    <3>2. PICK F : Leads(Tables, stmts, Begun, F) /\ Ends(Tables, F)
      BY <3>1 DEF MayRun
    <3>3. Begun = Point(Tables', out', "OK")
      BY <1>1, <1>3, NowIs DEF Begun, Now
    <3>4. WillEnd'
      BY <1>4, <3>1, <3>2, <3>3 DEF WillEnd
    <3>5. RInv'
      BY <1>5, <3>1, <3>4 DEF RInv
    <3> QED
      BY <2>1, <3>5
  <2>3. CASE err' # "OK"
    <3>1. call' = "unwind"
      BY <1>6, <2>3
    <3>2. MayRefuse(Tables, err', NoIno)
      BY <1>6, <2>3, MayFail
    <3>3. MayRefuse(Committed, err, out)'
      BY <1>1, <1>4, <3>2
    <3>4. RInv'
      BY <1>5, <3>1, <3>3 DEF RInv
    <3> QED
      BY <2>1, <3>4
  <2> QED
    BY <2>2, <2>3
<1>7. CASE /\ e = "ABORT"
           /\ err' = "ABORT" /\ call' = "check_failed" /\ todo' = <<>>
           /\ Result("ABORT", NoIno)
  <2>1. RInv'
    BY <1>5, <1>7 DEF RInv
  <2>2. res' = [err |-> "ABORT", ino |-> NoIno]
    BY <1>7 DEF Result
  <2>3. MayRefuse(Committed, "ABORT", NoIno)
    BY <1>2, <1>7
  <2>4. Base!Next
    BY <1>2, <1>4, <2>2, <2>3, BaseRefuses
  <2> QED
    BY <2>1, <2>4 DEF BaseStep
<1> QED
  BY <1>6, <1>7 DEF Start

LEMMA CreateStep ==
    ASSUME TInv, RInv, NEW d \in Ino, NEW n \in AnyName, NotRemoved(d),
           TxMkdir(d, n) \/ TxMknod(d, n)
    PROVE  RInv' /\ BaseStep
<1>1. CASE n \notin Names
  BY <1>1, ReturnNowStep DEF TxMkdir, TxMknod
<1>2. CASE n \in Names
  <2>1. PICK i \in Ino : /\ IsNewIno(i)
                         /\ \/ Start(StatDirErr(d), MkdirStmts(d, n, i))
                            \/ Start(StatDirErr(d), MknodStmts(d, n, i))
    BY <1>2 DEF TxMkdir, TxMknod
  <2> DEFINE e == StatDirErr(d)
  <2>2. e # "OK" => MayRefuse(Tables, e, NoIno)
    <3> SUFFICES ASSUME e # "OK"
                 PROVE  MayRefuse(Tables, e, NoIno)
      OBVIOUS
    <3>1. e = CreateErr(d, n, i, "file")
      BY <1>2 DEF CreateErr
    <3> HIDE DEF e
    <3>2. CreateRefuses(Tables, e)
      BY <2>1, <3>1, AtTables DEF CreateRefuses, Types
    <3> QED
      BY <3>2 DEF MayRefuse
  <2>3. e = "OK" => MayRun(MkdirStmts(d, n, i)) /\ MayRun(MknodStmts(d, n, i))
    BY <1>2, <2>1, MkdirRuns, MknodRuns
  <2> HIDE DEF e
  <2> QED
    BY <2>1, <2>2, <2>3, StartStep DEF e
<1> QED
  BY <1>1, <1>2

LEMMA RemoveStep ==
    ASSUME TInv, RInv, NEW d \in Ino, NEW n \in AnyName, NEW isDir \in BOOLEAN,
           TxRemove(d, n, isDir)
    PROVE  RInv' /\ BaseStep
<1>1. CASE n = "" /\ Start("EINVAL", <<>>)
  <2>1. MayRefuse(Tables, "EINVAL", NoIno)
    BY DEF MayRefuse
  <2> QED
    BY <1>1, <2>1, StartStep
<1>2. CASE n # "" /\ Found(d, n) = {} /\ Start("ENOENT", <<>>)
  <2>1. RemoveRefuses(Tables, "ENOENT")
    BY <1>2, AtTables DEF RemoveRefuses
  <2>2. MayRefuse(Tables, "ENOENT", NoIno)
    BY <2>1 DEF MayRefuse
  <2> QED
    BY <1>2, <2>2, StartStep
<1>3. CASE n # "" /\ \E c \in Found(d, n) :
             Start(ChildErr(d, c, isDir), RemoveStmts(d, n, c, isDir))
  <2>1. PICK c \in Found(d, n) :
               Start(ChildErr(d, c, isDir), RemoveStmts(d, n, c, isDir))
    BY <1>3
  <2> DEFINE e == ChildErr(d, c, isDir)
  <2>2. e # "OK" => MayRefuse(Tables, e, NoIno)
    <3> SUFFICES ASSUME e # "OK"
                 PROVE  MayRefuse(Tables, e, NoIno)
      OBVIOUS
    <3>1. e = RemoveErr(d, c, isDir)
      BY DEF ChildErr
    <3> HIDE DEF e
    <3>2. RemoveRefuses(Tables, e)
      BY <1>3, <3>1, AtTables DEF RemoveRefuses
    <3> QED
      BY <3>2 DEF MayRefuse
  <2>3. e = "OK" => MayRun(RemoveStmts(d, n, c, isDir))
    BY <1>3, RemoveRuns DEF TInv, TxTypes
  <2> QED
    BY <2>1, <2>2, <2>3, StartStep
<1> QED
  BY <1>1, <1>2, <1>3 DEF TxRemove

LEMMA RenameStep ==
    ASSUME TInv, RInv,
           NEW d \in Ino, NEW e \in Ino, NEW n \in RowNames, NEW m \in RowNames,
           NotRemoved(e), MakesNoCycle(d, n, e), TxRename(d, n, e, m)
    PROVE  RInv' /\ BaseStep
<1>1. CASE ReturnNow("EINVAL")
  BY <1>1, ReturnNowStep
<1>2. CASE /\ RenameParentsErr(d, n, e, m) # "OK"
           /\ Start(RenameParentsErr(d, n, e, m), <<>>)
  <2> DEFINE x == RenameParentsErr(d, n, e, m)
  <2>1. RenameRefuses(Tables, x, NoIno)
    BY AtTables DEF RenameRefuses
  <2>2. MayRefuse(Tables, x, NoIno)
    BY <1>2, <2>1 DEF MayRefuse
  <2> QED
    BY <1>2, <2>2, StartStep
<1>3. CASE /\ RenameParentsErr(d, n, e, m) = "OK"
           /\ \E r \in Joined(d, n) : Start("OK", RenameStmts(d, n, e, m, r))
  <2>1. PICK r \in Joined(d, n) : Start("OK", RenameStmts(d, n, e, m, r))
    BY <1>3
  <2>2. MayRun(RenameStmts(d, n, e, m, r))
    BY <1>3, RenameRuns DEF TInv, TxTypes, RInv, KeysHold
  <2> QED
    BY <2>1, <2>2, StartStep
<1> QED
  BY <1>1, <1>2, <1>3 DEF TxRename

LEMMA MaintainStep ==
    ASSUME TInv, RInv,
           \/ \E i \in Ino : TxPurge(i)
           \/ TxPurgeAll
           \/ \E i \in Ino, b \in BOOLEAN : TxSetSize(i, b)
    PROVE  RInv' /\ BaseStep
<1>1. ASSUME NEW e, MaintainRefuses(Tables, e), e # "OK"
      PROVE  MayRefuse(Tables, e, NoIno)
  BY <1>1 DEF MayRefuse
<1>2. ASSUME NEW i \in Ino, TxPurge(i)
      PROVE  RInv' /\ BaseStep
  <2>1. CASE i \notin DOMAIN meta /\ Start("ENOENT", <<>>)
    <3>1. MaintainRefuses(Tables, "ENOENT")
      BY <2>1, AtTables DEF MaintainRefuses
    <3> QED
      BY <1>1, <2>1, <3>1, StartStep
  <2>2. CASE i \in DOMAIN meta /\ Start("OK", PurgeStmts(i))
    BY <2>2, PurgeRuns, StartStep
  <2> QED
    BY <1>2, <2>1, <2>2 DEF TxPurge
<1>3. CASE TxPurgeAll
  <2>1. MayRun(<<NextUnlinked(0)>>)
    BY PurgeAllRuns DEF TInv, TxTypes
  <2> QED
    BY <1>3, <2>1, StartStep DEF TxPurgeAll
<1>4. ASSUME NEW i \in Ino, NEW b \in BOOLEAN, TxSetSize(i, b)
      PROVE  RInv' /\ BaseStep
  <2> DEFINE e == SetSizeErr(i)
             stmts == <<Data(i, b), TouchMeta(i)>>
  <2>1. e # "OK" => MayRefuse(Tables, e, NoIno)
    <3>1. MaintainRefuses(Tables, e)
      BY AtTables DEF MaintainRefuses
    <3> QED
      BY <1>1, <3>1
  <2>2. e = "OK" => MayRun(stmts)
    BY SetSizeRuns
  <2>3. Start(e, stmts)
    BY <1>4 DEF TxSetSize
  <2> HIDE DEF e, stmts
  <2> QED
    BY <2>1, <2>2, <2>3, StartStep
<1> QED
  BY <1>2, <1>3, <1>4

-----------------------------------------------------------------------------
(* The refinement: calls go on *)

LEMMA PointIs ==
    \A t, o, e : Point(t, o, e).t = t /\ Point(t, o, e).out = o /\ Point(t, o, e).err = e
  BY DEF Point

LEMMA NextIs ==
    ASSUME NEW s \in Statements, s.op = "next"
    PROVE  s.after \in Int /\ s = NextUnlinked(s.after)
<1>1. s \in [op : {"next"}, after : Ino \cup {0}]
  BY DEF Statements
<1>2. s.after \in Ino \cup {0} /\ s = [op |-> s.op, after |-> s.after]
  BY <1>1
<1> QED
  BY <1>2 DEF NextUnlinked, Ino

\* A statement of a call that runs, and what is left after it.
LEMMA NextStatement ==
    ASSUME TInv, RInv, call = "run", todo # <<>>
    PROVE  /\ Head(todo) \in Statements /\ Tail(todo) \in Seq(Statements)
           /\ MayRefuse(Committed, "EIO", out)
           /\ \E R, F : /\ Runs(Committed, Head(todo), Point(Tables, out, "OK"), R)
                        /\ Leads(Committed, Tail(todo), R, F)
                        /\ Ends(Committed, F)
<1>1. todo \in Seq(Statements)
  BY DEF TInv, Paired, RestGood
<1>2. PICK F : Leads(Committed, todo, Point(Tables, out, "OK"), F) /\ Ends(Committed, F)
  BY DEF RInv, WillEnd
<1>3. PICK R : /\ Runs(Committed, Head(todo), Point(Tables, out, "OK"), R)
               /\ Leads(Committed, Tail(todo), R, F)
  BY <1>1, <1>2, LeadsTail
<1>4. MayRefuse(Committed, "EIO", out)
  BY <1>3, PointIs DEF Runs
<1> QED
  BY <1>1, <1>2, <1>3, <1>4

LEMMA PointAfter ==
    ASSUME NEW s, NEW o, s.op # "next"
    PROVE  DoneAt(s, Point(Tables, o, "OK")) =
             IF StmtErr(s) # "OK" THEN Point(Tables, o, StmtErr(s))
             ELSE Point(After(s), IF s.op = "out" THEN s.ino ELSE o, "OK")
  BY AtStatement, PointIs DEF DoneAt

LEMMA RunStep ==
    ASSUME TInv, TInv', RInv, Run
    PROVE  RInv' /\ BaseStep
<1> DEFINE s == Head(todo)
           S == Point(Tables, out, "OK")
<1>1. /\ call = "run" /\ todo # <<>> /\ StmtErr(s) = "OK" /\ SetTables(After(s))
      /\ todo' = (IF s.op = "next" THEN TurnStmts(s.after) ELSE <<>>) \o Tail(todo)
      /\ out' = (IF s.op = "out" THEN s.ino ELSE out)
      /\ stack' = CASE s.op = "savepoint" -> Append(stack, Tables)
                    [] s.op = "release" -> SubSeq(stack, 1, Len(stack) - 1)
                    [] OTHER -> stack
      /\ call' = "run" /\ UNCHANGED <<err, res>>
  BY DEF Run
<1>2. PICK R, F : /\ Runs(Committed, s, S, R)
                  /\ Leads(Committed, Tail(todo), R, F) /\ Ends(Committed, F)
  BY <1>1, NextStatement
<1>3. /\ s \in Statements /\ Tail(todo) \in Seq(Statements)
      /\ MayRefuse(Committed, "EIO", out)
  BY <1>1, NextStatement
<1>4. /\ Tables \in Saved /\ stack \in Seq(Saved) /\ Len(stack) \in {1, 2}
      /\ stack # <<>>
  BY <1>1 DEF TInv, TxTypes, Paired
<1>5. stack' # <<>> /\ Len(stack') \in {1, 2}
  <2>1. call' = "run"
    BY <1>1
  <2>2. Len(stack') \in 0..2 /\ Len(stack') # 0
    BY <2>1 DEF TInv, Paired
  <2> QED
    BY <2>2
<1> HIDE DEF s
<1>6. Tables' = After(s)
  BY <1>1, <1>3, <1>4, AfterTyped, TablesSet
<1>7. \A k \in 1..Len(stack') : stack'[k] = Tables \/ \E j \in 1..Len(stack) : stack'[k] = stack[j]
  <2>1. CASE s.op = "savepoint"
    <3>1. stack' = Append(stack, Tables)
      BY <1>1, <2>1
    <3> QED
      BY <3>1, <1>4
  <2>2. CASE s.op = "release"
    <3>1. stack' = SubSeq(stack, 1, Len(stack) - 1)
      BY <1>1, <2>2
    <3>2. /\ Len(stack') = Len(stack) - 1
          /\ \A i \in 1..(Len(stack) - 1) : stack'[i] = stack[i]
      BY <1>4, <3>1, PoppedStack
    <3> QED
      BY <1>4, <3>2
  <2>3. CASE s.op \notin {"savepoint", "release"}
    BY <1>1, <2>3
  <2> QED
    BY <2>1, <2>2, <2>3
<1>8. stack'[1] = stack[1]
  <2>1. CASE s.op = "savepoint"
    <3>1. stack' = Append(stack, Tables)
      BY <1>1, <2>1
    <3> QED
      BY <3>1, <1>4
  <2>2. CASE s.op = "release"
    <3>1. stack' = SubSeq(stack, 1, Len(stack) - 1)
      BY <1>1, <2>2
    <3>2. /\ Len(stack') = Len(stack) - 1
          /\ \A i \in 1..(Len(stack) - 1) : stack'[i] = stack[i]
      BY <1>4, <3>1, PoppedStack
    <3> QED
      BY <1>4, <1>5, <3>2
  <2>3. CASE s.op \notin {"savepoint", "release"}
    BY <1>1, <2>3
  <2> QED
    BY <2>1, <2>2, <2>3
<1>9. Committed' = Committed
  BY <1>4, <1>5, <1>8, CommittedKept
<1>10. BaseStep
  BY <1>1, <1>9, BaseStutters
<1>11. KeysHold'
  <2>1. Keyed(After(s).rows)
    BY <1>1, <1>3, <1>4, KeyedAfter DEF RInv, KeysHold
  <2>2. Keyed(rows')
    BY <1>1, <2>1 DEF SetTables
  <2>3. Keyed(Tables.rows)
    BY AtTables DEF RInv, KeysHold
  <2>4. \A k \in 1..Len(stack) : Keyed(stack[k].rows)
    BY DEF RInv, KeysHold
  <2>5. \A k \in 1..Len(stack') : Keyed(stack'[k].rows)
    BY <1>7, <2>3, <2>4
  <2> QED
    BY <2>2, <2>5 DEF KeysHold
<1>12. Leads(Committed, todo', Point(Tables', out', "OK"), F)
  <2>1. CASE s.op = "next"
    <3>1. s.after \in Int /\ s = NextUnlinked(s.after)
      BY <1>3, <2>1, NextIs
    <3>2. Tables' = Tables /\ out' = out
      BY <1>1, <1>6, <2>1 DEF After
    <3>3. todo' = TurnStmts(s.after) \o Tail(todo)
      BY <1>1, <2>1
    <3>4. TurnStmts(s.after) \in Seq(Statements)
      BY <1>4, TablesSaved, TurnRest DEF RestGood
    <3>5. Leads(Committed, TurnStmts(s.after), S, R)
      <4>1. Now(out) = S
        BY NowIs
      <4>2. R = DoneAt(NextUnlinked(s.after), S)
        BY <1>2, <3>1 DEF Runs
      <4> QED
        BY <1>3, <1>4, <3>1, <4>1, <4>2, TurnLeads
    <3> HIDE DEF S
    <3>6. Leads(Committed, TurnStmts(s.after) \o Tail(todo), S, F)
      BY <1>2, <1>3, <3>4, <3>5, LeadsThen
    <3> QED
      BY <3>2, <3>3, <3>6 DEF S
  <2>2. CASE s.op # "next"
    <3>1. todo' = <<>> \o Tail(todo) /\ <<>> \o Tail(todo) = Tail(todo)
      BY <1>1, <1>3, <2>2
    <3>2. R = Point(After(s), IF s.op = "out" THEN s.ino ELSE out, "OK")
      BY <1>1, <1>2, <2>2, PointAfter DEF Runs
    <3> QED
      BY <1>1, <1>2, <1>6, <3>1, <3>2
  <2> QED
    BY <2>1, <2>2
<1>13. WillEnd'
  BY <1>2, <1>9, <1>12 DEF WillEnd
<1>14. RInv'
  BY <1>1, <1>11, <1>13 DEF RInv
<1> QED
  BY <1>10, <1>14

LEMMA RunFailsStep ==
    ASSUME TInv, RInv, RunFails
    PROVE  RInv' /\ BaseStep
<1> DEFINE s == Head(todo)
           S == Point(Tables, out, "OK")
<1>1. /\ call = "run" /\ todo # <<>> /\ call' = "unwind" /\ UNCHANGED <<out, res>>
      /\ IF StmtErr(s) = "OK" THEN err' = "EIO" ELSE err' = StmtErr(s)
      /\ \/ UNCHANGED <<meta, rows, filedata, stack>>
         \/ SetTables(Committed) /\ stack' = <<>>
  BY DEF RunFails
<1>2. PICK R, F : Runs(Committed, s, S, R) /\ Leads(Committed, Tail(todo), R, F)
  BY <1>1, NextStatement
<1>3. s \in Statements /\ MayRefuse(Committed, "EIO", out)
  BY <1>1, NextStatement
<1>4. Tables \in Saved /\ Committed \in Saved
  BY CommittedSaved DEF TInv, TxTypes
<1> HIDE DEF s
<1>5. MayRefuse(Committed, err', out)
  <2>1. CASE StmtErr(s) = "OK"
    BY <1>1, <1>3, <2>1
  <2>2. CASE StmtErr(s) # "OK"
    <3>1. s.op # "next"
      BY <2>2 DEF StmtErr
    <3>2. R = Point(Tables, out, StmtErr(s))
      BY <1>2, <2>2, <3>1, PointAfter DEF Runs
    <3>3. MayRefuse(Committed, StmtErr(s), out)
      BY <1>2, <2>2, <3>2, PointIs DEF Runs
    <3> QED
      BY <1>1, <2>2, <3>3
  <2> QED
    BY <2>1, <2>2
<1>6. Committed' = Committed /\ KeysHold'
  <2>1. CASE UNCHANGED <<meta, rows, filedata, stack>>
    BY <2>1 DEF Committed, Tables, RInv, KeysHold
  <2>2. CASE SetTables(Committed) /\ stack' = <<>>
    <3>1. Tables' = Committed
      BY <1>4, <2>2, TablesSet
    <3>2. Committed' = Committed
      BY <2>2, <3>1 DEF Committed
    <3>3. Keyed(Committed.rows)
      <4>1. stack # <<>> /\ stack \in Seq(Saved)
        BY <1>1 DEF TInv, TxTypes, Paired
      <4>2. 1 \in 1..Len(stack)
        BY <4>1
      <4> QED
        BY <4>1, <4>2 DEF Committed, RInv, KeysHold
    <3>4. Keyed(rows')
      BY <2>2, <3>3 DEF SetTables
    <3>5. 1..Len(stack') = {}
      BY <2>2
    <3> QED
      BY <3>2, <3>4, <3>5 DEF KeysHold
  <2> QED
    BY <1>1, <2>1, <2>2
<1>7. MayRefuse(Committed, err, out)'
  BY <1>1, <1>5, <1>6
<1>8. RInv'
  BY <1>1, <1>6, <1>7 DEF RInv
<1> QED
  BY <1>1, <1>6, <1>8, BaseStutters

\* The tables of the database have their key.
LEMMA CommittedKeyed ==
    ASSUME TInv, RInv
    PROVE  Keyed(Committed.rows)
<1>1. CASE stack = <<>>
  BY <1>1, AtTables DEF Committed, RInv, KeysHold
<1>2. CASE stack # <<>>
  <2>1. 1 \in 1..Len(stack)
    BY <1>2 DEF TInv, TxTypes
  <2> QED
    BY <1>2, <2>1 DEF Committed, RInv, KeysHold
<1> QED
  BY <1>1, <1>2

LEMMA UnwindStep ==
    ASSUME TInv, TInv', RInv, Unwind
    PROVE  RInv' /\ BaseStep
<1>1. /\ call = "unwind" /\ stack # <<>> /\ SetTables(stack[Len(stack)])
      /\ stack' = SubSeq(stack, 1, Len(stack) - 1)
      /\ IF Len(stack) > 1 THEN UNCHANGED <<call, res, err, out>> ELSE Return(err)
  BY DEF Unwind
<1>2. stack \in Seq(Saved) /\ Len(stack) \in {1, 2}
  BY <1>1 DEF TInv, TxTypes, Paired
<1>3. /\ Len(stack') = Len(stack) - 1
      /\ \A i \in 1..(Len(stack) - 1) : stack'[i] = stack[i]
  BY <1>1, <1>2, PoppedStack
<1>4. MayRefuse(Committed, err, out)
  BY <1>1 DEF RInv
<1>5. KeysHold'
  <2>1. \A k \in 1..Len(stack) : Keyed(stack[k].rows)
    BY DEF RInv, KeysHold
  <2>2. Keyed(rows')
    BY <1>1, <1>2, <2>1 DEF SetTables
  <2>3. \A k \in 1..Len(stack') : Keyed(stack'[k].rows)
    BY <1>2, <1>3, <2>1
  <2> QED
    BY <2>2, <2>3 DEF KeysHold
<1>6. CASE Len(stack) = 2
  <2>1. stack' # <<>> /\ stack'[1] = stack[1]
    BY <1>3, <1>6
  <2>2. Committed' = Committed
    BY <1>1, <2>1, CommittedKept
  <2>3. UNCHANGED <<call, res, err, out>>
    BY <1>1, <1>6
  <2>4. MayRefuse(Committed, err, out)'
    BY <1>4, <2>2, <2>3
  <2>5. RInv'
    BY <1>1, <1>5, <2>3, <2>4 DEF RInv
  <2> QED
    BY <2>2, <2>3, <2>5, BaseStutters
<1>7. CASE Len(stack) = 1
  <2>1. /\ call' = "idle" /\ res' = [err |-> err, ino |-> out]
    BY <1>1, <1>7 DEF Return, Result
  <2>2. stack' = <<>>
    BY <2>1 DEF TInv, Paired
  <2>3. Tables' = stack[1] /\ Committed = stack[1]
    <3>1. stack[1] \in Saved /\ SetTables(stack[1])
      BY <1>1, <1>2, <1>7
    <3> QED
      BY <1>1, <3>1, TablesSet DEF Committed
  <2>4. Committed' = Committed
    BY <2>2, <2>3 DEF Committed
  <2>5. Base!Next
    BY <1>4, <2>1, <2>4, BaseRefuses
  <2>6. RInv'
    BY <1>5, <2>1 DEF RInv
  <2> QED
    BY <2>5, <2>6 DEF BaseStep
<1> QED
  BY <1>2, <1>6, <1>7

LEMMA CommitStep ==
    ASSUME TInv, TInv', RInv, Commit
    PROVE  RInv' /\ BaseStep
<1>1. /\ call = "run" /\ todo = <<>>
      /\ call' = "idle" /\ res' = [err |-> "OK", ino |-> out]
      /\ UNCHANGED <<meta, rows, filedata>>
  BY DEF Commit, Return, Result
<1>2. stack' = <<>>
  BY <1>1 DEF TInv, Paired
<1>3. Committed' = Tables
  BY <1>1, <1>2 DEF Committed, Tables
<1>4. MayDo(Committed, Tables, out)
  <2>1. PICK F : Leads(Committed, todo, Point(Tables, out, "OK"), F) /\ Ends(Committed, F)
    BY <1>1 DEF RInv, WillEnd
  <2>2. F = Point(Tables, out, "OK")
    BY <1>1, <2>1, LeadsNowhere
  <2> QED
    BY <2>1, <2>2, PointIs DEF Ends
<1>5. MayDo(Committed, Committed', out)
  BY <1>3, <1>4
<1>6. Base!Next
  BY <1>1, <1>5, CommittedSaved, BaseDoes
<1>7. RInv'
  <2>1. Keyed(rows')
    BY <1>1 DEF RInv, KeysHold
  <2>2. 1..Len(stack') = {}
    BY <1>2
  <2> QED
    BY <1>1, <2>1, <2>2 DEF RInv, KeysHold
<1> QED
  BY <1>6, <1>7 DEF BaseStep

LEMMA RestartStep ==
    ASSUME TInv, RInv, Restart
    PROVE  RInv' /\ BaseStep
<1>1. SetTables(Committed) /\ stack' = <<>> /\ call' = "idle" /\ res' = res
  BY DEF Restart
<1>2. Committed' = Committed
  BY <1>1, CommittedSaved, TablesSet DEF Committed
<1>3. Keyed(rows')
  BY <1>1, CommittedKeyed DEF SetTables
<1>4. 1..Len(stack') = {}
  BY <1>1
<1>5. RInv'
  BY <1>1, <1>3, <1>4 DEF RInv, KeysHold
<1> QED
  BY <1>1, <1>2, <1>5, BaseStutters

\* A CHECK fails, or nothing happens.
LEMMA NothingStep ==
    ASSUME TInv, RInv, UnwindFails \/ CommitFails \/ UNCHANGED allVars
    PROVE  RInv' /\ BaseStep
<1>1. /\ UNCHANGED <<meta, rows, filedata, res, stack, todo, err, out>>
      /\ call' \in {call, "rollback_failed", "commit_failed"}
  BY DEF UnwindFails, CommitFails, allVars, vars, txVars
<1>2. Committed' = Committed /\ Tables' = Tables
  BY <1>1 DEF Committed, Tables
<1>3. KeysHold'
  BY <1>1 DEF RInv, KeysHold
<1>4. (call' = "run" => call = "run") /\ (call' = "unwind" => call = "unwind")
  BY <1>1
<1>5. WillEnd' = WillEnd
  BY <1>1, <1>2 DEF WillEnd
<1>6. MayRefuse(Committed, err, out)' = MayRefuse(Committed, err, out)
  BY <1>1, <1>2
<1>7. RInv'
  BY <1>3, <1>4, <1>5, <1>6 DEF RInv
<1> QED
  BY <1>1, <1>2, <1>7, BaseStutters

-----------------------------------------------------------------------------
(* The refinement of Sqlfs *)

LEMMA InitOfBase == TxInit => RInv /\ Base!Init
<1> SUFFICES ASSUME TxInit PROVE RInv /\ Base!Init
  OBVIOUS
<1>1. /\ meta = [i \in {Root} |-> [type |-> "dir", nlink |-> 1]]
      /\ rows = {Row(Root, "", Root, "dir")} /\ filedata = {}
      /\ res = [err |-> "OK", ino |-> NoIno]
      /\ call = "idle" /\ stack = <<>>
  BY DEF TxInit, Init
<1>2. Committed.meta = meta /\ Committed.rows = rows /\ Committed.data = filedata
  BY <1>1, AtTables DEF Committed
<1>3. Base!Init
  BY <1>1, <1>2 DEF Base!Init, Base!Root, Root, Base!NoIno, NoIno, Base!Row, Row
<1>4. Keyed(rows)
  BY <1>1 DEF Keyed
<1>5. 1..Len(stack) = {}
  <2>1. stack = <<>>
    BY <1>1
  <2> QED
    BY <2>1
<1>6. RInv
  BY <1>1, <1>4, <1>5 DEF RInv, KeysHold
<1> QED
  BY <1>3, <1>6

LEMMA NextOfBase == TInv /\ RInv /\ [TxNext]_allVars => RInv' /\ BaseStep
<1> SUFFICES ASSUME TInv, RInv, [TxNext]_allVars
             PROVE  RInv' /\ BaseStep
  OBVIOUS
<1>0. TInv'
  BY TxNextInv
<1>1. ASSUME NEW d \in Ino, NEW n \in AnyName, NotRemoved(d), TxMkdir(d, n) \/ TxMknod(d, n)
      PROVE  RInv' /\ BaseStep
  BY <1>1, CreateStep
<1>2. ASSUME NEW d \in Ino, NEW n \in AnyName, NEW isDir \in BOOLEAN,
             TxRemove(d, n, isDir)
      PROVE  RInv' /\ BaseStep
  BY <1>2, RemoveStep
<1>3. ASSUME NEW d \in Ino, NEW e \in Ino, NEW n \in RowNames, NEW m \in RowNames,
             NotRemoved(e), MakesNoCycle(d, n, e), TxRename(d, n, e, m)
      PROVE  RInv' /\ BaseStep
  BY <1>3, RenameStep
<1>4. CASE \/ \E i \in Ino : TxPurge(i)
           \/ TxPurgeAll
           \/ \E i \in Ino, b \in BOOLEAN : TxSetSize(i, b)
  BY <1>4, MaintainStep
<1>5. CASE Proceed
  BY <1>0, <1>5, RunStep, RunFailsStep, UnwindStep, CommitStep, NothingStep DEF Proceed
<1>6. CASE Restart
  BY <1>6, RestartStep
<1>7. CASE UNCHANGED allVars
  BY <1>7, NothingStep
<1> QED
  BY <1>1, <1>2, <1>3, <1>4, <1>5, <1>6, <1>7 DEF TxNext

\* Statement by statement, with nested calls and statements that fail, SQLite ending
\* the transaction, and the process dying anywhere, what is in the database changes
\* only by whole calls of Sqlfs, each at its commit, and each call returns what it did.
THEOREM TxImplementsSqlfs == TxSpec => ImplementsSqlfs
<1>1. TxInit => TInv /\ RInv /\ Base!Init
  BY TxInitInv, InitOfBase
<1>2. TInv /\ RInv /\ [TxNext]_allVars => TInv' /\ RInv' /\ [Base!Next]_(Base!vars)
  BY TxNextInv, NextOfBase DEF BaseStep
<1> QED
  BY <1>1, <1>2, PTL DEF TxSpec, ImplementsSqlfs, Base!Spec
=============================================================================
