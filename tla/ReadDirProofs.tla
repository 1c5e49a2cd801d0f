--------------------------- MODULE ReadDirProofs ---------------------------
(***************************************************************************)
(* The safety of directory listings, for any number of names and any       *)
(* buffer sizes. The inductive invariant says how far a listing has come:  *)
(* what has been listed lies below the name that is saved for the next     *)
(* call, and what was there all along below that name has been listed.     *)
(***************************************************************************)
EXTENDS ReadDir, FiniteSetTheorems, SequenceTheorems, TLAPS

Listed == ToSet(reply) \cup before

\* The reader has more calls to make, from the beginning or from a saved name.
GoesOn ==
    status = "open" /\ ~handle.atEnd =>
        /\ handle.next = NoName => Listed = {}
        /\ handle.next # NoName =>
              /\ \A n \in Listed : n < handle.next
              /\ ~cut => \A n \in stable : n < handle.next => n \in Listed

\* The end has been reported, or will be by the next call.
CameToEnd ==
    (status = "done" \/ (status = "open" /\ handle.atEnd)) /\ ~cut
        => stable \subseteq Listed

ReplyIsSeq == reply \in Seq(Names \cup {Dot, DotDot})

RInv == TypeOK /\ ReplyIsSeq /\ NoEntryTwice /\ GoesOn /\ CameToEnd

-----------------------------------------------------------------------------
(* Rows in the order of their names *)

\* A greater name has a greater rank.
LEMMA RankRises ==
    ASSUME NEW S \in SUBSET Int, IsFiniteSet(S), NEW x \in S, NEW y \in S
    PROVE  /\ Rank(S, x) \in 1..Cardinality(S)
           /\ x < y => Rank(S, x) < Rank(S, y)
<1> DEFINE X == {z \in S : z <= x}
           Y == {z \in S : z <= y}
<1>1. /\ IsFiniteSet(X) /\ Cardinality(X) <= Cardinality(S)
      /\ Cardinality(X) \in Nat /\ Cardinality(S) \in Nat
  BY FS_Subset, FS_CardinalityType
<1>2. Cardinality(X) # 0
  <2>1. x \in X
    OBVIOUS
  <2> QED
    BY <1>1, <2>1, FS_EmptySet
<1>3. ASSUME x < y
      PROVE  Cardinality(X) < Cardinality(Y)
  <2>1. IsFiniteSet(Y) /\ Cardinality(Y) \in Nat
    BY FS_Subset, FS_CardinalityType
  <2>2. X \in SUBSET Y /\ y \in Y /\ y \notin X
    <3>1. x \in Int /\ y \in Int /\ \A z \in S : z \in Int
      OBVIOUS
    <3>2. \A z \in S : z <= x => z <= y
      BY <1>3, <3>1
    <3>3. y <= y /\ ~(y <= x)
      BY <1>3, <3>1
    <3>4. X \subseteq Y
      BY <3>2
    <3> QED
      BY <3>3, <3>4
  <2> HIDE DEF X, Y
  <2>3. Cardinality(X) <= Cardinality(Y) /\ Cardinality(X) # Cardinality(Y)
    BY <2>1, <2>2, FS_Subset
  <2> QED
    BY <1>1, <2>1, <2>3
<1> QED
  BY <1>1, <1>2, <1>3 DEF Rank

\* Every rank is that of some name.
LEMMA RankHits ==
    ASSUME NEW S \in SUBSET Int, IsFiniteSet(S), NEW k \in 1..Cardinality(S)
    PROVE  \E x \in S : Rank(S, x) = k
<1> DEFINE T == 1..Cardinality(S)
           f == [x \in S |-> Rank(S, x)]
<1>1. Cardinality(S) \in Nat
  BY FS_CardinalityType
<1>2. IsFiniteSet(T) /\ Cardinality(T) = Cardinality(S)
  BY <1>1, FS_Interval
<1>3. f \in Injection(S, T)
  <2>1. f \in [S -> T]
    BY RankRises
  <2>2. \A x, y \in S : f[x] = f[y] => x = y
    <3> SUFFICES ASSUME NEW x \in S, NEW y \in S, x # y
                 PROVE  f[x] # f[y]
      OBVIOUS
    <3>1. /\ Rank(S, x) \in Int /\ Rank(S, y) \in Int
          /\ x < y => Rank(S, x) < Rank(S, y)
          /\ y < x => Rank(S, y) < Rank(S, x)
      BY <1>1, RankRises
    <3> QED
      BY <3>1
  <2> QED
    BY <2>1, <2>2 DEF Injection, IsInjective
<1> HIDE DEF f, T
<1>4. f \in Surjection(S, T)
  BY <1>2, <1>3, FS_Injection
<1>5. PICK x \in S : f[x] = k
  BY <1>4 DEF Surjection, T
<1> QED
  BY <1>5 DEF f

\* The rows come in the order of their names, each of them once.
LEMMA OrderedRows ==
    ASSUME NEW S \in SUBSET Int, IsFiniteSet(S)
    PROVE  /\ Ordered(S) \in Seq(S) /\ Len(Ordered(S)) = Cardinality(S)
           /\ \A j, k \in 1..Cardinality(S) :
                 j < k => Ordered(S)[j] < Ordered(S)[k]
           /\ \A x \in S : \E k \in 1..Cardinality(S) : Ordered(S)[k] = x
<1>1. Cardinality(S) \in Nat
  BY FS_CardinalityType
<1>2. \A k \in 1..Cardinality(S) : Ordered(S)[k] \in S /\ Rank(S, Ordered(S)[k]) = k
  BY RankHits DEF Ordered
<1>3. Ordered(S) \in Seq(S) /\ Len(Ordered(S)) = Cardinality(S)
  <2>1. Ordered(S) = [k \in 1..Cardinality(S) |-> Ordered(S)[k]]
    BY DEF Ordered
  <2> QED
    BY <1>1, <1>2, <2>1
<1>4. ASSUME NEW j \in 1..Cardinality(S), NEW k \in 1..Cardinality(S), j < k
      PROVE  Ordered(S)[j] < Ordered(S)[k]
  <2> DEFINE x == Ordered(S)[j]
             y == Ordered(S)[k]
  <2>1. x \in S /\ y \in S /\ Rank(S, x) = j /\ Rank(S, y) = k
    BY <1>2
  <2> HIDE DEF x, y
  <2>2. ~(y < x)
    BY <1>1, <1>4, <2>1, RankRises
  <2>3. x # y
    BY <1>4, <2>1
  <2>4. x < y
    BY <2>1, <2>2, <2>3
  <2> QED
    BY <2>4 DEF x, y
<1>5. ASSUME NEW x \in S
      PROVE  \E k \in 1..Cardinality(S) : Ordered(S)[k] = x
  <2>1. Rank(S, x) \in 1..Cardinality(S)
    BY RankRises
  <2> DEFINE y == Ordered(S)[Rank(S, x)]
  <2>2. y \in S /\ Rank(S, y) = Rank(S, x)
    BY <1>2, <2>1
  <2> HIDE DEF y
  <2>3. x = y
    <3>1. /\ x < y => Rank(S, x) < Rank(S, y)
          /\ y < x => Rank(S, y) < Rank(S, x)
      BY <2>2, RankRises
    <3> QED
      BY <1>1, <2>1, <2>2, <3>1
  <2> QED
    BY <2>1, <2>3 DEF y
<1> QED
  BY <1>3, <1>4, <1>5
-----------------------------------------------------------------------------
(* One call of readdir *)

\* The first k elements of a sequence.
LEMMA PrefixIs ==
    ASSUME NEW S, NEW s \in Seq(S), NEW k \in Nat
    PROVE  /\ Prefix(s, k) \in Seq(S)
           /\ Len(Prefix(s, k)) = (IF k < Len(s) THEN k ELSE Len(s))
           /\ \A j \in 1..Len(Prefix(s, k)) : Prefix(s, k)[j] = s[j]
<1> DEFINE n == IF k < Len(s) THEN k ELSE Len(s)
<1>1. n \in Nat /\ n <= Len(s)
  OBVIOUS
<1>2. \A j \in 1..n : s[j] \in S
  BY <1>1
<1> HIDE DEF n
<1>3. /\ SubSeq(s, 1, n) \in Seq(S) /\ Len(SubSeq(s, 1, n)) = n
      /\ \A j \in 1..n : SubSeq(s, 1, n)[j] = s[j]
  BY <1>1, <1>2, SubSeqProperties
<1> QED
  BY <1>1, <1>3 DEF Prefix, n

\* The directory has no more rows than there are names.
LEMMA CursorIs ==
    ASSUME TypeOK, NEW next \in Int
    PROVE  LET S == {n \in present : n >= next}
           IN  /\ S \in SUBSET Int /\ IsFiniteSet(S)
               /\ CursorRows(next) = Ordered(S)
<1>1. IsFiniteSet(0..MaxName)
  BY MaxNameAssumption, FS_Interval
<1>2. present \subseteq 0..MaxName
  BY MaxNameAssumption DEF TypeOK, Names, DotDot
<1>3. \A S \in SUBSET present : IsFiniteSet(S) /\ S \in SUBSET Int
  <2> SUFFICES ASSUME NEW S \in SUBSET present
               PROVE  IsFiniteSet(S) /\ S \in SUBSET Int
    OBVIOUS
  <2>1. S \in SUBSET (0..MaxName)
    BY <1>2
  <2>2. IsFiniteSet(S)
    BY <1>1, <2>1, FS_Subset
  <2> QED
    BY <2>1, <2>2
<1> QED
  BY <1>3 DEF CursorRows

\* What a call fills in, of the rows S that its cursor is to yield, k of which it
\* yields before it ends or fails, into a buffer with room for some: names in
\* order; if one does not fit, it lies behind all those filled in, with none left
\* out in between; otherwise, unless the cursor failed, none is left out at all.
BatchGood(S, k, room, found, out) ==
    /\ found \in Seq(S) /\ out \in Seq(S)
    /\ Len(found) = k
    /\ \A i, j \in 1..Len(out) : i < j => out[i] < out[j]
    /\ Len(found) > room =>
          /\ found[room + 1] \in S
          /\ \A n \in ToSet(out) : n < found[room + 1]
          /\ \A n \in S : n < found[room + 1] => n \in ToSet(out)
    /\ Len(found) <= room /\ k = Len(Ordered(S)) => S = ToSet(out)
    /\ ToSet(out) \subseteq S

\* One call does so.
LEMMA OneBatch ==
    ASSUME NEW S \in SUBSET Int, IsFiniteSet(S),
           NEW k \in 0..Len(Ordered(S)), NEW room \in Nat,
           NEW found, found = Prefix(Ordered(S), k),
           NEW out, out = Prefix(found, room)
    PROVE  BatchGood(S, k, room, found, out)
<1> DEFINE all == Ordered(S)
<1>1. /\ all \in Seq(S) /\ Len(all) = Cardinality(S) /\ Cardinality(S) \in Nat
      /\ \A i, j \in 1..Cardinality(S) : i < j => all[i] < all[j]
      /\ \A x \in S : \E i \in 1..Cardinality(S) : all[i] = x
  BY OrderedRows, FS_CardinalityType
<1>2. found = Prefix(all, k) /\ k \in 0..Len(all)
  OBVIOUS
<1> HIDE DEF all
<1>3. /\ found \in Seq(S) /\ Len(found) = k
      /\ \A j \in 1..k : found[j] = all[j]
  <2>1. /\ Prefix(all, k) \in Seq(S)
        /\ Len(Prefix(all, k)) = (IF k < Len(all) THEN k ELSE Len(all))
        /\ \A j \in 1..Len(Prefix(all, k)) : Prefix(all, k)[j] = all[j]
    BY <1>1, <1>2, PrefixIs
  <2> QED
    BY <1>1, <1>2, <2>1
<1>4. /\ out \in Seq(S) /\ Len(out) = (IF room < k THEN room ELSE k)
      /\ \A j \in 1..Len(out) : out[j] = all[j]
  <2>1. /\ out \in Seq(S) /\ Len(out) = (IF room < k THEN room ELSE k)
        /\ \A j \in 1..Len(out) : out[j] = found[j]
    BY <1>3, PrefixIs
  <2> QED
    BY <1>1, <1>2, <1>3, <2>1
<1>5. \A i, j \in 1..Len(out) : i < j => out[i] < out[j]
  BY <1>1, <1>2, <1>4
<1>6. \A j \in 1..Len(out) : all[j] \in ToSet(out)
  BY <1>4 DEF ToSet
<1>7. \A n \in ToSet(out) : \E j \in 1..Len(out) : n = all[j]
  BY <1>4 DEF ToSet
<1>8. ToSet(out) \subseteq S
  BY <1>4, <1>7
<1>9. ASSUME Len(found) > room
      PROVE  /\ found[room + 1] \in S
             /\ \A n \in ToSet(out) : n < found[room + 1]
             /\ \A n \in S : n < found[room + 1] => n \in ToSet(out)
  <2>1. room + 1 \in 1..k /\ room + 1 \in 1..Cardinality(S) /\ Len(out) = room
    BY <1>1, <1>2, <1>3, <1>4, <1>9
  <2>2. found[room + 1] = all[room + 1] /\ found[room + 1] \in S
    BY <1>3, <2>1
  <2>3. \A n \in ToSet(out) : n < all[room + 1]
    <3> SUFFICES ASSUME NEW j \in 1..Len(out)
                 PROVE  all[j] < all[room + 1]
      BY <1>7
    <3>1. j \in 1..Cardinality(S) /\ j < room + 1
      BY <1>1, <2>1
    <3> QED
      BY <1>1, <2>1, <3>1
  <2>4. ASSUME NEW n \in S, n < all[room + 1]
        PROVE  n \in ToSet(out)
    <3>1. PICK i \in 1..Cardinality(S) : all[i] = n
      BY <1>1
    <3>2. ~(room + 1 < i) /\ i # room + 1
      <4>1. room + 1 < i => all[room + 1] < all[i]
        BY <1>1, <2>1
      <4>2. all[room + 1] \in Int /\ n \in Int
        BY <2>2
      <4> QED
        BY <2>4, <3>1, <4>1, <4>2
    <3>3. i \in 1..Len(out)
      BY <1>1, <2>1, <3>2
    <3> QED
      BY <1>6, <3>1, <3>3
  <2> QED
    BY <2>2, <2>3, <2>4
<1>10. ASSUME Len(found) <= room, k = Len(all)
       PROVE  S = ToSet(out)
  <2>1. Len(out) = Cardinality(S)
    BY <1>1, <1>3, <1>4, <1>10
  <2> QED
    BY <1>1, <1>6, <1>8, <2>1
<1> QED
  BY <1>3, <1>4, <1>5, <1>8, <1>9, <1>10 DEF all, BatchGood
\* "." comes before the names of the first call.
LEMMA WithDot ==
    ASSUME NEW T \in SUBSET Int, \A n \in T : n >= 0, NEW out \in Seq(T),
           \A i, j \in 1..Len(out) : i < j => out[i] < out[j]
    PROVE  LET names == <<Dot>> \o out
           IN  /\ names \in Seq(T \cup {Dot})
               /\ \A i, j \in 1..Len(names) : i < j => names[i] < names[j]
               /\ ToSet(names) = ToSet(out) \cup {Dot}
<1> DEFINE names == <<Dot>> \o out
<1>1. <<Dot>> \in Seq(T \cup {Dot}) /\ out \in Seq(T \cup {Dot})
      /\ Len(<<Dot>>) = 1 /\ <<Dot>>[1] = Dot /\ Len(out) \in Nat
  OBVIOUS
<1>2. /\ names \in Seq(T \cup {Dot}) /\ Len(names) = 1 + Len(out)
      /\ \A i \in 1..(1 + Len(out)) :
            names[i] = IF i <= 1 THEN <<Dot>>[i] ELSE out[i - 1]
  BY <1>1, ConcatProperties
<1> HIDE DEF names
<1>3. names[1] = Dot /\ \A i \in 2..Len(names) : names[i] = out[i - 1]
  BY <1>1, <1>2
<1>4. \A i \in 1..Len(out) : out[i] \in T /\ out[i] = names[i + 1]
  BY <1>1, <1>2
<1>5. ASSUME NEW i \in 1..Len(names), NEW j \in 1..Len(names), i < j
      PROVE  names[i] < names[j]
  <2>1. j - 1 \in 1..Len(out) /\ names[j] = out[j - 1]
    BY <1>1, <1>2, <1>3, <1>5
  <2>2. CASE i = 1
    <3>1. out[j - 1] >= 0 /\ out[j - 1] \in Int
      BY <1>4, <2>1
    <3> QED
      BY <1>3, <2>1, <2>2, <3>1 DEF Dot
  <2>3. CASE i # 1
    <3>1. i - 1 \in 1..Len(out) /\ names[i] = out[i - 1] /\ i - 1 < j - 1
      BY <1>1, <1>2, <1>3, <1>5, <2>3
    <3> QED
      BY <2>1, <3>1
  <2> QED
    BY <2>2, <2>3
<1>6. ToSet(names) = ToSet(out) \cup {Dot}
  <2>1. DOMAIN names = 1..Len(names) /\ DOMAIN out = 1..Len(out)
    BY <1>2
  <2>2. \A i \in 1..Len(names) : names[i] \in ToSet(out) \cup {Dot}
    <3> SUFFICES ASSUME NEW i \in 1..Len(names), i # 1
                 PROVE  names[i] \in ToSet(out)
      BY <1>3
    <3>1. i - 1 \in 1..Len(out) /\ names[i] = out[i - 1]
      BY <1>1, <1>2, <1>3
    <3> QED
      BY <2>1, <3>1 DEF ToSet
  <2>3. \A i \in 1..Len(out) : i + 1 \in 1..Len(names)
    BY <1>1, <1>2
  <2>4. Dot \in ToSet(names)
    BY <1>1, <1>2, <1>3, <2>1 DEF ToSet
  <2>5. \A i \in 1..Len(out) : out[i] \in ToSet(names)
    BY <1>4, <2>1, <2>3 DEF ToSet
  <2>6. \A n \in ToSet(names) : n \in ToSet(out) \cup {Dot}
    BY <2>1, <2>2 DEF ToSet
  <2>7. \A n \in ToSet(out) : n \in ToSet(names)
    BY <2>1, <2>5 DEF ToSet
  <2> QED
    BY <2>4, <2>6, <2>7
<1> QED
  BY <1>2, <1>5, <1>6 DEF names

\* A reply starts where the one before it ended, and says where the next starts.
LEMMA ReaddirInv ==
    ASSUME RInv, NEW cap \in Capacities, Readdir(cap)
    PROVE  RInv'
<1> DEFINE S == {n \in present : n >= handle.next}
           all == CursorRows(handle.next)
           first == handle.next = NoName
           room == IF first THEN cap - 1 ELSE cap
           Names2(found) == (IF first THEN <<Dot>> ELSE <<>>) \o Prefix(found, room)
<1>0. TypeOK /\ ReplyIsSeq /\ NoEntryTwice /\ GoesOn
      /\ status = "open" /\ ~handle.atEnd
      /\ UNCHANGED <<present, stable>>
  BY DEF RInv, Readdir
<1>1. /\ handle.next \in Int
      /\ \A n \in present : n \in Int /\ n >= 0 /\ n \in Names \cup {DotDot}
      /\ stable \subseteq present
      /\ ~first => handle.next >= 0
  BY <1>0, MaxNameAssumption DEF TypeOK, Names, DotDot, NoName
<1>2. S \in SUBSET Int /\ IsFiniteSet(S) /\ all = Ordered(S)
  BY <1>0, <1>1, CursorIs
<1>3. first => S = present
  BY <1>1 DEF NoName
<1>4. room \in Nat
  BY CapacitiesAssumption
<1>5. PICK k \in 0..Len(all) :
        /\ handle' = [next |-> NextName(Prefix(all, k), room),
                      atEnd |-> ReachedEnd(Prefix(all, k), room)]
        /\ cut' = (cut \/ (k < Len(all) /\ k <= room))
        /\ \/ status' \in {"refused", "aborted"} /\ UNCHANGED <<reply, before>>
           \/ /\ reply' = Names2(Prefix(all, k))
              /\ before' = before \cup ToSet(reply)
              /\ UNCHANGED status
  <2>1. Len(all) \in 0..Len(all)
    <3>1. Len(all) \in Nat
      BY <1>2, OrderedRows, FS_CardinalityType
    <3> QED
      BY <3>1
  <2> HIDE DEF all
  <2> QED
    BY <2>1 DEF Readdir, all
<1> HIDE DEF S, all
<1> DEFINE found == Prefix(all, k)
           out == Prefix(found, room)
<1>6. /\ found \in Seq(S) /\ out \in Seq(S)
      /\ Len(found) = k
      /\ \A i, j \in 1..Len(out) : i < j => out[i] < out[j]
      /\ Len(found) > room =>
            /\ found[room + 1] \in S
            /\ \A n \in ToSet(out) : n < found[room + 1]
            /\ \A n \in S : n < found[room + 1] => n \in ToSet(out)
      /\ Len(found) <= room /\ k = Len(all) => S = ToSet(out)
      /\ ToSet(out) \subseteq S
  <2>1. found = Prefix(Ordered(S), k) /\ k \in 0..Len(Ordered(S))
    BY <1>2
  <2>2. out = Prefix(found, room)
    OBVIOUS
  <2> HIDE DEF found, out, room
  <2>3. k = Len(all) => k = Len(Ordered(S))
    BY <1>2
  <2>4. S \in SUBSET Int /\ IsFiniteSet(S)
    BY <1>2
  <2>5. BatchGood(S, k, room, found, out)
    BY <1>4, <2>1, <2>2, <2>4, OneBatch
  <2> QED
    BY <2>3, <2>5 DEF BatchGood
<1>7. /\ Len(found) > room =>
            handle' = [next |-> found[room + 1], atEnd |-> FALSE]
      /\ Len(found) <= room => handle' = [next |-> NoName, atEnd |-> TRUE]
  <2>1. handle' = [next |-> NextName(found, room), atEnd |-> ReachedEnd(found, room)]
    BY <1>5
  <2>2. Len(found) \in Nat
    BY <1>6
  <2> HIDE DEF found, room
  <2>3. ASSUME Len(found) > room
        PROVE  handle' = [next |-> found[room + 1], atEnd |-> FALSE]
    <3>1. NextName(found, room) = found[room + 1]
      BY <2>3 DEF NextName
    <3>2. ReachedEnd(found, room) = FALSE
      BY <1>4, <2>2, <2>3 DEF ReachedEnd
    <3> QED
      BY <2>1, <3>1, <3>2
  <2>4. ASSUME Len(found) <= room
        PROVE  handle' = [next |-> NoName, atEnd |-> TRUE]
    <3>1. NextName(found, room) = NoName
      BY <1>4, <2>2, <2>4 DEF NextName
    <3>2. ReachedEnd(found, room) = TRUE
      BY <2>4 DEF ReachedEnd
    <3> QED
      BY <2>1, <3>1, <3>2
  <2> QED
    BY <2>3, <2>4
<1> DEFINE names == Names2(found)
<1>8. /\ names \in Seq(Names \cup {Dot, DotDot})
      /\ \A i, j \in 1..Len(names) : i < j => names[i] < names[j]
      /\ ToSet(names) = ToSet(out) \cup (IF first THEN {Dot} ELSE {})
  <2>1. CASE first
    <3>1. names = <<Dot>> \o out
      BY <2>1
    <3>2. \A n \in S : n >= 0 /\ n \in Names \cup {DotDot}
      BY <1>1 DEF S
    <3> HIDE DEF names, out, first
    <3>3. /\ names \in Seq(S \cup {Dot})
          /\ \A i, j \in 1..Len(names) : i < j => names[i] < names[j]
          /\ ToSet(names) = ToSet(out) \cup {Dot}
      BY <1>2, <1>6, <3>1, <3>2, WithDot
    <3>4. names \in Seq(Names \cup {Dot, DotDot})
      BY <3>2, <3>3
    <3> QED
      BY <2>1, <3>3, <3>4
  <2>2. CASE ~first
    <3>1. names = <<>> \o out
      BY <2>2
    <3>2. \A n \in S : n \in Names \cup {DotDot}
      BY <1>1 DEF S
    <3> HIDE DEF names, out, first
    <3>3. names = out
      BY <1>6, <3>1, ConcatEmptySeq
    <3>4. out \in Seq(Names \cup {Dot, DotDot})
      BY <1>6, <3>2
    <3> QED
      BY <1>6, <2>2, <3>3, <3>4
  <2> QED
    BY <2>1, <2>2
<1> HIDE DEF S, all, room, found, out, names
<1>9. Len(found) \in Nat
  BY <1>5, <1>6
<1>10. /\ handle' \in [next : Names \cup {DotDot, NoName}, atEnd : BOOLEAN]
       /\ handle'.atEnd => handle'.next = NoName
  <2>1. \A n \in S : n \in Names \cup {DotDot}
    BY <1>1 DEF S
  <2>2. CASE Len(found) > room
    <3>1. handle' = [next |-> found[room + 1], atEnd |-> FALSE]
      BY <1>7, <2>2
    <3> QED
      BY <1>6, <2>1, <2>2, <3>1
  <2>3. CASE Len(found) <= room
    <3>1. handle' = [next |-> NoName, atEnd |-> TRUE]
      BY <1>7, <2>3
    <3> QED
      BY <3>1
  <2> QED
    BY <1>4, <1>9, <2>2, <2>3
<1>12. cut' \in BOOLEAN
  BY <1>5
<1>13. CASE status' \in {"refused", "aborted"} /\ UNCHANGED <<reply, before>>
  <2>1. TypeOK'
    BY <1>0, <1>10, <1>12, <1>13 DEF TypeOK
  <2>2. ReplyIsSeq' /\ NoEntryTwice'
    BY <1>0, <1>13 DEF ReplyIsSeq, NoEntryTwice
  <2>3. GoesOn' /\ CameToEnd'
    BY <1>13 DEF GoesOn, CameToEnd
  <2> QED
    BY <2>1, <2>2, <2>3 DEF RInv
<1>14. CASE /\ reply' = names
            /\ before' = before \cup ToSet(reply)
            /\ UNCHANGED status
  <2>1. /\ before' = Listed
        /\ Listed' = Listed \cup ToSet(names)
        /\ Listed' = Listed \cup ToSet(out) \cup (IF first THEN {Dot} ELSE {})
    BY <1>8, <1>14 DEF Listed
  <2>2. /\ first => Listed = {}
        /\ ~first => /\ \A n \in Listed : n < handle.next
                     /\ ~cut => \A n \in stable : n < handle.next => n \in Listed
    BY <1>0 DEF GoesOn
  <2>3. TypeOK'
    <3>1. ToSet(reply') \cup before' \subseteq Names \cup {Dot, DotDot}
      <4>1. ToSet(out) \subseteq Names \cup {DotDot}
        BY <1>1, <1>6 DEF S
      <4> QED
        BY <1>0, <1>8, <1>14, <4>1 DEF TypeOK
    <3> QED
      BY <1>0, <1>10, <1>12, <1>14, <3>1 DEF TypeOK
  <2>4. ReplyIsSeq'
    BY <1>8, <1>14 DEF ReplyIsSeq
  <2>5. NoEntryTwice'
    <3>1. ToSet(names) \cap Listed = {}
      <4>1. CASE first
        BY <2>2, <4>1
      <4>2. CASE ~first
        <5>1. ToSet(names) \subseteq S
          BY <1>6, <1>8, <4>2
        <5>2. \A n \in S : n \in Int /\ ~(n < handle.next)
          BY <1>1 DEF S
        <5> QED
          BY <2>2, <4>2, <5>1, <5>2
      <4> QED
        BY <4>1, <4>2
    <3> QED
      BY <1>8, <1>14, <2>1, <3>1 DEF NoEntryTwice
  <2>6. ~cut' => ~cut /\ ~(k < Len(all) /\ k <= room)
    BY <1>0, <1>5 DEF TypeOK
  <2>7. ASSUME ~cut', NEW n \in stable, n \notin S
        PROVE  n \in Listed'
    <3>1. n \in present /\ n \in Int /\ ~(n >= handle.next) /\ ~first
      <4>1. n \in present /\ n \in Int
        BY <1>1
      <4>2. ~first
        BY <1>3, <2>7, <4>1
      <4> QED
        BY <2>7, <4>1, <4>2 DEF S
    <3>2. n < handle.next
      BY <1>1, <3>1
    <3> QED
      BY <2>1, <2>2, <2>6, <2>7, <3>1, <3>2
  <2>8. CASE Len(found) > room
    <3>1. /\ handle'.next = found[room + 1] /\ handle'.atEnd = FALSE
          /\ handle'.next \in S
          /\ \A n \in ToSet(out) : n < handle'.next
          /\ \A n \in S : n < handle'.next => n \in ToSet(out)
      <4>1. handle' = [next |-> found[room + 1], atEnd |-> FALSE]
        BY <1>7, <2>8
      <4>2. handle'.next = found[room + 1] /\ handle'.atEnd = FALSE
        BY <4>1
      <4> QED
        BY <1>6, <2>8, <4>2
    <3>2. /\ handle'.next \in Int /\ handle'.next >= handle.next /\ handle'.next >= 0
          /\ handle'.next # NoName /\ Dot < handle'.next
      BY <1>1, <3>1 DEF S, NoName, Dot
    <3>3. \A n \in Listed' : n < handle'.next
      <4>1. ASSUME NEW n \in Listed
            PROVE  n < handle'.next
        <5>1. ~first /\ n < handle.next /\ n \in Int
          <6>1. n \in Names \cup {Dot, DotDot}
            BY <1>0 DEF TypeOK, Listed
          <6> QED
            BY <2>2, <6>1, MaxNameAssumption DEF Names, Dot, DotDot
        <5> QED
          BY <1>1, <3>2, <5>1
      <4> QED
        BY <2>1, <3>1, <3>2, <4>1
    <3>4. ~cut' => \A n \in stable : n < handle'.next => n \in Listed'
      BY <2>1, <2>7, <3>1
    <3>5. GoesOn' /\ CameToEnd'
      BY <1>0, <1>14, <3>1, <3>2, <3>3, <3>4 DEF GoesOn, CameToEnd
    <3> QED
      BY <2>3, <2>4, <2>5, <3>5 DEF RInv
  <2>9. CASE Len(found) <= room
    <3>1. handle'.atEnd = TRUE
      BY <1>7, <2>9
    <3>2. ~cut' => S = ToSet(out)
      <4>1. Len(all) \in Nat
        BY <1>2, OrderedRows, FS_CardinalityType DEF S, all
      <4> QED
        BY <1>5, <1>6, <2>6, <2>9, <4>1
    <3>3. ~cut' => stable \subseteq Listed'
      BY <2>1, <2>7, <3>2
    <3>4. GoesOn' /\ CameToEnd'
      BY <1>0, <3>1, <3>3 DEF GoesOn, CameToEnd
    <3> QED
      BY <2>3, <2>4, <2>5, <3>4 DEF RInv
  <2> QED
    BY <1>4, <1>9, <2>8, <2>9
<1> QED
  BY <1>5, <1>13, <1>14 DEF found, names
-----------------------------------------------------------------------------
(* The theorems *)

\* Nothing is listed before the first call.
LEMMA InitRInv == Init => RInv
<1> SUFFICES ASSUME Init PROVE RInv
  OBVIOUS
<1>1. /\ present = {DotDot} /\ status = "closed" /\ reply = <<>>
      /\ before = {} /\ stable = {} /\ cut = FALSE
      /\ handle = [next |-> NoName, atEnd |-> FALSE]
  BY DEF Init, Fresh
<1>2. ToSet(<<>>) = {}
  BY DEF ToSet
<1>3. handle \in [next : Names \cup {DotDot, NoName}, atEnd : BOOLEAN] /\ ~handle.atEnd
  BY <1>1
<1>4. TypeOK
  BY <1>1, <1>2, <1>3 DEF TypeOK
<1>5. ReplyIsSeq
  BY <1>1 DEF ReplyIsSeq
<1>6. NoEntryTwice /\ GoesOn /\ CameToEnd
  BY <1>1, <1>2 DEF NoEntryTwice, GoesOn, CameToEnd
<1> QED
  BY <1>4, <1>5, <1>6 DEF RInv

\* Other requests change what is there, and not what was listed.
LEMMA OthersInv ==
    ASSUME RInv, UNCHANGED <<handle, status, reply, before, cut>>,
           present' \subseteq Names \cup {DotDot},
           stable' \subseteq stable, stable' \subseteq present'
    PROVE  RInv'
<1>1. Listed' = Listed
  BY DEF Listed
<1>2. TypeOK'
  BY DEF RInv, TypeOK
<1>3. ReplyIsSeq' /\ NoEntryTwice'
  BY DEF RInv, ReplyIsSeq, NoEntryTwice
<1>4. GoesOn' /\ CameToEnd'
  BY <1>1 DEF RInv, GoesOn, CameToEnd
<1> QED
  BY <1>2, <1>3, <1>4 DEF RInv

\* A handle that is opened or closed has listed nothing.
LEMMA FreshInv ==
    ASSUME RInv, UNCHANGED present, status' \in {"open", "closed"},
           handle' = Fresh, reply' = <<>>, before' = {}, cut' = FALSE,
           stable' \subseteq present
    PROVE  RInv'
<1>1. ToSet(<<>>) = {}
  BY DEF ToSet
<1>2. /\ handle' = [next |-> NoName, atEnd |-> FALSE]
      /\ handle'.next = NoName /\ ~handle'.atEnd
  BY DEF Fresh
<1>3. Listed' = {}
  BY <1>1 DEF Listed
<1>4. TypeOK'
  <2>1. handle' \in [next : Names \cup {DotDot, NoName}, atEnd : BOOLEAN]
    BY <1>2
  <2> QED
    BY <1>1, <1>2, <2>1 DEF RInv, TypeOK
<1>5. ReplyIsSeq'
  BY DEF ReplyIsSeq
<1>6. NoEntryTwice'
  BY <1>1 DEF NoEntryTwice
<1>7. GoesOn' /\ CameToEnd'
  BY <1>2, <1>3 DEF GoesOn, CameToEnd
<1> QED
  BY <1>4, <1>5, <1>6, <1>7 DEF RInv

\* Every step preserves the invariant.
LEMMA NextRInv == RInv /\ [Next]_vars => RInv'
<1> SUFFICES ASSUME RInv, [Next]_vars PROVE RInv'
  OBVIOUS
<1>0. present \subseteq Names \cup {DotDot} /\ stable \subseteq present
  BY DEF RInv, TypeOK
<1>1. ASSUME NEW n \in Names, Add(n)
      PROVE  RInv'
  BY <1>0, <1>1, OthersInv DEF Add
<1>2. ASSUME NEW n \in Names, Delete(n)
      PROVE  RInv'
  BY <1>0, <1>2, OthersInv DEF Delete
<1>3. CASE RemoveDir
  BY <1>0, <1>3, OthersInv DEF RemoveDir
<1>4. CASE Opendir
  BY <1>4, FreshInv DEF Opendir
<1>5. ASSUME NEW cap \in Capacities, Readdir(cap)
      PROVE  RInv'
  BY <1>5, ReaddirInv
<1>6. CASE ReaddirEnd
  <2>1. /\ status = "open" /\ handle.atEnd /\ status' = "done"
        /\ UNCHANGED <<present, handle, reply, before, stable, cut>>
    BY <1>6 DEF ReaddirEnd
  <2>2. Listed' = Listed
    BY <2>1 DEF Listed
  <2>3. TypeOK' /\ ReplyIsSeq' /\ NoEntryTwice'
    BY <2>1 DEF RInv, TypeOK, ReplyIsSeq, NoEntryTwice
  <2>4. GoesOn' /\ CameToEnd'
    BY <2>1, <2>2 DEF RInv, GoesOn, CameToEnd
  <2> QED
    BY <2>3, <2>4 DEF RInv
<1>7. CASE Releasedir
  BY <1>7, FreshInv DEF Releasedir
<1>8. CASE UNCHANGED vars
  <2>1. UNCHANGED <<handle, status, reply, before, cut>> /\ UNCHANGED <<present, stable>>
    BY <1>8 DEF vars
  <2> QED
    BY <1>0, <2>1, OthersInv
<1> QED
  BY <1>1, <1>2, <1>3, <1>4, <1>5, <1>6, <1>7, <1>8 DEF Next, ReadOn

\* The inductive invariant holds of every listing.
THEOREM RInvariance == Spec => []RInv
<1>1. Init => RInv
  BY InitRInv
<1>2. RInv /\ [Next]_vars => RInv'
  BY NextRInv
<1> QED
  BY <1>1, <1>2, PTL DEF Spec

\* A handle is in one of the three states that the comment on dir_handle lists, and
\* replies hold names of the directory, "." and "..".
THEOREM HandleTypes == Spec => []TypeOK
<1>1. RInv => TypeOK
  BY DEF RInv
<1> QED
  BY <1>1, RInvariance, PTL

\* sqlfuse_readdir lists no name twice through one handle, for any buffer sizes,
\* whatever is made and removed between its calls.
THEOREM ListedOnce == Spec => []NoEntryTwice
<1>1. RInv => NoEntryTwice
  BY DEF RInv
<1> QED
  BY <1>1, RInvariance, PTL

\* sqlfuse_readdir leaves out no name that was there from opendir to the end of the
\* listing, unless the cursor failed.
THEOREM StableListed == Spec => []StableEntriesListed
<1>1. RInv => StableEntriesListed
  BY DEF RInv, CameToEnd, StableEntriesListed, Listed
<1> QED
  BY <1>1, RInvariance, PTL
=============================================================================
