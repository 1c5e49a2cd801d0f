-------------------------- MODULE FileDataProofs --------------------------
(***************************************************************************)
(* What the run of FileData checks, proved for every size of a block, of a *)
(* file and of what is written: the blocks match the size, reads return    *)
(* the contents, and blocks make no difference to a client (FileBytes).    *)
(***************************************************************************)
EXTENDS FileData, SequenceTheorems, TLAPS

-----------------------------------------------------------------------------
(* Arithmetic. Products with BlockSize are not linear; after these lemmas   *)
(* the proofs add and compare.                                              *)

LEMMA MultiplesAreApart ==
    ASSUME NEW a \in Int, NEW b \in Int
    PROVE  /\ BlockSize \in Nat /\ BlockSize > 0
           /\ a * BlockSize \in Int /\ b * BlockSize \in Int
           /\ a < b => a * BlockSize + BlockSize <= b * BlockSize
           /\ a >= 0 => a * BlockSize >= a
<1>1. BlockSize \in Nat \ {0}
  BY BlockSizeAssumption
<1>2. \A k \in Nat : k * BlockSize \in Nat
  BY <1>1, SMT
<1>3. ASSUME a < b
      PROVE  a * BlockSize + BlockSize <= b * BlockSize
  <2>1. b - a - 1 \in Nat
    BY <1>3
  <2>2. (b - a - 1) * BlockSize = b * BlockSize - a * BlockSize - BlockSize
    BY <1>1, SMT
  <2>3. (b - a - 1) * BlockSize \in Nat
    BY <1>2, <2>1
  <2> QED BY <1>1, <2>2, <2>3, SMT
<1>4. ASSUME a >= 0
      PROVE  a * BlockSize >= a
  <2>1. a * BlockSize = a + a * (BlockSize - 1)
    BY <1>1, SMT
  <2>2. a * (BlockSize - 1) \in Nat
    BY <1>1, <1>4, SMT
  <2> QED BY <2>1, <2>2
<1> QED BY <1>1, <1>3, <1>4, SMT

\* Where position p is: in which block, and where in it.
LEMMA Place ==
    ASSUME NEW p \in Nat
    PROVE  /\ p \div BlockSize \in Nat
           /\ p % BlockSize \in Nat /\ p % BlockSize < BlockSize
           /\ (p \div BlockSize) * BlockSize \in Nat
           /\ p = (p \div BlockSize) * BlockSize + (p % BlockSize)
  BY BlockSizeAssumption, SMT

LEMMA PlaceAdds ==
    ASSUME NEW p \in Nat
    PROVE  (p \div BlockSize) * BlockSize + ((p % BlockSize) + 1) - 1 = p
<1>1. (p \div BlockSize) * BlockSize \in Nat /\ p % BlockSize \in Nat
  BY Place
<1>2. p = (p \div BlockSize) * BlockSize + (p % BlockSize)
  BY Place
<1> QED BY <1>1, <1>2

LEMMA PlaceIs ==
    ASSUME NEW i \in Nat, NEW k \in Nat, k < BlockSize
    PROVE  /\ (i * BlockSize + k) \div BlockSize = i
           /\ (i * BlockSize + k) % BlockSize = k
<1> DEFINE p == i * BlockSize + k
           q == p \div BlockSize
           r == p % BlockSize
<1>1. p \in Nat
  BY BlockSizeAssumption, SMT
<1>2. q \in Nat /\ r \in Nat /\ r < BlockSize /\ p = q * BlockSize + r
  BY <1>1, Place
<1>3. p = i * BlockSize + k
  OBVIOUS
<1> HIDE DEF p, q, r
<1>4. q * BlockSize + r = i * BlockSize + k
  BY <1>2, <1>3
<1>5. BlockSize \in Nat /\ q * BlockSize \in Int /\ i * BlockSize \in Int
  BY <1>2, MultiplesAreApart
<1>6. ~(q < i)
  <2>1. q < i => q * BlockSize + BlockSize <= i * BlockSize
    BY <1>2, MultiplesAreApart
  <2> QED BY <1>2, <1>4, <1>5, <2>1
<1>7. ~(i < q)
  <2>1. i < q => i * BlockSize + BlockSize <= q * BlockSize
    BY <1>2, MultiplesAreApart
  <2> QED BY <1>2, <1>4, <1>5, <2>1
<1>8. q = i
  BY <1>2, <1>6, <1>7
<1>9. r = k
  BY <1>2, <1>4, <1>5, <1>8
<1> QED BY <1>8, <1>9 DEF p, q, r

\* The blocks of a file of n bytes are those that start before its end.
LEMMA Counted ==
    ASSUME NEW n \in Nat
    PROVE  /\ BlockCount(n) \in Nat
           /\ \A i \in Nat : i < BlockCount(n) <=> i * BlockSize < n
<1> DEFINE q == BlockCount(n)
<1>1. BlockSize \in Nat /\ BlockSize > 0
  BY BlockSizeAssumption
<1>2. n + BlockSize - 1 \in Nat
  BY <1>1
<1>3. /\ q \in Nat
      /\ q * BlockSize <= n + BlockSize - 1
      /\ n + BlockSize - 1 < q * BlockSize + BlockSize
  BY <1>1, <1>2, Place DEF BlockCount
<1> HIDE DEF q
<1>4. ASSUME NEW i \in Nat
      PROVE  i < q <=> i * BlockSize < n
  <2>1. CASE i < q
    BY <1>1, <1>3, <2>1, MultiplesAreApart
  <2>2. CASE i = q
    BY <1>1, <1>3, <2>2, MultiplesAreApart
  <2>3. CASE q < i
    BY <1>1, <1>3, <2>3, MultiplesAreApart
  <2> QED BY <1>3, <2>1, <2>2, <2>3
<1> QED BY <1>3, <1>4 DEF q
-----------------------------------------------------------------------------
(* Blocks and bytes *)

\* The rows of a file of n bytes, none of them garbage.
WellFormed(bl, n) ==
    /\ DOMAIN bl = 0..(BlockCount(n) - 1)
    /\ \A i \in DOMAIN bl : /\ bl[i] \in Seq(Nat)
                            /\ Len(bl[i]) = Smaller(BlockSize, n - i * BlockSize)

\* The byte at position p of a well-formed file.
Byte(bl, p) == bl[p \div BlockSize][(p % BlockSize) + 1]

LEMMA Domains ==
    ASSUME NEW n \in Nat, NEW bl, WellFormed(bl, n)
    PROVE  \A i : i \in DOMAIN bl <=> i \in Nat /\ i * BlockSize < n
<1>1. DOMAIN bl = 0..(BlockCount(n) - 1)
  BY DEF WellFormed
<1>2. ASSUME NEW i
      PROVE  i \in DOMAIN bl <=> i \in Nat /\ i * BlockSize < n
  <2>1. i \in DOMAIN bl <=> i \in Nat /\ i < BlockCount(n)
    BY <1>1, Counted
  <2> QED BY <2>1, Counted
<1> QED BY <1>2

LEMMA ByteIn ==
    ASSUME NEW n \in Nat, NEW bl, WellFormed(bl, n), NEW p \in Nat, p < n
    PROVE  /\ p \div BlockSize \in DOMAIN bl
           /\ (p % BlockSize) + 1 \in 1..Len(bl[p \div BlockSize])
           /\ Byte(bl, p) \in Nat
<1> DEFINE q == p \div BlockSize
           r == p % BlockSize
<1>1. /\ q \in Nat /\ q * BlockSize \in Nat
      /\ r \in Nat /\ r < BlockSize /\ p = q * BlockSize + r
  BY Place
<1>2. Byte(bl, p) = bl[q][r + 1]
  BY DEF Byte
<1> HIDE DEF q, r
<1>3. BlockSize \in Nat
  BY BlockSizeAssumption
<1>4. q \in DOMAIN bl
  BY <1>1, <1>3, Domains
<1>5. bl[q] \in Seq(Nat) /\ Len(bl[q]) = Smaller(BlockSize, n - q * BlockSize)
  BY <1>4 DEF WellFormed
<1>6. r + 1 \in 1..Len(bl[q])
  BY <1>1, <1>3, <1>5 DEF Smaller
<1>7. bl[q][r + 1] \in Nat
  BY <1>5, <1>6
<1> QED BY <1>2, <1>4, <1>6, <1>7 DEF q, r

LEMMA BlockByte ==
    ASSUME NEW n \in Nat, NEW bl, WellFormed(bl, n),
           NEW i \in DOMAIN bl, NEW k \in 1..Len(bl[i])
    PROVE  /\ i * BlockSize + k - 1 \in Nat
           /\ i * BlockSize + k - 1 < n
           /\ bl[i][k] = Byte(bl, i * BlockSize + k - 1)
<1>1. i \in Nat /\ i * BlockSize \in Nat /\ i * BlockSize < n /\ BlockSize \in Nat
  BY Domains, BlockSizeAssumption, MultiplesAreApart
<1>2. Len(bl[i]) = Smaller(BlockSize, n - i * BlockSize)
  BY DEF WellFormed
<1>3. k \in Nat /\ k >= 1 /\ k <= BlockSize /\ k <= n - i * BlockSize
  BY <1>1, <1>2 DEF Smaller
<1>4. k - 1 \in Nat /\ k - 1 < BlockSize
  BY <1>1, <1>3
<1>5. i * BlockSize + k - 1 = i * BlockSize + (k - 1)
  BY <1>1, <1>3
<1>6. /\ (i * BlockSize + (k - 1)) \div BlockSize = i
      /\ (i * BlockSize + (k - 1)) % BlockSize = k - 1
  BY <1>1, <1>4, PlaceIs
<1>7. Byte(bl, i * BlockSize + k - 1) = bl[i][(k - 1) + 1]
  BY <1>5, <1>6 DEF Byte
<1>8. (k - 1) + 1 = k
  BY <1>3
<1> QED BY <1>1, <1>3, <1>7, <1>8

\* The rows hold what each position is to hold.
LEMMA BytesFromBlocks ==
    ASSUME NEW n \in Nat, NEW bl, WellFormed(bl, n), NEW want,
           \A i \in DOMAIN bl : \A k \in 1..Len(bl[i]) :
               bl[i][k] = want[i * BlockSize + k - 1]
    PROVE  \A p \in 0..(n - 1) : Byte(bl, p) = want[p]
<1> SUFFICES ASSUME NEW p \in 0..(n - 1)
             PROVE  Byte(bl, p) = want[p]
  OBVIOUS
<1> DEFINE q == p \div BlockSize
           k == (p % BlockSize) + 1
<1>0. p \in Nat /\ p < n
  OBVIOUS
<1>1. q \in DOMAIN bl /\ k \in 1..Len(bl[q])
  BY <1>0, ByteIn
<1>2. Byte(bl, p) = bl[q][k]
  BY DEF Byte
<1>3. q * BlockSize + k - 1 = p
  BY <1>0, PlaceAdds
<1> HIDE DEF q, k
<1>4. bl[q][k] = want[q * BlockSize + k - 1]
  BY <1>1
<1> QED BY <1>2, <1>3, <1>4

\* A read gets what it asks for.
ReadGets(bl, off, m) ==
    /\ ReadBytes(bl, off, m) \in Seq(Nat)
    /\ Len(ReadBytes(bl, off, m)) = m
    /\ \A k \in 1..m : ReadBytes(bl, off, m)[k] = Byte(bl, off + k - 1)

LEMMA ReadsSucceed ==
    ASSUME NEW n \in Nat, NEW bl, WellFormed(bl, n),
           NEW off \in Nat, NEW m \in Nat, off + m <= n
    PROVE  CanRead(bl, off, m) /\ ReadGets(bl, off, m)
<1>1. CanRead(bl, off, m)
  <2>1. SUFFICES ASSUME NEW i \in (off \div BlockSize)..(BlockCount(off + m) - 1)
                 PROVE  /\ i \in DOMAIN bl
                        /\ Len(bl[i]) >= Smaller(off + m - i * BlockSize, BlockSize)
    BY DEF CanRead
  <2>2. off + m \in Nat /\ BlockCount(off + m) \in Nat /\ off \div BlockSize \in Nat
    BY Place, Counted
  <2>3. i \in Nat /\ i < BlockCount(off + m)
    BY <2>2
  <2>4. i * BlockSize < off + m
    BY <2>2, <2>3, Counted
  <2>5. i * BlockSize \in Int /\ BlockSize \in Nat
    BY <2>3, MultiplesAreApart
  <2>6. i \in DOMAIN bl
    <3>1. i * BlockSize < n
      BY <2>4, <2>5
    <3> QED BY <2>3, <3>1, Domains
  <2>7. Len(bl[i]) = Smaller(BlockSize, n - i * BlockSize)
    BY <2>6 DEF WellFormed
  <2> QED BY <2>5, <2>6, <2>7 DEF Smaller
<1>2. ReadBytes(bl, off, m) = [k \in 1..m |-> Byte(bl, off + k - 1)]
  BY DEF ReadBytes, Byte
<1>3. ASSUME NEW k \in 1..m
      PROVE  Byte(bl, off + k - 1) \in Nat
  <2>1. off + k - 1 \in Nat /\ off + k - 1 < n
    OBVIOUS
  <2> QED BY <2>1, ByteIn
<1>4. [k \in 1..m |-> Byte(bl, off + k - 1)] \in Seq(Nat)
  BY <1>3
<1>5. Len([k \in 1..m |-> Byte(bl, off + k - 1)]) = m
  BY <1>4
<1>6. ReadGets(bl, off, m)
  BY <1>2, <1>4, <1>5 DEF ReadGets
<1> QED BY <1>1, <1>6
-----------------------------------------------------------------------------
(* resize_filedata *)

\* A block that lies before a position holds BlockSize bytes.
LEMMA FullBefore ==
    ASSUME NEW n \in Nat, NEW q \in Nat, q * BlockSize <= n, NEW i \in Nat, i < q
    PROVE  /\ i * BlockSize + BlockSize <= n
           /\ i * BlockSize + BlockSize <= q * BlockSize
           /\ i * BlockSize < n
           /\ Smaller(BlockSize, n - i * BlockSize) = BlockSize
<1>1. /\ BlockSize \in Nat /\ BlockSize > 0
      /\ i * BlockSize \in Int /\ q * BlockSize \in Int
  BY MultiplesAreApart
<1>2. i < q => i * BlockSize + BlockSize <= q * BlockSize
  BY MultiplesAreApart
<1> QED BY <1>1, <1>2 DEF Smaller
\* Row i of a file of n bytes whose contents are f, a function of the position.
RowHolds(bl, i, n, f) ==
    /\ bl[i] \in Seq(Nat)
    /\ Len(bl[i]) = Smaller(BlockSize, n - i * BlockSize)
    /\ \A k \in 1..Len(bl[i]) : bl[i][k] = f[i * BlockSize + k - 1]

Holds(bl, n, f) == WellFormed(bl, n) /\ \A p \in 0..(n - 1) : Byte(bl, p) = f[p]

LEMMA RowsHold ==
    ASSUME NEW n \in Nat, NEW bl, NEW f,
           \A i : i \in DOMAIN bl <=> i \in Nat /\ i * BlockSize < n,
           \A i \in DOMAIN bl : RowHolds(bl, i, n, f)
    PROVE  Holds(bl, n, f)
<1>1. DOMAIN bl = 0..(BlockCount(n) - 1)
  <2>1. BlockCount(n) \in Nat
    BY Counted
  <2>2. \A i : i \in DOMAIN bl <=> i \in Nat /\ i < BlockCount(n)
    BY Counted
  <2>3. \A i : i \in 0..(BlockCount(n) - 1) <=> i \in Nat /\ i < BlockCount(n)
    BY <2>1
  <2> QED BY <2>2, <2>3
<1>2. WellFormed(bl, n)
  BY <1>1 DEF WellFormed, RowHolds
<1>3. \A i \in DOMAIN bl : \A k \in 1..Len(bl[i]) : bl[i][k] = f[i * BlockSize + k - 1]
  BY DEF RowHolds
<1> QED BY <1>2, <1>3, BytesFromBlocks DEF Holds

LEMMA SmallerIs ==
    ASSUME NEW j \in Int, NEW k \in Int
    PROVE  Smaller(j, k) \in Int /\ Smaller(j, k) <= j /\ Smaller(j, k) <= k
  BY DEF Smaller

LEMMA RowLength ==
    ASSUME NEW n \in Nat, NEW bl, WellFormed(bl, n), NEW i \in DOMAIN bl
    PROVE  Len(bl[i]) \in Nat /\ Len(bl[i]) <= BlockSize
<1>1. bl[i] \in Seq(Nat) /\ Len(bl[i]) = Smaller(BlockSize, n - i * BlockSize)
  BY DEF WellFormed
<1>2. i \in Nat /\ BlockSize \in Int /\ i * BlockSize \in Int
  BY Domains, MultiplesAreApart
<1>3. n - i * BlockSize \in Int
  BY <1>2
<1>4. Smaller(BlockSize, n - i * BlockSize) <= BlockSize
  BY <1>2, <1>3, SmallerIs
<1> QED BY <1>1, <1>4

\* Row i has as many bytes, and they are those of bl.
SameLength(i, m, n) ==
    Smaller(BlockSize, n - i * BlockSize) = Smaller(BlockSize, m - i * BlockSize)
SameBytes(bl, i, m, f) ==
    \A p \in 0..(m - 1) :
        i * BlockSize <= p /\ p < i * BlockSize + BlockSize => f[p] = Byte(bl, p)

\* A row that is not touched, when the file before it changes from m bytes to n.
LEMMA RowKept ==
    ASSUME NEW m \in Nat, NEW bl, WellFormed(bl, m), NEW n \in Nat, NEW f,
           NEW new, NEW i \in DOMAIN bl, new[i] = bl[i],
           SameLength(i, m, n), SameBytes(bl, i, m, f)
    PROVE  RowHolds(new, i, n, f)
<1>1. bl[i] \in Seq(Nat) /\ Len(bl[i]) = Smaller(BlockSize, m - i * BlockSize)
  BY DEF WellFormed
<1>2. i \in Nat /\ i * BlockSize \in Nat /\ BlockSize \in Nat
  BY Domains, MultiplesAreApart
<1>3. ASSUME NEW k \in 1..Len(bl[i])
      PROVE  bl[i][k] = f[i * BlockSize + k - 1]
  <2>1. /\ i * BlockSize + k - 1 \in Nat
        /\ i * BlockSize + k - 1 < m
        /\ bl[i][k] = Byte(bl, i * BlockSize + k - 1)
    BY BlockByte
  <2>2. k \in Nat /\ k >= 1 /\ k <= BlockSize
    <3>1. Len(bl[i]) \in Nat /\ Len(bl[i]) <= BlockSize
      BY RowLength
    <3> QED BY <1>2, <3>1
  <2> DEFINE p == i * BlockSize + k - 1
  <2>3. p \in 0..(m - 1) /\ i * BlockSize <= p /\ p < i * BlockSize + BlockSize
    <3>1. p \in Nat /\ p < m
      BY <2>1
    <3>2. i * BlockSize <= p /\ p < i * BlockSize + BlockSize
      BY <1>2, <2>2
    <3> QED BY <3>1, <3>2
  <2> HIDE DEF p
  <2>4. f[p] = Byte(bl, p)
    BY <2>3 DEF SameBytes
  <2> QED BY <2>1, <2>4 DEF p
<1> QED BY <1>1, <1>3 DEF RowHolds, SameLength

\* The contents of bl, m bytes, when they become n bytes.
Extension(bl, m, n) == [p \in 0..(n - 1) |-> IF p < m THEN Byte(bl, p) ELSE 0]

LEMMA TruncatedHolds ==
    ASSUME NEW m \in Nat, NEW bl, WellFormed(bl, m), NEW n \in Nat, n < m
    PROVE  Holds(Truncated(bl, n), n, Extension(bl, m, n))
<1> DEFINE q == n \div BlockSize
           r == n % BlockSize
           new == Truncated(bl, n)
           f == Extension(bl, m, n)
           last == ReadBytes(bl, q * BlockSize, r)
<1>1. /\ q \in Nat /\ q * BlockSize \in Nat
      /\ r \in Nat /\ r < BlockSize /\ n = q * BlockSize + r
  BY Place
<1>2. DOMAIN KeptBlocks(bl, n) = {j \in DOMAIN bl : j < BlockCount(n)}
  BY DEF KeptBlocks
<1>3. \A i \in DOMAIN KeptBlocks(bl, n) : KeptBlocks(bl, n)[i] = bl[i]
  BY DEF KeptBlocks
<1>4. r = 0 => new = KeptBlocks(bl, n)
  BY DEF Truncated
<1>5. r # 0 => /\ DOMAIN new = DOMAIN KeptBlocks(bl, n) \cup {q}
               /\ new[q] = last
               /\ \A i \in DOMAIN KeptBlocks(bl, n) : i # q => new[i] = KeptBlocks(bl, n)[i]
  BY DEF Truncated, Replace, LastBlock
<1>6. \A p \in 0..(n - 1) : f[p] = Byte(bl, p)
  BY DEF Extension
<1> HIDE DEF q, r, new, f, last
<1>7. BlockSize \in Nat /\ BlockSize > 0
  BY BlockSizeAssumption
<1>8. \A i : i \in DOMAIN KeptBlocks(bl, n) <=> i \in Nat /\ i * BlockSize < n
  <2>1. ASSUME NEW i \in Nat, i * BlockSize < n
        PROVE  i \in DOMAIN bl /\ i < BlockCount(n)
    <3>1. i * BlockSize \in Int
      BY MultiplesAreApart
    <3>2. i * BlockSize < m
      BY <2>1, <3>1
    <3> QED BY <2>1, <3>2, Domains, Counted
  <2>2. ASSUME NEW i \in DOMAIN bl, i < BlockCount(n)
        PROVE  i \in Nat /\ i * BlockSize < n
    BY <2>2, Domains, Counted
  <2> QED BY <1>2, <2>1, <2>2
<1>9. \A i : i \in DOMAIN new <=> i \in Nat /\ i * BlockSize < n
  <2>1. CASE r = 0
    BY <1>4, <1>8, <2>1
  <2>2. CASE r # 0
    <3>1. q * BlockSize < n
      BY <1>1, <2>2
    <3> QED BY <1>1, <1>5, <1>8, <2>2, <3>1
  <2> QED BY <2>1, <2>2
<1>10. ASSUME NEW i \in DOMAIN new
       PROVE  RowHolds(new, i, n, f)
  <2>1. i \in Nat /\ i * BlockSize \in Int /\ i * BlockSize < n
    BY <1>9, MultiplesAreApart
  <2>2. ~(q < i)
    <3>1. q < i => q * BlockSize + BlockSize <= i * BlockSize
      BY <1>1, <2>1, MultiplesAreApart
    <3> QED BY <1>1, <1>7, <2>1, <3>1
  <2>3. CASE i < q
    <3>1. new[i] = bl[i]
      BY <1>1, <1>3, <1>4, <1>5, <1>8, <2>1, <2>3
    <3>2. i \in DOMAIN bl
      BY <1>2, <1>8, <2>1
    <3>3. q * BlockSize <= n /\ q * BlockSize <= m
      BY <1>1
    <3>4. /\ Smaller(BlockSize, n - i * BlockSize) = BlockSize
          /\ Smaller(BlockSize, m - i * BlockSize) = BlockSize
          /\ i * BlockSize + BlockSize <= n
      BY <1>1, <2>1, <2>3, <3>3, FullBefore
    <3>5. \A p \in 0..(m - 1) :
            i * BlockSize <= p /\ p < i * BlockSize + BlockSize => f[p] = Byte(bl, p)
      BY <1>6, <1>7, <2>1, <3>4
    <3>6. SameLength(i, m, n) /\ SameBytes(bl, i, m, f)
      BY <3>4, <3>5 DEF SameLength, SameBytes
    <3> QED BY <3>1, <3>2, <3>6, RowKept
  <2>4. CASE i = q
    <3>1. r # 0
      BY <1>1, <2>1, <2>4
    <3>2. new[i] = last
      BY <1>5, <2>4, <3>1
    <3>4. /\ last \in Seq(Nat) /\ Len(last) = r
          /\ \A k \in 1..r : last[k] = Byte(bl, q * BlockSize + k - 1)
      <4> DEFINE s == q * BlockSize
      <4>1. s \in Nat /\ r \in Nat /\ s + r <= m
        BY <1>1
      <4> HIDE DEF s
      <4>2. ReadGets(bl, s, r)
        BY <4>1, ReadsSucceed
      <4> QED BY <4>2 DEF ReadGets, last, s
    <3>5. Smaller(BlockSize, n - q * BlockSize) = r
      BY <1>1, <1>7 DEF Smaller
    <3>6. ASSUME NEW k \in 1..r
          PROVE  last[k] = f[q * BlockSize + k - 1]
      <4>1. q * BlockSize + k - 1 \in 0..(n - 1)
        BY <1>1
      <4> QED BY <1>6, <3>4, <4>1
    <3> QED BY <2>4, <3>2, <3>4, <3>5, <3>6 DEF RowHolds
  <2> QED BY <1>1, <2>1, <2>2, <2>3, <2>4
<1> QED BY <1>9, <1>10, RowsHold DEF new, f
LEMMA Padded ==
    ASSUME NEW s \in Seq(Nat), NEW z \in Nat
    PROVE  /\ s \o Zeroes(z) \in Seq(Nat)
           /\ Len(s \o Zeroes(z)) = Len(s) + z
           /\ \A k \in 1..(Len(s) + z) :
                (s \o Zeroes(z))[k] = IF k <= Len(s) THEN s[k] ELSE 0
<1>1. Zeroes(z) = [k \in 1..z |-> 0]
  BY DEF Zeroes
<1>2. Zeroes(z) \in Seq(Nat) /\ Len(Zeroes(z)) = z /\ \A k \in 1..z : Zeroes(z)[k] = 0
  BY <1>1
<1> QED BY <1>2

LEMMA ZeroesOnly ==
    ASSUME NEW z \in Nat
    PROVE  /\ <<>> \o Zeroes(z) \in Seq(Nat)
           /\ Len(<<>> \o Zeroes(z)) = z
           /\ \A k \in 1..z : (<<>> \o Zeroes(z))[k] = 0
<1>1. Zeroes(z) = [k \in 1..z |-> 0]
  BY DEF Zeroes
<1>2. Zeroes(z) \in Seq(Nat) /\ Len(Zeroes(z)) = z /\ \A k \in 1..z : Zeroes(z)[k] = 0
  BY <1>1
<1>3. <<>> \o Zeroes(z) = Zeroes(z)
  BY <1>2, ConcatEmptySeq
<1> QED BY <1>2, <1>3

LEMMA ExtendedHolds ==
    ASSUME NEW m \in Nat, NEW bl, WellFormed(bl, m), NEW n \in Nat, m < n
    PROVE  Holds(Extended(bl, m, n), n, Extension(bl, m, n))
<1> DEFINE q == m \div BlockSize
           r == m % BlockSize
           start == q * BlockSize
           tail == ReadBytes(bl, start, r)
           old(i) == IF i = q THEN ReadBytes(bl, i * BlockSize, m % BlockSize) ELSE <<>>
           length(i) == Smaller(n - i * BlockSize, BlockSize)
           added == [i \in q..(BlockCount(n) - 1) |->
                        old(i) \o Zeroes(length(i) - Len(old(i)))]
           new == Extended(bl, m, n)
           f == Extension(bl, m, n)
<1>1. /\ q \in Nat /\ start \in Nat /\ start = q * BlockSize
      /\ r \in Nat /\ r < BlockSize /\ m = start + r
  BY Place
<1>2. new = Replace(bl, added)
  BY DEF Extended
<1>3. /\ DOMAIN new = DOMAIN bl \cup (q..(BlockCount(n) - 1))
      /\ \A i \in q..(BlockCount(n) - 1) : new[i] = added[i]
      /\ \A i \in DOMAIN bl : i \notin q..(BlockCount(n) - 1) => new[i] = bl[i]
  BY <1>2 DEF Replace
<1>4. \A p \in 0..(n - 1) : f[p] = IF p < m THEN Byte(bl, p) ELSE 0
  BY DEF Extension
<1>5. ASSUME NEW i \in q..(BlockCount(n) - 1), i # q
      PROVE  added[i] = <<>> \o Zeroes(length(i))
  <2>1. i \in Nat
    BY <1>1, Counted
  <2>2. length(i) \in Int
    BY <2>1, BlockSizeAssumption, MultiplesAreApart DEF Smaller
  <2> QED BY <1>5, <2>2
<1>6. added[q] = tail \o Zeroes(Smaller(n - start, BlockSize) - Len(tail))
  <2>1. start < n
    BY <1>1
  <2>2. q \in q..(BlockCount(n) - 1)
    BY <1>1, <2>1, Counted
  <2> QED BY <2>2
<1> HIDE DEF q, r, start, tail, added, new, f
<1>7. BlockSize \in Nat /\ BlockSize > 0 /\ BlockCount(n) \in Nat
  BY BlockSizeAssumption, Counted
<1>8. \A i : i \in q..(BlockCount(n) - 1) <=> i \in Nat /\ q <= i /\ i * BlockSize < n
  <2>1. \A i : i \in q..(BlockCount(n) - 1) <=> i \in Nat /\ q <= i /\ i < BlockCount(n)
    BY <1>1, <1>7
  <2> QED BY <2>1, Counted
<1>9. ASSUME NEW i \in Nat, i < q
      PROVE  /\ i \in DOMAIN bl /\ i * BlockSize < n
             /\ i * BlockSize + BlockSize <= m
             /\ Smaller(BlockSize, n - i * BlockSize) = BlockSize
             /\ Smaller(BlockSize, m - i * BlockSize) = BlockSize
  <2>1. q * BlockSize <= n /\ q * BlockSize <= m
    BY <1>1
  <2>2. /\ i * BlockSize < n /\ i * BlockSize < m
        /\ i * BlockSize + BlockSize <= m
        /\ Smaller(BlockSize, n - i * BlockSize) = BlockSize
        /\ Smaller(BlockSize, m - i * BlockSize) = BlockSize
    BY <1>1, <1>9, <2>1, FullBefore
  <2> QED BY <2>2, Domains
<1>10. \A i : i \in DOMAIN new <=> i \in Nat /\ i * BlockSize < n
  <2>1. ASSUME NEW i \in DOMAIN bl
        PROVE  i \in Nat /\ i * BlockSize < n
    <3>1. i \in Nat /\ i * BlockSize < m
      BY Domains
    <3>2. i * BlockSize \in Int
      BY <3>1, MultiplesAreApart
    <3> QED BY <3>1, <3>2
  <2>2. ASSUME NEW i \in Nat, i * BlockSize < n
        PROVE  i \in DOMAIN bl \cup (q..(BlockCount(n) - 1))
    BY <1>1, <1>8, <1>9, <2>2
  <2> QED BY <1>3, <1>8, <2>1, <2>2
<1>11. ASSUME NEW i \in DOMAIN new
       PROVE  RowHolds(new, i, n, f)
  <2>1. i \in Nat /\ i * BlockSize \in Nat /\ i * BlockSize < n
    BY <1>10, MultiplesAreApart
  <2>2. CASE i < q
    <3>1. i \notin q..(BlockCount(n) - 1)
      BY <1>1, <1>8, <2>1, <2>2
    <3>2. i \in DOMAIN bl /\ new[i] = bl[i]
      BY <1>3, <1>9, <2>1, <2>2, <3>1
    <3>3. \A p \in 0..(m - 1) : f[p] = Byte(bl, p)
      BY <1>4
    <3>4. Smaller(BlockSize, n - i * BlockSize) = Smaller(BlockSize, m - i * BlockSize)
      BY <1>9, <2>1, <2>2
    <3>5. SameLength(i, m, n) /\ SameBytes(bl, i, m, f)
      BY <3>3, <3>4 DEF SameLength, SameBytes
    <3> QED BY <3>2, <3>5, RowKept
  <2>3. CASE i = q
    <3>1. new[i] = tail \o Zeroes(Smaller(n - start, BlockSize) - Len(tail))
      <4>1. i \in q..(BlockCount(n) - 1)
        BY <1>1, <1>8, <2>1, <2>3
      <4>2. new[i] = added[i]
        BY <1>3, <4>1
      <4> QED BY <1>6, <2>3, <4>2
    <3>2. /\ tail \in Seq(Nat) /\ Len(tail) = r
          /\ \A k \in 1..r : tail[k] = Byte(bl, start + k - 1)
      <4>1. start + r <= m
        BY <1>1
      <4>2. ReadGets(bl, start, r)
        BY <1>1, <4>1, ReadsSucceed
      <4> QED BY <4>2 DEF ReadGets, tail
    <3> DEFINE z == Smaller(n - start, BlockSize) - Len(tail)
    <3>3. z \in Nat /\ r + z = Smaller(BlockSize, n - start)
      BY <1>1, <1>7, <3>2 DEF Smaller
    <3>4. new[i] = tail \o Zeroes(z)
      BY <3>1
    <3> HIDE DEF z
    <3>5. /\ new[i] \in Seq(Nat) /\ Len(new[i]) = r + z
          /\ \A k \in 1..(r + z) : new[i][k] = IF k <= r THEN tail[k] ELSE 0
      <4>1. tail \in Seq(Nat) /\ z \in Nat /\ Len(tail) = r
        BY <3>2, <3>3
      <4> HIDE DEF tail
      <4> QED BY <3>4, <4>1, Padded
    <3>6. ASSUME NEW k \in 1..(r + z)
          PROVE  new[i][k] = f[start + k - 1]
      <4>1. start + k - 1 \in 0..(n - 1) /\ (start + k - 1 < m <=> k <= r)
        BY <1>1, <1>7, <3>3 DEF Smaller
      <4>2. f[start + k - 1] = IF k <= r THEN Byte(bl, start + k - 1) ELSE 0
        BY <1>4, <4>1
      <4>3. k <= r => tail[k] = Byte(bl, start + k - 1)
        BY <1>1, <3>2
      <4>4. new[i][k] = IF k <= r THEN tail[k] ELSE 0
        BY <3>5
      <4> QED BY <4>2, <4>3, <4>4
    <3> QED BY <1>1, <2>3, <3>3, <3>5, <3>6 DEF RowHolds
  <2>4. CASE q < i
    <3>1. start + BlockSize <= i * BlockSize
      <4>1. q < i => q * BlockSize + BlockSize <= i * BlockSize
        BY <1>1, <2>1, MultiplesAreApart
      <4> QED BY <1>1, <2>4, <4>1
    <3> DEFINE z == Smaller(n - i * BlockSize, BlockSize)
    <3>2. new[i] = <<>> \o Zeroes(z)
      BY <1>1, <1>3, <1>5, <1>8, <2>1, <2>4
    <3>3. z \in Nat /\ z = Smaller(BlockSize, n - i * BlockSize)
      BY <1>7, <2>1 DEF Smaller
    <3>4. z <= n - i * BlockSize
      BY <1>7, <2>1 DEF Smaller
    <3> HIDE DEF z
    <3>6. /\ new[i] \in Seq(Nat) /\ Len(new[i]) = z
          /\ \A k \in 1..z : new[i][k] = 0
      BY <3>2, <3>3, ZeroesOnly
    <3>7. ASSUME NEW k \in 1..z
          PROVE  new[i][k] = f[i * BlockSize + k - 1]
      <4>1. /\ i * BlockSize + k - 1 \in 0..(n - 1)
            /\ ~(i * BlockSize + k - 1 < m)
        BY <1>1, <1>7, <2>1, <3>1, <3>3, <3>4
      <4> QED BY <1>4, <3>6, <4>1
    <3> QED BY <3>3, <3>6, <3>7 DEF RowHolds
  <2> QED BY <1>1, <2>1, <2>2, <2>3, <2>4
<1> QED BY <1>10, <1>11, RowsHold DEF new, f

\* Whatever the size becomes, the bytes that stay are those that were there, and
\* the others are zero.
LEMMA ResizedHolds ==
    ASSUME NEW m \in Nat, NEW bl, WellFormed(bl, m), NEW n \in Nat
    PROVE  Holds(Resized(bl, m, n), n, Extension(bl, m, n))
<1>1. CASE m = n
  <2>1. Resized(bl, m, n) = bl
    BY <1>1 DEF Resized
  <2>2. \A p \in 0..(n - 1) : Byte(bl, p) = Extension(bl, m, n)[p]
    BY <1>1 DEF Extension
  <2> QED BY <1>1, <2>1, <2>2 DEF Holds
<1>2. CASE m < n
  BY <1>2, ExtendedHolds DEF Resized
<1>3. CASE n < m
  BY <1>3, TruncatedHolds DEF Resized
<1> QED BY <1>1, <1>2, <1>3
-----------------------------------------------------------------------------
(* sqlfs_write *)

\* The block the loop writes in its turn i, and the rows after the loop.
ChunkAt(bl, i, off, buf, sz, ns) ==
    IF Easy(i, off, buf, ns)
    THEN [k \in 1..ChunkSize(i, ns) |-> buf[CopyFrom(i, off) + k]]
    ELSE MixedChunk(bl, i, off, buf, sz, ns)

Written(bl, off, buf, sz, ns) ==
    Replace(bl, [i \in Chunks(off, buf) |-> ChunkAt(bl, i, off, buf, sz, ns)])

\* Position p is one that is written.
InBuf(p, off, buf) == off <= p /\ p < off + Len(buf)

\* The contents of bl after buf is written at off, to ns bytes.
Overwritten(bl, off, buf, ns) ==
    [p \in 0..(ns - 1) |-> IF InBuf(p, off, buf) THEN buf[p - off + 1]
                           ELSE Byte(bl, p)]

\* The size after a write to a file of sz bytes.
GrownTo(ns, sz, off, buf) ==
    /\ ns \in Nat /\ sz <= ns /\ off + Len(buf) <= ns
    /\ ns = sz \/ ns = off + Len(buf)

\* The position of a block, and what the loop computes from it.
Start(i) == i * BlockSize

LEMMA Starts ==
    ASSUME NEW i \in Nat
    PROVE  Start(i) \in Nat /\ BlockSize \in Nat /\ BlockSize > 0
  BY MultiplesAreApart DEF Start

LEMMA ChunkTerms ==
    ASSUME NEW i, NEW off, NEW buf, NEW ns, NEW sz
    PROVE  /\ ChunkSize(i, ns) = Smaller(ns - Start(i), BlockSize)
           /\ Easy(i, off, buf, ns) <=> /\ Start(i) >= off
                                        /\ Start(i) + ChunkSize(i, ns) <= off + Len(buf)
           /\ CopyTo(i, off) = Larger(0, off - Start(i))
           /\ CopyFrom(i, off) = Larger(0, Start(i) - off)
           /\ CopyCount(i, off, buf) =
                IF Start(i) < off THEN Smaller(BlockSize - CopyTo(i, off), Len(buf))
                ELSE Smaller(BlockSize, Len(buf) - CopyFrom(i, off))
           /\ BytesToRead(i, sz, ns) = Smaller(ChunkSize(i, ns), sz - Start(i))
  BY DEF Start, ChunkSize, Easy, CopyTo, CopyFrom, CopyCount, BytesToRead

LEMMA NewSizeGrown ==
    ASSUME NEW sz \in Nat, NEW off \in Nat, NEW buf \in Seq(Nat)
    PROVE  GrownTo(Larger(off + Len(buf), sz), sz, off, buf)
  BY DEF Larger, GrownTo

\* A chunk lies within the file.
LEMMA ChunkLies ==
    ASSUME NEW ns \in Nat, NEW i \in Nat, Start(i) < ns
    PROVE  /\ ChunkSize(i, ns) \in Nat /\ ChunkSize(i, ns) > 0
           /\ ChunkSize(i, ns) <= BlockSize
           /\ Start(i) + ChunkSize(i, ns) <= ns
           /\ ChunkSize(i, ns) = Smaller(BlockSize, ns - Start(i))
           /\ ChunkSize(i, ns) = BlockSize \/ ChunkSize(i, ns) = ns - Start(i)
<1>1. ChunkSize(i, ns) = Smaller(ns - Start(i), BlockSize)
  BY ChunkTerms
<1> QED BY <1>1, Starts DEF Smaller

\* A chunk given by its bytes.
LEMMA RowOfBytes ==
    ASSUME NEW ns \in Nat, NEW i \in Nat, Start(i) < ns, NEW new, NEW f,
           new[i] = [k \in 1..ChunkSize(i, ns) |-> new[i][k]],
           \A k \in 1..ChunkSize(i, ns) :
               new[i][k] \in Nat /\ new[i][k] = f[Start(i) + k - 1]
    PROVE  RowHolds(new, i, ns, f)
<1> DEFINE cs == ChunkSize(i, ns)
<1>1. cs \in Nat /\ cs = Smaller(BlockSize, ns - Start(i))
  BY ChunkLies
<1> HIDE DEF cs
<1>2. [k \in 1..cs |-> new[i][k]] \in Seq(Nat) /\ Len([k \in 1..cs |-> new[i][k]]) = cs
  BY <1>1 DEF cs
<1>3. new[i] \in Seq(Nat) /\ Len(new[i]) = cs
  BY <1>2 DEF cs
<1>4. \A k \in 1..Len(new[i]) : new[i][k] = f[Start(i) + k - 1]
  BY <1>3 DEF cs
<1> QED BY <1>1, <1>3, <1>4 DEF RowHolds, Start

LEMMA EasyChunkHolds ==
    ASSUME NEW off \in Nat, NEW buf \in Seq(Nat),
           NEW ns \in Nat, off + Len(buf) <= ns,
           NEW i \in Nat, Start(i) < ns, Easy(i, off, buf, ns),
           NEW bl, NEW sz, NEW new, new[i] = ChunkAt(bl, i, off, buf, sz, ns)
    PROVE  RowHolds(new, i, ns, Overwritten(bl, off, buf, ns))
<1> DEFINE cs == ChunkSize(i, ns)
           f == Overwritten(bl, off, buf, ns)
<1>1. Start(i) \in Nat /\ cs \in Nat /\ Start(i) + cs <= ns
  BY ChunkLies, Starts
<1>2. Start(i) >= off /\ Start(i) + cs <= off + Len(buf)
  BY ChunkTerms
<1>3. new[i] = [k \in 1..cs |-> buf[CopyFrom(i, off) + k]]
  BY DEF ChunkAt
<1>4. CopyFrom(i, off) = Start(i) - off
  <2>1. CopyFrom(i, off) = Larger(0, Start(i) - off)
    BY ChunkTerms
  <2> QED BY <1>1, <1>2, <2>1 DEF Larger
<1>5. \A p \in 0..(ns - 1) : off <= p /\ p < off + Len(buf) => f[p] = buf[p - off + 1]
  BY DEF Overwritten, InBuf
<1>6. new[i] = [k \in 1..cs |-> new[i][k]]
  BY <1>3
<1> HIDE DEF cs, f
<1>7. ASSUME NEW k \in 1..cs
      PROVE  new[i][k] \in Nat /\ new[i][k] = f[Start(i) + k - 1]
  <2> DEFINE p == Start(i) + k - 1
  <2>1. /\ p \in 0..(ns - 1) /\ off <= p /\ p < off + Len(buf)
        /\ p - off + 1 = CopyFrom(i, off) + k /\ p - off + 1 \in 1..Len(buf)
    <3>1. k \in Nat /\ k >= 1 /\ k <= cs /\ Len(buf) \in Nat
      BY <1>1
    <3>2. p \in 0..(ns - 1) /\ off <= p /\ p < off + Len(buf)
      BY <1>1, <1>2, <3>1
    <3>3. p - off + 1 = CopyFrom(i, off) + k /\ p - off + 1 \in 1..Len(buf)
      BY <1>1, <1>2, <1>4, <3>1
    <3> QED BY <3>2, <3>3
  <2> HIDE DEF p
  <2>2. f[p] = buf[p - off + 1]
    BY <1>5, <2>1
  <2>3. new[i][k] = buf[p - off + 1]
    BY <1>3, <2>1
  <2>4. buf[p - off + 1] \in Nat
    BY <2>1
  <2> QED BY <2>2, <2>3, <2>4 DEF p
<1> QED BY <1>6, <1>7, RowOfBytes DEF cs, f

\* Which bytes of a mixed chunk come from buf.
CopyIs(i, k, off, buf) ==
    /\ (CopyTo(i, off) < k /\ k <= CopyTo(i, off) + CopyCount(i, off, buf))
            <=> InBuf(Start(i) + k - 1, off, buf)
    /\ InBuf(Start(i) + k - 1, off, buf)
            => CopyFrom(i, off) + k - CopyTo(i, off) = Start(i) + k - 1 - off + 1

LEMMA CopyLies ==
    ASSUME NEW ns \in Nat, NEW off \in Nat, NEW buf \in Seq(Nat), NEW i \in Nat,
           Start(i) < off + Len(buf), off + Len(buf) <= ns,
           NEW k \in 1..ChunkSize(i, ns)
    PROVE  CopyIs(i, k, off, buf)
<1> DEFINE L == Len(buf)
<1>1. Start(i) \in Nat /\ BlockSize \in Nat /\ BlockSize > 0 /\ L \in Nat
  BY Starts
<1>2. k \in Nat /\ k >= 1 /\ k <= BlockSize
  <2>1. Start(i) < ns
    BY <1>1
  <2> QED BY <1>1, <2>1, ChunkLies
<1>3. /\ CopyTo(i, off) = Larger(0, off - Start(i))
      /\ CopyFrom(i, off) = Larger(0, Start(i) - off)
      /\ CopyCount(i, off, buf) =
            IF Start(i) < off THEN Smaller(BlockSize - CopyTo(i, off), L)
            ELSE Smaller(BlockSize, L - CopyFrom(i, off))
  BY ChunkTerms
<1>4. Start(i) < off + L
  OBVIOUS
<1> HIDE DEF L
<1>5. CASE Start(i) < off
  <2>1. CopyTo(i, off) = off - Start(i) /\ CopyFrom(i, off) = 0
    BY <1>1, <1>3, <1>5 DEF Larger
  <2>2. CopyCount(i, off, buf) = Smaller(BlockSize - (off - Start(i)), L)
    BY <1>3, <1>5, <2>1
  <2>3. off <= Start(i) + k - 1 <=> CopyTo(i, off) < k
    BY <1>1, <1>2, <1>5, <2>1
  <2>4. Start(i) + k - 1 < off + L
            <=> k <= CopyTo(i, off) + CopyCount(i, off, buf)
    BY <1>1, <1>2, <1>4, <1>5, <2>1, <2>2 DEF Smaller
  <2>5. CopyFrom(i, off) + k - CopyTo(i, off) = Start(i) + k - 1 - off + 1
    BY <1>1, <1>2, <2>1
  <2> QED BY <2>3, <2>4, <2>5 DEF L, InBuf, CopyIs
<1>6. CASE ~(Start(i) < off)
  <2>1. CopyTo(i, off) = 0 /\ CopyFrom(i, off) = Start(i) - off
    BY <1>1, <1>3, <1>6 DEF Larger
  <2>2. CopyCount(i, off, buf) = Smaller(BlockSize, L - (Start(i) - off))
    BY <1>3, <1>6, <2>1
  <2>3. off <= Start(i) + k - 1 <=> CopyTo(i, off) < k
    BY <1>1, <1>2, <1>6, <2>1
  <2>4. Start(i) + k - 1 < off + L
            <=> k <= CopyTo(i, off) + CopyCount(i, off, buf)
    BY <1>1, <1>2, <1>4, <1>6, <2>1, <2>2 DEF Smaller
  <2>5. CopyFrom(i, off) + k - CopyTo(i, off) = Start(i) + k - 1 - off + 1
    BY <1>1, <1>2, <2>1
  <2> QED BY <2>3, <2>4, <2>5 DEF L, InBuf, CopyIs
<1> QED BY <1>5, <1>6
LEMMA MixedChunkHolds ==
    ASSUME NEW sz \in Nat, NEW bl, WellFormed(bl, sz), NEW off \in Nat, off <= sz,
           NEW buf \in Seq(Nat), NEW ns \in Nat, GrownTo(ns, sz, off, buf),
           NEW i \in Nat, Start(i) < off + Len(buf),
           ~Easy(i, off, buf, ns), BytesToRead(i, sz, ns) > 0,
           NEW new, new[i] = ChunkAt(bl, i, off, buf, sz, ns)
    PROVE  RowHolds(new, i, ns, Overwritten(bl, off, buf, ns))
<1> DEFINE cs == ChunkSize(i, ns)
           btr == BytesToRead(i, sz, ns)
           old == ReadBytes(bl, Start(i), btr)
           f == Overwritten(bl, off, buf, ns)
           to == CopyTo(i, off)
           count == CopyCount(i, off, buf)
           from == CopyFrom(i, off)
<1>1. /\ Len(buf) \in Nat /\ off + Len(buf) <= ns /\ sz <= ns
      /\ ns = sz \/ ns = off + Len(buf)
  BY DEF GrownTo
<1>2. Start(i) \in Nat /\ Start(i) < ns
  <2>1. Start(i) \in Nat
    BY Starts
  <2> QED BY <1>1, <2>1
<1>3. cs \in Nat /\ Start(i) + cs <= ns
  BY <1>2, ChunkLies
<1>4. btr = Smaller(cs, sz - Start(i))
  BY ChunkTerms
<1>5. btr > 0
  OBVIOUS
<1>6. new[i] = [k \in 1..cs |->
                  IF to < k /\ k <= to + count THEN buf[from + k - to]
                  ELSE IF k <= Len(old) THEN old[k] ELSE Garbage]
  BY DEF ChunkAt, MixedChunk, Start
<1>7. new[i] = [k \in 1..cs |-> new[i][k]]
  BY <1>6
<1>8. \A k \in 1..cs : CopyIs(i, k, off, buf)
  BY <1>1, CopyLies
<1>9. \A p \in 0..(ns - 1) :
        f[p] = IF InBuf(p, off, buf) THEN buf[p - off + 1] ELSE Byte(bl, p)
  BY DEF Overwritten
<1> HIDE DEF cs, btr, old, f, to, count, from
<1>10. btr \in Nat /\ btr <= cs /\ Start(i) + btr <= sz
       /\ (btr = cs \/ btr = sz - Start(i))
  BY <1>2, <1>3, <1>4, <1>5 DEF Smaller
<1>11. Len(old) = btr /\ \A k \in 1..btr : old[k] = Byte(bl, Start(i) + k - 1)
  <2>1. ReadGets(bl, Start(i), btr)
    BY <1>2, <1>10, ReadsSucceed
  <2> QED BY <2>1 DEF ReadGets, old
<1>12. ASSUME NEW k \in 1..cs
       PROVE  new[i][k] \in Nat /\ new[i][k] = f[Start(i) + k - 1]
  <2> DEFINE p == Start(i) + k - 1
  <2>1. p \in 0..(ns - 1) /\ p \in Nat
    BY <1>2, <1>3
  <2>2. new[i][k] = IF to < k /\ k <= to + count THEN buf[from + k - to]
                    ELSE IF k <= Len(old) THEN old[k] ELSE Garbage
    BY <1>6
  <2>3. /\ (to < k /\ k <= to + count) <=> InBuf(p, off, buf)
        /\ InBuf(p, off, buf) => from + k - to = p - off + 1
    <3>1. CopyIs(i, k, off, buf)
      BY <1>8
    <3>2. InBuf(p, off, buf) => from + k - to = p - off + 1
      BY <1>2, <1>3, <3>1 DEF CopyIs, to, count, from
    <3>3. (to < k /\ k <= to + count) => InBuf(p, off, buf)
      BY <3>1 DEF CopyIs, to, count, from
    <3>4. InBuf(p, off, buf) => (to < k /\ k <= to + count)
      BY <3>1 DEF CopyIs, to, count, from
    <3> QED BY <3>2, <3>3, <3>4
  <2>4. k \in Nat /\ k >= 1 /\ k <= cs /\ p = Start(i) + k - 1
    BY <1>3
  <2> HIDE DEF p
  <2>5. CASE InBuf(p, off, buf)
    <3>1. new[i][k] = buf[p - off + 1]
      BY <2>2, <2>3, <2>5
    <3>2. p - off + 1 \in 1..Len(buf)
      BY <1>1, <2>1, <2>5 DEF InBuf
    <3>3. buf[p - off + 1] \in Nat
      BY <3>2
    <3>4. f[p] = buf[p - off + 1]
      BY <1>9, <2>1, <2>5
    <3> QED BY <3>1, <3>3, <3>4 DEF p
  <2>6. CASE ~InBuf(p, off, buf)
    <3>1. p < sz
      BY <1>1, <2>1, <2>6 DEF InBuf
    <3>2. k <= btr /\ k \in 1..btr
      BY <1>2, <1>10, <2>4, <3>1
    <3>3. new[i][k] = old[k]
      BY <1>11, <2>2, <2>3, <2>6, <3>2
    <3>4. old[k] = Byte(bl, p)
      BY <1>11, <3>2 DEF p
    <3>5. f[p] = Byte(bl, p)
      BY <1>9, <2>1, <2>6
    <3>6. Byte(bl, p) \in Nat
      BY <2>1, <3>1, ByteIn
    <3> QED BY <3>3, <3>4, <3>5, <3>6 DEF p
  <2> QED BY <2>5, <2>6
<1> QED BY <1>2, <1>7, <1>12, RowOfBytes DEF cs, f

\* The blocks the loop writes are those of the range.
LEMMA ChunksAre ==
    ASSUME NEW off \in Nat, NEW buf \in Seq(Nat)
    PROVE  \A i : i \in Chunks(off, buf) <=>
                /\ i \in Nat
                /\ off \div BlockSize <= i
                /\ Start(i) < off + Len(buf)
<1>1. off \div BlockSize \in Nat
  BY Place
<1>2. ASSUME NEW i \in Nat
      PROVE  Start(i) \in Nat /\ Start(i) >= i
  <2>1. i \in Int /\ i >= 0
    OBVIOUS
  <2>2. i * BlockSize \in Int /\ i * BlockSize >= i
    BY <2>1, MultiplesAreApart
  <2> QED BY <2>2 DEF Start
<1>3. \A i : i \in Chunks(off, buf) <=> /\ i \in (off \div BlockSize)..(off + Len(buf))
                                        /\ Start(i) < off + Len(buf)
  BY DEF Chunks, Start
<1>4. ASSUME NEW i
      PROVE  /\ i \in (off \div BlockSize)..(off + Len(buf)) =>
                    i \in Nat /\ off \div BlockSize <= i
             /\ (i \in Nat /\ off \div BlockSize <= i /\ Start(i) < off + Len(buf))
                    => i \in (off \div BlockSize)..(off + Len(buf))
  <2>1. i \in Nat => Start(i) \in Nat /\ Start(i) >= i
    BY <1>2
  <2>2. Len(buf) \in Nat
    OBVIOUS
  <2> QED BY <1>1, <2>1, <2>2
<1> QED BY <1>3, <1>4

\* Where the first block of the range lies.
LEMMA FirstChunk ==
    ASSUME NEW off \in Nat, NEW i \in Nat
    PROVE  /\ i < off \div BlockSize => Start(i) + BlockSize <= off
           /\ i > off \div BlockSize => off < Start(i)
           /\ Start(off \div BlockSize) <= off
           /\ off < Start(off \div BlockSize) + BlockSize
<1> DEFINE q == off \div BlockSize
           r == off % BlockSize
<1>1. /\ q \in Nat /\ r \in Nat /\ r < BlockSize
      /\ off = q * BlockSize + r
  BY Place
<1> HIDE DEF q, r
<1>2. Start(q) \in Nat /\ Start(i) \in Nat /\ BlockSize \in Nat /\ off = Start(q) + r
  BY <1>1, Starts DEF Start
<1>3. i < q => Start(i) + BlockSize <= Start(q)
  BY <1>1, MultiplesAreApart DEF Start
<1>4. q < i => Start(q) + BlockSize <= Start(i)
  BY <1>1, MultiplesAreApart DEF Start
<1>5. /\ i < q => Start(i) + BlockSize <= off
      /\ i > q => off < Start(i)
      /\ Start(q) <= off /\ off < Start(q) + BlockSize
  BY <1>1, <1>2, <1>3, <1>4
<1> QED BY <1>5 DEF q
\* What the loop leaves, when its checks have passed.
LEMMA WrittenHolds ==
    ASSUME NEW sz \in Nat, NEW bl, WellFormed(bl, sz), NEW off \in Nat, off <= sz,
           NEW buf \in Seq(Nat), NEW ns \in Nat, GrownTo(ns, sz, off, buf),
           WriteChecks(off, buf, sz, ns)
    PROVE  Holds(Written(bl, off, buf, sz, ns), ns, Overwritten(bl, off, buf, ns))
<1> DEFINE q == off \div BlockSize
           new == Written(bl, off, buf, sz, ns)
           f == Overwritten(bl, off, buf, ns)
<1>1. /\ Len(buf) \in Nat /\ off + Len(buf) <= ns /\ sz <= ns
      /\ ns = sz \/ ns = off + Len(buf)
  BY DEF GrownTo
<1>2. /\ DOMAIN new = DOMAIN bl \cup Chunks(off, buf)
      /\ \A i \in Chunks(off, buf) : new[i] = ChunkAt(bl, i, off, buf, sz, ns)
      /\ \A i \in DOMAIN bl : i \notin Chunks(off, buf) => new[i] = bl[i]
  BY DEF Written, Replace
<1>3. \A i : i \in Chunks(off, buf) <=>
                i \in Nat /\ q <= i /\ Start(i) < off + Len(buf)
  BY ChunksAre
<1>4. \A i : i \in DOMAIN bl <=> i \in Nat /\ Start(i) < sz
  BY Domains DEF Start
<1>5. \A p \in 0..(ns - 1) : ~InBuf(p, off, buf) => f[p] = Byte(bl, p)
  BY DEF Overwritten
<1>6. q \in Nat
  BY Place
<1>7. ASSUME NEW i \in Nat
      PROVE  /\ Start(i) \in Nat /\ BlockSize \in Nat /\ BlockSize > 0
             /\ i < q => Start(i) + BlockSize <= off
  BY Starts, FirstChunk
<1> HIDE DEF q, new, f
<1>8. \A i : i \in DOMAIN new <=> i \in Nat /\ Start(i) < ns
  <2>1. ASSUME NEW i \in DOMAIN new
        PROVE  i \in Nat /\ Start(i) < ns
    <3>1. i \in Nat /\ (Start(i) < sz \/ Start(i) < off + Len(buf))
      BY <1>2, <1>3, <1>4
    <3>2. Start(i) \in Nat
      BY <1>7, <3>1
    <3> QED BY <1>1, <3>1, <3>2
  <2>2. ASSUME NEW i \in Nat, Start(i) < ns
        PROVE  i \in DOMAIN new
    <3>1. Start(i) \in Nat /\ BlockSize \in Nat /\ BlockSize > 0
      BY <1>7
    <3>2. CASE i < q
      <4>1. Start(i) + BlockSize <= off
        BY <1>7, <3>2
      <4>2. Start(i) < sz
        BY <3>1, <4>1
      <4> QED BY <1>2, <1>4, <4>2
    <3>3. CASE q <= i
      <4>1. Start(i) < sz \/ Start(i) < off + Len(buf)
        BY <1>1, <2>2, <3>1
      <4> QED BY <1>2, <1>3, <1>4, <3>3, <4>1
    <3> QED BY <1>6, <3>2, <3>3
  <2> QED BY <2>1, <2>2
<1>9. ASSUME NEW i \in DOMAIN new
      PROVE  RowHolds(new, i, ns, f)
  <2>1. i \in Nat /\ Start(i) < ns /\ Start(i) \in Nat /\ BlockSize \in Nat /\ BlockSize > 0
    BY <1>7, <1>8
  <2>2. CASE i \in Chunks(off, buf)
    <3>1. Start(i) < off + Len(buf) /\ new[i] = ChunkAt(bl, i, off, buf, sz, ns)
      BY <1>2, <1>3, <2>2
    <3>2. CASE Easy(i, off, buf, ns)
      BY <1>1, <2>1, <3>1, <3>2, EasyChunkHolds DEF f
    <3>3. CASE ~Easy(i, off, buf, ns)
      <4>1. BytesToRead(i, sz, ns) > 0
        BY <2>2, <3>3 DEF WriteChecks
      <4> QED BY <2>1, <3>1, <3>3, <4>1, MixedChunkHolds DEF f
    <3> QED BY <3>2, <3>3
  <2>3. CASE i \notin Chunks(off, buf)
    <3>1. i \in DOMAIN bl /\ new[i] = bl[i]
      BY <1>2, <2>3
    <3>2. Start(i) < sz
      BY <1>4, <3>1
    <3>3. CASE i < q
      <4>1. Start(i) + BlockSize <= off
        BY <1>7, <2>1, <3>3
      <4>2. Smaller(BlockSize, ns - Start(i)) = Smaller(BlockSize, sz - Start(i))
        BY <1>1, <2>1, <4>1 DEF Smaller
      <4>3. ASSUME NEW p \in 0..(sz - 1), p < Start(i) + BlockSize
            PROVE  f[p] = Byte(bl, p)
        <5>1. p \in 0..(ns - 1)
          BY <1>1
        <5>2. ~InBuf(p, off, buf)
          BY <2>1, <4>1, <4>3 DEF InBuf
        <5> QED BY <1>5, <5>1, <5>2
      <4>4. SameLength(i, sz, ns) /\ SameBytes(bl, i, sz, f)
        BY <4>2, <4>3 DEF SameLength, SameBytes, Start
      <4> QED BY <3>1, <4>4, RowKept
    <3>4. CASE q <= i
      <4>1. ~(Start(i) < off + Len(buf))
        BY <1>3, <2>1, <2>3, <3>4
      <4>2. ns = sz
        BY <1>1, <2>1, <3>2, <4>1
      <4>3. ASSUME NEW p \in 0..(sz - 1), Start(i) <= p
            PROVE  f[p] = Byte(bl, p)
        <5>1. p \in 0..(ns - 1)
          BY <1>1
        <5>2. ~InBuf(p, off, buf)
          BY <1>1, <2>1, <4>1, <4>3 DEF InBuf
        <5> QED BY <1>5, <5>1, <5>2
      <4>4. SameLength(i, sz, ns) /\ SameBytes(bl, i, sz, f)
        BY <4>2, <4>3 DEF SameLength, SameBytes, Start
      <4> QED BY <3>1, <4>4, RowKept
    <3> QED BY <1>6, <2>1, <3>3, <3>4
  <2> QED BY <2>2, <2>3
<1> QED BY <1>8, <1>9, RowsHold DEF new, f, Start

\* A chunk that is not copied from buf as a whole is the first, or the last one
\* of the range, before which there is then none.
LEMMA MixedAre ==
    ASSUME NEW sz \in Nat, NEW off \in Nat, off <= sz,
           NEW buf \in Seq(Nat), NEW ns \in Nat, GrownTo(ns, sz, off, buf),
           NEW i \in Chunks(off, buf), ~Easy(i, off, buf, ns)
    PROVE  \/ i = off \div BlockSize
           \/ Start(i) + BlockSize > off + Len(buf)
<1>1. off + Len(buf) <= ns /\ Len(buf) \in Nat
  BY DEF GrownTo
<1>2. i \in Nat /\ off \div BlockSize <= i /\ Start(i) < off + Len(buf)
  BY ChunksAre
<1>3. Start(i) \in Nat /\ Start(i) < ns /\ off \div BlockSize \in Nat
  <2>1. Start(i) \in Nat /\ off \div BlockSize \in Nat
    BY <1>2, Starts, Place
  <2> QED BY <1>1, <1>2, <2>1
<1>4. ChunkSize(i, ns) \in Nat /\ ChunkSize(i, ns) <= BlockSize /\ BlockSize \in Nat
  BY <1>2, <1>3, ChunkLies, Starts
<1>5. i > off \div BlockSize => off < Start(i)
  BY <1>2, FirstChunk
<1>6. ~(Start(i) >= off /\ Start(i) + ChunkSize(i, ns) <= off + Len(buf))
  BY ChunkTerms
<1> QED BY <1>1, <1>2, <1>3, <1>4, <1>5, <1>6
\* The chunks in which old bytes stay, as in WriteChecks.
Mixed(off, buf, ns) == {i \in Chunks(off, buf) : ~Easy(i, off, buf, ns)}

LEMMA FirstMixed ==
    ASSUME NEW sz \in Nat, NEW off \in Nat, off <= sz,
           NEW buf \in Seq(Nat), NEW ns \in Nat, GrownTo(ns, sz, off, buf),
           NEW i \in Mixed(off, buf, ns)
    PROVE  /\ Min(Mixed(off, buf, ns)) \in Mixed(off, buf, ns)
           /\ Min(Mixed(off, buf, ns)) <= i
<1> DEFINE S == Mixed(off, buf, ns)
           q == off \div BlockSize
<1>1. \A j \in S : j \in Nat /\ q <= j /\ Start(j) < off + Len(buf)
  BY ChunksAre DEF Mixed
<1>2. \A j \in S : j = q \/ Start(j) + BlockSize > off + Len(buf)
  BY MixedAre DEF Mixed
<1>3. q \in Nat /\ Len(buf) \in Nat
  <2>1. q \in Nat
    BY Place
  <2> QED BY <2>1
<1>4. i \in S
  OBVIOUS
<1> HIDE DEF S, q
<1>5. \E m \in S : \A j \in S : m <= j
  <2>1. CASE q \in S
    BY <1>1, <2>1
  <2>2. CASE q \notin S
    <3>1. ASSUME NEW j \in S, NEW k \in S
          PROVE  ~(j < k)
      <4>1. j \in Nat /\ k \in Nat /\ Start(k) < off + Len(buf)
        BY <1>1
      <4>2. Start(j) + BlockSize > off + Len(buf)
        BY <1>2, <2>2
      <4>3. Start(j) \in Nat /\ Start(k) \in Nat /\ BlockSize \in Nat
        BY <4>1, Starts
      <4>4. j < k => Start(j) + BlockSize <= Start(k)
        BY <4>1, MultiplesAreApart DEF Start
      <4> QED BY <1>3, <4>1, <4>2, <4>3, <4>4
    <3>2. \A j \in S : i <= j
      BY <1>1, <1>4, <3>1
    <3> QED BY <1>4, <3>2
  <2> QED BY <2>1, <2>2
<1>6. Min(S) \in S /\ \A j \in S : Min(S) <= j
  BY <1>5 DEF Min
<1> QED BY <1>4, <1>6 DEF S

\* What is copied into the temporary block, and what is read into it.
LEMMA MixedFits ==
    ASSUME NEW sz \in Nat, NEW off \in Nat, off <= sz,
           NEW buf \in Seq(Nat), Len(buf) > 0,
           NEW ns \in Nat, GrownTo(ns, sz, off, buf),
           NEW i \in Mixed(off, buf, ns)
    PROVE  /\ BytesToRead(i, sz, ns) > 0
           /\ CopyCount(i, off, buf) > 0
           /\ CopyCount(i, off, buf) <= ChunkSize(i, ns)
           /\ CopyTo(i, off) + CopyCount(i, off, buf) <= ChunkSize(i, ns)
           /\ CopyTo(i, off) + CopyCount(i, off, buf) \in Int
<1> DEFINE s == Start(i)
           L == Len(buf)
           cs == ChunkSize(i, ns)
<1>1. /\ L \in Nat /\ off + L <= ns /\ sz <= ns /\ (ns = sz \/ ns = off + L)
  BY DEF GrownTo
<1>2. i \in Nat /\ off \div BlockSize <= i /\ s < off + L
  BY ChunksAre DEF Mixed
<1>3. s \in Nat /\ BlockSize \in Nat /\ BlockSize > 0 /\ off \div BlockSize \in Nat
  BY <1>2, Starts, Place
<1>4. s < ns
  BY <1>1, <1>2, <1>3
<1>5. /\ cs \in Nat /\ cs > 0 /\ s + cs <= ns /\ cs = Smaller(BlockSize, ns - s)
  BY <1>2, <1>4, ChunkLies
<1>6. ~(s >= off /\ s + cs <= off + L)
  BY ChunkTerms DEF Mixed
<1>7. /\ BytesToRead(i, sz, ns) = Smaller(cs, sz - s)
      /\ CopyTo(i, off) = Larger(0, off - s)
      /\ CopyFrom(i, off) = Larger(0, s - off)
      /\ CopyCount(i, off, buf) =
            IF s < off THEN Smaller(BlockSize - CopyTo(i, off), L)
            ELSE Smaller(BlockSize, L - CopyFrom(i, off))
  BY ChunkTerms
<1>8. s < off => off < s + BlockSize
  <2>1. i > off \div BlockSize => off < s
    BY <1>2, FirstChunk
  <2>2. i = off \div BlockSize => off < s + BlockSize
    BY <1>2, FirstChunk
  <2> QED BY <1>2, <1>3, <2>1, <2>2
<1>9. L > 0
  OBVIOUS
<1> HIDE DEF s, L, cs
<1>10. BytesToRead(i, sz, ns) > 0
  <2>1. s < sz
    BY <1>1, <1>3, <1>4, <1>5, <1>6
  <2> QED BY <1>3, <1>5, <1>7, <2>1 DEF Smaller
<1>11. CASE s < off
  <2>1. CopyTo(i, off) = off - s
    BY <1>3, <1>7, <1>11 DEF Larger
  <2>2. CopyCount(i, off, buf) = Smaller(BlockSize - (off - s), L)
    BY <1>7, <1>11, <2>1
  <2>3. /\ CopyCount(i, off, buf) > 0 /\ off - s + CopyCount(i, off, buf) <= cs
        /\ CopyCount(i, off, buf) \in Int
    BY <1>1, <1>3, <1>5, <1>8, <1>9, <1>11, <2>2 DEF Smaller
  <2>4. CopyCount(i, off, buf) <= cs
    BY <1>3, <1>5, <1>11, <2>3
  <2> QED BY <1>3, <1>10, <2>1, <2>3, <2>4 DEF cs
<1>12. CASE ~(s < off)
  <2>1. CopyTo(i, off) = 0 /\ CopyFrom(i, off) = s - off
    BY <1>3, <1>7, <1>12 DEF Larger
  <2>2. CopyCount(i, off, buf) = Smaller(BlockSize, L - (s - off))
    BY <1>7, <1>12, <2>1
  <2>3. /\ CopyCount(i, off, buf) > 0 /\ CopyCount(i, off, buf) <= cs
        /\ CopyCount(i, off, buf) \in Int
    BY <1>1, <1>2, <1>3, <1>5, <1>12, <2>2 DEF Smaller
  <2> QED BY <1>10, <2>1, <2>3 DEF cs
<1> QED BY <1>11, <1>12

\* No write of a byte or more fails a check of the loop.
LEMMA ChecksHold ==
    ASSUME NEW sz \in Nat, NEW off \in Nat, off <= sz,
           NEW buf \in Seq(Nat), Len(buf) > 0,
           NEW ns \in Nat, GrownTo(ns, sz, off, buf)
    PROVE  WriteChecks(off, buf, sz, ns)
<1>1. ASSUME NEW i \in Chunks(off, buf)
      PROVE  /\ i \in Nat /\ Start(i) \in Nat /\ Start(i) < ns
             /\ ChunkSize(i, ns) \in Nat /\ ChunkSize(i, ns) > 0
             /\ ChunkSize(i, ns) = Smaller(BlockSize, ns - Start(i))
  <2>1. i \in Nat /\ Start(i) < off + Len(buf)
    BY ChunksAre
  <2>2. off + Len(buf) <= ns /\ Len(buf) \in Nat
    BY DEF GrownTo
  <2>3. Start(i) \in Nat
    BY <2>1, Starts
  <2>4. Start(i) < ns
    BY <2>1, <2>2, <2>3
  <2> QED BY <2>1, <2>3, <2>4, ChunkLies
<1>2. ASSUME NEW i \in Mixed(off, buf, ns)
      PROVE  ChunkSize(i, ns) <= ChunkSize(Min(Mixed(off, buf, ns)), ns)
  <2> DEFINE j == Min(Mixed(off, buf, ns))
  <2>1. j \in Chunks(off, buf) /\ j <= i /\ i \in Chunks(off, buf)
    BY FirstMixed DEF Mixed
  <2> HIDE DEF j
  <2>2. /\ i \in Nat /\ Start(i) \in Nat /\ Start(i) < ns
        /\ ChunkSize(i, ns) = Smaller(BlockSize, ns - Start(i))
    BY <1>1, <2>1
  <2>3. /\ j \in Nat /\ Start(j) \in Nat /\ Start(j) < ns
        /\ ChunkSize(j, ns) = Smaller(BlockSize, ns - Start(j))
    BY <1>1, <2>1
  <2>4. BlockSize \in Nat
    BY BlockSizeAssumption
  <2>5. j < i => Start(j) + BlockSize <= Start(i)
    BY <2>2, <2>3, MultiplesAreApart DEF Start
  <2>6. Start(j) <= Start(i)
    BY <2>1, <2>2, <2>3, <2>4, <2>5
  <2> QED BY <2>2, <2>3, <2>4, <2>6 DEF Smaller, j
<1>3. ASSUME NEW i \in Mixed(off, buf, ns)
      PROVE  /\ BytesToRead(i, sz, ns) > 0
             /\ CopyCount(i, off, buf) > 0
             /\ CopyCount(i, off, buf) <= ChunkSize(i, ns)
             /\ CopyTo(i, off) + CopyCount(i, off, buf)
                    <= ChunkSize(Min(Mixed(off, buf, ns)), ns)
  <2> DEFINE copied == CopyTo(i, off) + CopyCount(i, off, buf)
  <2>1. /\ BytesToRead(i, sz, ns) > 0 /\ CopyCount(i, off, buf) > 0
        /\ CopyCount(i, off, buf) <= ChunkSize(i, ns)
        /\ copied <= ChunkSize(i, ns) /\ copied \in Int
    BY MixedFits
  <2>2. /\ ChunkSize(i, ns) \in Nat
        /\ ChunkSize(Min(Mixed(off, buf, ns)), ns) \in Nat
    BY <1>1, FirstMixed DEF Mixed
  <2> HIDE DEF copied
  <2>3. copied <= ChunkSize(Min(Mixed(off, buf, ns)), ns)
    BY <1>2, <2>1, <2>2
  <2> QED BY <2>1, <2>3 DEF copied
<1> QED BY <1>1, <1>2, <1>3 DEF WriteChecks, Mixed
-----------------------------------------------------------------------------
(* The inductive invariant. What the run checks of blocks is not inductive:   *)
(* a row of the right length whose bytes are not set would be read and        *)
(* written back.                                                              *)

DInv ==
    /\ size \in Nat
    /\ WellFormed(blocks, size)
    /\ err \in {"OK", "EIO", "EINVAL", "ABORT"}

\* What a write of buf at off makes of bl, which has m bytes, zeroes in a gap.
WrittenTo(bl, m, off, buf, n) ==
    [p \in 0..(n - 1) |-> IF InBuf(p, off, buf) THEN buf[p - off + 1]
                          ELSE IF p < m THEN Byte(bl, p) ELSE 0]

LEMMA BuffersAre ==
    ASSUME NEW buf \in Buffers
    PROVE  buf \in Seq(Nat) /\ Len(buf) \in Nat
  BY BuffersAssumption

\* The extension to off, if there is one, is done before the loop.
LEMMA ExtendedFirst ==
    ASSUME DInv, NEW off \in Nat
    PROVE  LET bl == IF off > size THEN Resized(blocks, size, off) ELSE blocks
               sz == IF off > size THEN off ELSE size
           IN  /\ sz \in Nat /\ off <= sz /\ size <= sz
               /\ Holds(bl, sz, Extension(blocks, size, sz))
<1>0. size \in Nat /\ WellFormed(blocks, size)
  BY DEF DInv
<1>1. CASE off > size
  BY <1>0, <1>1, ResizedHolds
<1>2. CASE ~(off > size)
  <2>1. \A p \in 0..(size - 1) : Byte(blocks, p) = Extension(blocks, size, size)[p]
    BY <1>0 DEF Extension
  <2> QED BY <1>0, <1>2, <2>1 DEF Holds
<1> QED BY <1>1, <1>2

\* A write either fails a check, which it does only if it has no bytes, or does
\* what it is to do.
LEMMA WriteHolds ==
    ASSUME DInv, NEW off \in Nat, NEW buf \in Buffers, Write(off, buf)
    PROVE  \/ /\ err' = "ABORT" /\ size' = size /\ blocks' = blocks
              /\ ~(Len(buf) > 0)
           \/ /\ err' = "OK" /\ size' = Larger(off + Len(buf), size) /\ size' \in Nat
              /\ Holds(blocks', size', WrittenTo(blocks, size, off, buf, size'))
<1> DEFINE bl == IF off > size THEN Resized(blocks, size, off) ELSE blocks
           sz == IF off > size THEN off ELSE size
           ns == NewSize(off, buf)
<1>1. buf \in Seq(Nat) /\ Len(buf) \in Nat /\ size \in Nat
  BY BuffersAre DEF DInv
<1>2. /\ sz \in Nat /\ off <= sz /\ size <= sz
      /\ Holds(bl, sz, Extension(blocks, size, sz))
  BY ExtendedFirst
<1>3. ns = Larger(off + Len(buf), size) /\ ns = Larger(off + Len(buf), sz)
  BY <1>1 DEF NewSize, Larger
<1>4. IF WriteChecks(off, buf, sz, ns)
      THEN blocks' = Written(bl, off, buf, sz, ns) /\ size' = ns /\ err' = "OK"
      ELSE err' = "ABORT" /\ UNCHANGED <<size, blocks>>
  BY DEF Write, Written, ChunkAt
<1> HIDE DEF bl, sz, ns
<1>5. GrownTo(ns, sz, off, buf) /\ ns \in Nat
  BY <1>1, <1>2, <1>3, NewSizeGrown DEF GrownTo
<1>6. CASE WriteChecks(off, buf, sz, ns)
  <2>1. blocks' = Written(bl, off, buf, sz, ns) /\ size' = ns /\ err' = "OK"
    BY <1>4, <1>6
  <2>2. WellFormed(bl, sz)
    BY <1>2 DEF Holds
  <2>3. Holds(blocks', ns, Overwritten(bl, off, buf, ns))
    BY <1>1, <1>2, <1>5, <1>6, <2>1, <2>2, WrittenHolds
  <2>4. ASSUME NEW p \in 0..(ns - 1)
        PROVE  Overwritten(bl, off, buf, ns)[p] = WrittenTo(blocks, size, off, buf, ns)[p]
    <3>1. CASE InBuf(p, off, buf)
      BY <3>1 DEF Overwritten, WrittenTo
    <3>2. CASE ~InBuf(p, off, buf)
      <4>1. p \in 0..(sz - 1)
        BY <1>1, <1>2, <1>5, <3>2 DEF GrownTo, InBuf
      <4>2. Byte(bl, p) = IF p < size THEN Byte(blocks, p) ELSE 0
        BY <1>2, <4>1 DEF Holds, Extension
      <4> QED BY <3>2, <4>2 DEF Overwritten, WrittenTo
    <3> QED BY <3>1, <3>2
  <2>5. Holds(blocks', ns, WrittenTo(blocks, size, off, buf, ns))
    BY <2>3, <2>4 DEF Holds
  <2> QED BY <1>3, <1>5, <2>1, <2>5
<1>7. CASE ~WriteChecks(off, buf, sz, ns)
  <2>1. err' = "ABORT" /\ size' = size /\ blocks' = blocks
    BY <1>4, <1>7
  <2>2. ~(Len(buf) > 0)
    BY <1>1, <1>2, <1>5, <1>7, ChecksHold
  <2> QED BY <2>1, <2>2
<1> QED BY <1>6, <1>7

\* So does a change of the size, unless it is to become negative.
LEMMA SetAttrHolds ==
    ASSUME DInv, NEW n \in NewSizes, SetAttrSize(n)
    PROVE  \/ err' = "ABORT" /\ size' = size /\ blocks' = blocks /\ n < 0
           \/ /\ err' = "OK" /\ size' = n /\ n \in Nat
              /\ Holds(blocks', n, Extension(blocks, size, n))
<1>1. size \in Nat /\ WellFormed(blocks, size) /\ n \in Int
  BY NewSizesAssumption DEF DInv
<1>2. CASE n < 0
  BY <1>1, <1>2 DEF SetAttrSize
<1>3. CASE ~(n < 0)
  <2>1. blocks' = Resized(blocks, size, n) /\ size' = n /\ err' = "OK" /\ n \in Nat
    BY <1>1, <1>3 DEF SetAttrSize
  <2>2. Holds(Resized(blocks, size, n), n, Extension(blocks, size, n))
    BY <1>1, <2>1, ResizedHolds
  <2> QED BY <2>1, <2>2
<1> QED BY <1>2, <1>3

LEMMA InitHasDInv == Init => DInv
<1> SUFFICES ASSUME Init PROVE DInv
  OBVIOUS
<1>1. size = 0 /\ err = "OK" /\ DOMAIN blocks = {}
  BY DEF Init
<1>2. ASSUME NEW i \in Nat
      PROVE  ~(i * BlockSize < 0)
  BY BlockSizeAssumption, SMT
<1>3. Holds(blocks, 0, blocks)
  BY <1>1, <1>2, RowsHold
<1> QED BY <1>1, <1>3 DEF DInv, Holds

LEMMA NextKeepsDInv == DInv /\ [Next]_vars => DInv'
<1> SUFFICES ASSUME DInv, [Next]_vars PROVE DInv'
  OBVIOUS
<1>1. ASSUME NEW off \in 0..MaxSize, NEW buf \in Buffers, Write(off, buf)
      PROVE  DInv'
  <2>1. off \in Nat
    BY MaxSizeAssumption
  <2> QED BY <1>1, <2>1, WriteHolds DEF DInv, Holds
<1>2. ASSUME NEW n \in NewSizes, SetAttrSize(n)
      PROVE  DInv'
  BY <1>2, SetAttrHolds DEF DInv, Holds
<1>3. CASE Fail
  BY <1>3 DEF Fail, DInv
<1>4. CASE UNCHANGED vars
  BY <1>4 DEF vars, DInv
<1> QED BY <1>1, <1>2, <1>3, <1>4 DEF Next

\* No write, extension or truncation leaves a row missing, too many, or of the
\* wrong length, or a byte of one not set, for blocks and files of any size.
THEOREM DataInvariance == Spec => []DInv
  BY InitHasDInv, NextKeepsDInv, PTL DEF Spec
-----------------------------------------------------------------------------
(* What the run checks                                                        *)

LEMMA ContentsAre ==
    DInv => /\ Contents \in Seq(Nat) /\ Len(Contents) = size
            /\ \A k \in 1..size : Contents[k] = Byte(blocks, k - 1)
<1> SUFFICES ASSUME DInv
             PROVE  /\ Contents \in Seq(Nat) /\ Len(Contents) = size
                    /\ \A k \in 1..size : Contents[k] = Byte(blocks, k - 1)
  OBVIOUS
<1>1. size \in Nat /\ WellFormed(blocks, size)
  BY DEF DInv
<1>2. ASSUME NEW k \in 1..size
      PROVE  ByteAt(k - 1) = Byte(blocks, k - 1) /\ Byte(blocks, k - 1) \in Nat
  <2> DEFINE p == k - 1
             q == p \div BlockSize
             r == (p % BlockSize) + 1
  <2>1. p \in Nat /\ p < size
    BY <1>1
  <2>2. q \in DOMAIN blocks /\ r \in 1..Len(blocks[q]) /\ Byte(blocks, p) \in Nat
    <3> HIDE DEF p
    <3> QED BY <1>1, <2>1, ByteIn
  <2>3. ByteAt(p) = IF q \in DOMAIN blocks THEN IF r <= Len(blocks[q]) THEN blocks[q][r]
                                                ELSE Garbage
                    ELSE Garbage
    BY DEF ByteAt
  <2>4. Byte(blocks, p) = blocks[q][r]
    BY DEF Byte
  <2>5. r <= Len(blocks[q])
    <3> HIDE DEF q, r
    <3>1. blocks[q] \in Seq(Nat)
      BY <1>1, <2>2 DEF WellFormed
    <3> QED BY <2>2, <3>1
  <2> HIDE DEF p, q, r
  <2> QED BY <2>2, <2>3, <2>4, <2>5 DEF p
<1>3. Contents = [k \in 1..size |-> ByteAt(k - 1)]
  BY DEF Contents
<1> DEFINE c == [k \in 1..size |-> ByteAt(k - 1)]
<1>4. \A k \in 1..size : c[k] = Byte(blocks, k - 1) /\ c[k] \in Nat
  BY <1>2
<1>5. c = [k \in 1..size |-> c[k]]
  OBVIOUS
<1> HIDE DEF c
<1>6. c \in Seq(Nat) /\ Len(c) = size
  BY <1>1, <1>4, <1>5
<1> QED BY <1>3, <1>4, <1>6 DEF c

\* "The first floor(size / blksize) rows contain blksize bytes each", one more
\* has the rest, and there is no other (sqlfs_schema.h): any sequence of writes
\* and truncations (sqlfs_write, resize_filedata) leaves it so.
THEOREM BlocksMatch == Spec => []BlocksMatchSize
<1>1. DInv => BlocksMatchSize
  BY DEF DInv, WellFormed, BlocksMatchSize
<1> QED BY <1>1, DataInvariance, PTL

\* What a file holds, as a part of it is asked for.
LEMMA ReadIsContents ==
    ASSUME DInv, NEW off \in Nat, NEW n \in Nat
    PROVE  ReadFile(off, n) = SubSeq(Contents, off + 1, Smaller(off + n, size))
<1> DEFINE m == ReadLength(off, n)
           last == Smaller(off + n, size)
<1>1. size \in Nat /\ WellFormed(blocks, size)
  BY DEF DInv
<1>2. /\ m \in Nat /\ last \in Int
      /\ m = 0 => last < off + 1
      /\ m # 0 => off + m = last /\ last <= size
  BY <1>1 DEF ReadLength, Smaller, Larger
<1>3. ReadFile(off, n) = IF m = 0 THEN <<>>
                         ELSE IF CanRead(blocks, off, m) THEN ReadBytes(blocks, off, m)
                         ELSE <<Garbage>>
  BY DEF ReadFile
<1> HIDE DEF m, last
<1>4. CASE m = 0
  <2>1. SubSeq(Contents, off + 1, last) = <<>>
    BY <1>2, <1>4, SubSeqEmpty
  <2> QED BY <1>3, <1>4, <2>1 DEF last
<1>5. CASE m # 0
  <2> DEFINE read == ReadBytes(blocks, off, m)
             part == SubSeq(Contents, off + 1, last)
  <2>1. off + m = last /\ last <= size
    BY <1>2, <1>5
  <2>2. CanRead(blocks, off, m) /\ ReadGets(blocks, off, m)
    BY <1>1, <1>2, <2>1, ReadsSucceed
  <2>3. ASSUME NEW k \in (off + 1)..last
        PROVE  Contents[k] \in Nat
    <3>1. Contents \in Seq(Nat) /\ Len(Contents) = size
      BY ContentsAre
    <3>2. k \in 1..size
      BY <1>1, <1>2, <2>1
    <3> QED BY <3>1, <3>2
  <2>4. /\ part \in Seq(Nat)
        /\ Len(part) = IF off + 1 <= last THEN last - (off + 1) + 1 ELSE 0
        /\ \A k \in 1..(last - (off + 1) + 1) : part[k] = Contents[off + 1 + k - 1]
    <3>1. off + 1 \in Int
      OBVIOUS
    <3> QED BY <1>2, <2>3, <3>1, SubSeqProperties
  <2>5. read \in Seq(Nat) /\ Len(read) = m
        /\ \A k \in 1..m : read[k] = Byte(blocks, off + k - 1)
    BY <2>2 DEF ReadGets
  <2> HIDE DEF read, part
  <2>6. Len(part) = m /\ last - (off + 1) + 1 = m
    BY <1>2, <1>5, <2>1, <2>4
  <2>7. ASSUME NEW k \in 1..m
        PROVE  read[k] = part[k]
    <3>1. off + k \in 1..size /\ off + 1 + k - 1 = off + k
      BY <1>1, <1>2, <2>1
    <3>2. part[k] = Contents[off + k]
      BY <2>4, <2>6, <3>1
    <3>3. Contents[off + k] = Byte(blocks, off + k - 1)
      BY <3>1, ContentsAre
    <3> QED BY <2>5, <3>2, <3>3
  <2>8. read = part
    BY <2>4, <2>5, <2>6, <2>7, SeqEqual
  <2> QED BY <1>3, <1>5, <2>2, <2>8 DEF read, part, last
<1> QED BY <1>4, <1>5

\* sqlfs_read returns the bytes of the range that are in the file, wherever the
\* range begins and ends, and its EIO for a row that is missing or too short
\* (sql_read_filedata) never happens.
THEOREM ReadsAreContents == Spec => []ReadsReturnContents
<1>1. DInv => ReadsReturnContents
  <2>1. \A n \in 0..(MaxSize + 1) : n \in Nat
    BY MaxSizeAssumption
  <2> QED BY <2>1, ReadIsContents DEF ReadsReturnContents
<1> QED BY <1>1, DataInvariance, PTL
\* What the kernel asks: no negative size, no write without bytes. The run of
\* MCFileDataUnchecked shows what either would do.
KernelAsks == NewSizes \subseteq 0..MaxSize /\ <<>> \notin Buffers

\* No CHECK of sqlfs_write or resize_filedata fails, and no memcpy() runs over
\* temp_block, wherever in a block or file a write begins and ends.
THEOREM WritesNeverAbort ==
    ASSUME KernelAsks
    PROVE  Spec => []NeverAborts
<1>1. Init => NeverAborts
  BY DEF Init, NeverAborts
<1>2. DInv /\ NeverAborts /\ [Next]_vars => NeverAborts'
  <2> SUFFICES ASSUME DInv, NeverAborts, [Next]_vars PROVE NeverAborts'
    OBVIOUS
  <2>1. ASSUME NEW off \in 0..MaxSize, NEW buf \in Buffers, Write(off, buf)
        PROVE  NeverAborts'
    <3>1. off \in Nat
      BY MaxSizeAssumption
    <3>2. Len(buf) > 0
      BY BuffersAre DEF KernelAsks
    <3> QED BY <2>1, <3>1, <3>2, WriteHolds DEF NeverAborts
  <2>2. ASSUME NEW n \in NewSizes, SetAttrSize(n)
        PROVE  NeverAborts'
    <3>1. ~(n < 0)
      BY MaxSizeAssumption DEF KernelAsks
    <3> QED BY <2>2, <3>1, SetAttrHolds DEF NeverAborts
  <2>3. CASE Fail
    BY <2>3 DEF Fail, NeverAborts
  <2>4. CASE UNCHANGED vars
    BY <2>4 DEF vars, NeverAborts
  <2> QED BY <2>1, <2>2, <2>3, <2>4 DEF Next
<1> QED BY <1>1, <1>2, DataInvariance, PTL DEF Spec

\* Type correctness: rows have numbers from 0, at least one byte and no more
\* than blksize. The bound on the size is that of the calls.
THEOREM DataTypeCorrect ==
    ASSUME \A n \in NewSizes : n <= MaxSize
    PROVE  Spec => []TypeOK
<1> DEFINE Bounded == size <= MaxSize
<1>1. Init => Bounded
  BY MaxSizeAssumption DEF Init
<1>2. DInv /\ Bounded /\ [Next]_vars => Bounded'
  <2> SUFFICES ASSUME DInv, Bounded, [Next]_vars PROVE Bounded'
    OBVIOUS
  <2>1. ASSUME NEW off \in 0..MaxSize, NEW buf \in Buffers,
               off + Len(buf) <= MaxSize, Write(off, buf)
        PROVE  Bounded'
    <3>1. off \in Nat
      BY MaxSizeAssumption
    <3>2. size' = size \/ size' = Larger(off + Len(buf), size)
      BY <2>1, <3>1, WriteHolds
    <3> QED BY <2>1, <3>2 DEF Larger
  <2>2. ASSUME NEW n \in NewSizes, SetAttrSize(n)
        PROVE  Bounded'
    <3>1. size' = size \/ size' = n
      BY <2>2, SetAttrHolds
    <3> QED BY <3>1
  <2>3. CASE Fail
    BY <2>3 DEF Fail
  <2>4. CASE UNCHANGED vars
    BY <2>4 DEF vars
  <2> QED BY <2>1, <2>2, <2>3, <2>4 DEF Next
<1>3. DInv /\ Bounded => TypeOK
  <2> SUFFICES ASSUME DInv, Bounded PROVE TypeOK
    OBVIOUS
  <2>1. size \in Nat /\ WellFormed(blocks, size)
    BY DEF DInv
  <2>2. size \in 0..MaxSize
    BY <2>1, MaxSizeAssumption
  <2>3. ASSUME NEW i \in DOMAIN blocks
        PROVE  /\ i \in Nat
               /\ Len(blocks[i]) \in 1..BlockSize
               /\ \A k \in 1..Len(blocks[i]) : blocks[i][k] \in Nat \cup {Garbage}
    <3>1. i \in Nat /\ Start(i) < size
      BY <2>1, Domains DEF Start
    <3>2. Start(i) \in Nat /\ BlockSize \in Nat /\ BlockSize > 0
      BY <3>1, Starts
    <3>3. blocks[i] \in Seq(Nat) /\ Len(blocks[i]) = Smaller(BlockSize, size - Start(i))
      BY <2>1 DEF WellFormed, Start
    <3>4. Len(blocks[i]) \in 1..BlockSize
      BY <2>1, <3>1, <3>2, <3>3 DEF Smaller
    <3> QED BY <3>1, <3>3, <3>4
  <2> QED BY <2>2, <2>3 DEF TypeOK, DInv
<1> QED BY <1>1, <1>2, <1>3, DataInvariance, PTL DEF Spec

-----------------------------------------------------------------------------
(* FileData implements FileBytes                                              *)

LEMMA ContentsAreNext ==
    (DInv => \A k \in 1..size : Contents[k] = Byte(blocks, k - 1))'
<1>1. DInv => \A k \in 1..size : Contents[k] = Byte(blocks, k - 1)
  BY ContentsAre
<1> QED BY <1>1, PTL

LEMMA OneBefore ==
    ASSUME NEW n \in Nat, NEW k \in 1..n
    PROVE  k - 1 \in 0..(n - 1)
  OBVIOUS

\* What a client sees after a step that leaves f in the rows.
LEMMA ContentsBecome ==
    ASSUME DInv', NEW f, Holds(blocks', size', f)
    PROVE  /\ Contents' = [k \in 1..size' |-> Contents'[k]]
           /\ \A k \in 1..size' : Contents'[k] = f[k - 1]
<1>1. Contents' = [k \in 1..size' |-> ByteAt(k - 1)']
  BY DEF Contents
<1>2. \A k \in 1..size' : Contents'[k] = Byte(blocks', k - 1)
  BY ContentsAreNext DEF Byte
<1>3. size' \in Nat
  BY DEF DInv
<1>4. ASSUME NEW k \in 1..size'
      PROVE  Contents'[k] = f[k - 1]
  <2>1. k - 1 \in 0..(size' - 1)
    BY <1>3, OneBefore
  <2> QED BY <1>2, <2>1 DEF Holds
<1> QED BY <1>1, <1>4

LEMMA WriteOfBytes ==
    ASSUME DInv, DInv', NEW off \in 0..MaxSize, NEW buf \in Buffers, Len(buf) > 0,
           Write(off, buf)
    PROVE  Bytes!Write(off, buf)
<1> DEFINE f == WrittenTo(blocks, size, off, buf, size')
           L == Len(buf)
<1>1. off \in Nat /\ L \in Nat /\ size \in Nat
  BY MaxSizeAssumption, BuffersAre DEF DInv
<1>2. /\ err' = "OK" /\ size' = Larger(off + L, size) /\ size' \in Nat
      /\ Holds(blocks', size', f)
  BY <1>1, WriteHolds
<1>3. /\ Contents' = [k \in 1..size' |-> Contents'[k]]
      /\ \A k \in 1..size' : Contents'[k] = f[k - 1]
  BY <1>2, ContentsBecome
<1>4. /\ Contents \in Seq(Nat) /\ Len(Contents) = size
      /\ \A k \in 1..size : Contents[k] = Byte(blocks, k - 1)
  BY ContentsAre
<1>5. size' = Bytes!Longer(Len(Contents), off + L)
  BY <1>1, <1>2, <1>4 DEF Larger, Bytes!Longer
<1>6. ASSUME NEW k \in 1..size'
      PROVE  Contents'[k] = IF off < k /\ k <= off + L THEN buf[k - off]
                            ELSE IF k <= Len(Contents) THEN Contents[k] ELSE 0
  <2>1. k - 1 \in 0..(size' - 1) /\ k \in Nat /\ k >= 1
    BY <1>2
  <2>2. f[k - 1] = IF InBuf(k - 1, off, buf) THEN buf[k - 1 - off + 1]
                   ELSE IF k - 1 < size THEN Byte(blocks, k - 1) ELSE 0
    BY <2>1 DEF WrittenTo
  <2>3. /\ InBuf(k - 1, off, buf) <=> off < k /\ k <= off + L
        /\ k - 1 - off + 1 = k - off
        /\ k - 1 < size <=> k <= size
    BY <1>1, <2>1 DEF InBuf
  <2>4. k <= size => Contents[k] = Byte(blocks, k - 1)
    BY <1>1, <1>4, <2>1
  <2> QED BY <1>3, <1>4, <2>2, <2>3, <2>4
<1>7. Contents' = [k \in 1..size' |->
                     IF off < k /\ k <= off + L THEN buf[k - off]
                     ELSE IF k <= Len(Contents) THEN Contents[k] ELSE 0]
  BY <1>3, <1>6
<1> QED BY <1>2, <1>5, <1>7 DEF Bytes!Write

LEMMA SetAttrOfBytes ==
    ASSUME DInv, DInv', NEW n \in NewSizes, n \in Nat, SetAttrSize(n)
    PROVE  Bytes!Truncate(n)
<1> DEFINE f == Extension(blocks, size, n)
<1>1. size \in Nat /\ n \in Nat
  BY DEF DInv
<1>2. err' = "OK" /\ size' = n /\ Holds(blocks', n, f)
  BY <1>1, SetAttrHolds
<1>3. /\ Contents' = [k \in 1..n |-> Contents'[k]]
      /\ \A k \in 1..n : Contents'[k] = f[k - 1]
  BY <1>2, ContentsBecome
<1>4. /\ Len(Contents) = size
      /\ \A k \in 1..size : Contents[k] = Byte(blocks, k - 1)
  BY ContentsAre
<1>5. ASSUME NEW k \in 1..n
      PROVE  Contents'[k] = IF k <= Len(Contents) THEN Contents[k] ELSE 0
  <2>1. k - 1 \in 0..(n - 1) /\ k \in Nat /\ k >= 1 /\ (k - 1 < size <=> k <= size)
    BY <1>1
  <2>2. f[k - 1] = IF k - 1 < size THEN Byte(blocks, k - 1) ELSE 0
    BY <2>1 DEF Extension
  <2>3. k <= size => Contents[k] = Byte(blocks, k - 1)
    BY <1>1, <1>4, <2>1
  <2> QED BY <1>3, <1>4, <2>1, <2>2, <2>3
<1>6. Contents' = [k \in 1..n |-> IF k <= Len(Contents) THEN Contents[k] ELSE 0]
  BY <1>3, <1>5
<1> QED BY <1>2, <1>6 DEF Bytes!Truncate

\* To a client a file is a sequence of bytes (FileBytes): every write and every
\* change of the size, across any blocks and gaps, does to it what sqlfs.h says.
THEOREM BlocksImplementBytes ==
    ASSUME KernelAsks
    PROVE  Spec => ImplementsBytes
<1>1. Init => Bytes!Init
  <2> SUFFICES ASSUME Init PROVE Bytes!Init
    OBVIOUS
  <2>1. DInv /\ size = 0 /\ err = "OK"
    BY InitHasDInv DEF Init
  <2>2. Contents \in Seq(Nat) /\ Len(Contents) = 0
    BY <2>1, ContentsAre
  <2>3. Contents = <<>>
    BY <2>2, EmptySeq
  <2> QED BY <2>1, <2>3 DEF Bytes!Init
<1>2. DInv /\ DInv' /\ [Next]_vars => [Bytes!Next]_(Bytes!vars)
  <2> SUFFICES ASSUME DInv, DInv', [Next]_vars
               PROVE  [Bytes!Next]_(Bytes!vars)
    OBVIOUS
  <2>1. ASSUME NEW off \in 0..MaxSize, NEW buf \in Buffers, Write(off, buf)
        PROVE  Bytes!Next
    <3>1. Len(buf) > 0
      BY BuffersAre DEF KernelAsks
    <3>2. Bytes!Write(off, buf)
      BY <2>1, <3>1, WriteOfBytes
    <3> QED BY <3>2 DEF Bytes!Next
  <2>2. ASSUME NEW n \in NewSizes, SetAttrSize(n)
        PROVE  Bytes!Next
    <3>1. n \in 0..MaxSize /\ n \in Nat
      BY MaxSizeAssumption DEF KernelAsks
    <3>2. Bytes!Truncate(n)
      BY <2>2, <3>1, SetAttrOfBytes
    <3> QED BY <3>1, <3>2 DEF Bytes!Next
  <2>3. CASE Fail
    <3>1. err' = "EIO" /\ UNCHANGED <<size, blocks>>
      BY <2>3 DEF Fail
    <3>2. Contents' = Contents
      BY <3>1 DEF Contents, ByteAt
    <3> QED BY <3>1, <3>2 DEF Bytes!Next, Bytes!Fail
  <2>4. CASE UNCHANGED vars
    <3>1. UNCHANGED <<size, blocks, err>>
      BY <2>4 DEF vars
    <3>2. Contents' = Contents
      BY <3>1 DEF Contents, ByteAt
    <3> QED BY <3>1, <3>2 DEF Bytes!vars
  <2> QED BY <2>1, <2>2, <2>3, <2>4 DEF Next
<1>3. Spec => []DInv
  BY DataInvariance
<1> QED BY <1>1, <1>2, <1>3, PTL DEF Spec, ImplementsBytes, Bytes!Spec
=============================================================================
