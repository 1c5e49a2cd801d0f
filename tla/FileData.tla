------------------------------ MODULE FileData ------------------------------
(***************************************************************************)
(* The contents of one file in the filedata table of sqlfs.c: blocks of    *)
(* BlockSize bytes, the last one shorter, read and written by sqlfs_read,  *)
(* sqlfs_write and sqlfs_set_attr. Each call is a transaction.             *)
(***************************************************************************)
EXTENDS Integers, Sequences, FiniteSets, FiniteSetsExt

CONSTANTS
    BlockSize,  \* the blksize column of the file
    MaxSize,    \* bound on the size of the file
    Buffers,    \* what sqlfs_write may be given
    NewSizes    \* the st_size sqlfs_set_attr may be given

ASSUME BlockSizeAssumption == BlockSize \in Nat \ {0}
ASSUME MaxSizeAssumption == MaxSize \in Nat
ASSUME BuffersAssumption == \A b \in Buffers : b \in Seq(Nat)
ASSUME NewSizesAssumption == NewSizes \subseteq Int

VARIABLES
    size,       \* the size column
    blocks,     \* filedata rows: idx -> bytes
    err         \* what the last call returned

vars == <<size, blocks, err>>

Garbage == -1   \* a byte the code did not set

Smaller(j, k) == IF j < k THEN j ELSE k
Larger(j, k) == IF j > k THEN j ELSE k

BlockCount(n) == (n + BlockSize - 1) \div BlockSize
Zeroes(n) == [k \in 1..n |-> 0]

-----------------------------------------------------------------------------
(* Blocks *)

\* sql_read_filedata(): every block of the range must be there and reach to the
\* end of its part of the range.
CanRead(bl, off, n) ==
    \A i \in (off \div BlockSize)..(BlockCount(off + n) - 1) :
        /\ i \in DOMAIN bl
        /\ Len(bl[i]) >= Smaller(off + n - i * BlockSize, BlockSize)

ReadBytes(bl, off, n) ==
    [k \in 1..n |-> LET p == off + k - 1
                    IN  bl[p \div BlockSize][(p % BlockSize) + 1]]

\* sql_update_filedata() for every block of new
Replace(bl, new) ==
    [i \in DOMAIN bl \cup DOMAIN new |->
        IF i \in DOMAIN new THEN new[i] ELSE bl[i]]

\* resize_filedata() to a larger size: the block the old size ends in is padded,
\* and blocks of zeroes follow.
Extended(bl, from, to) ==
    LET first == from \div BlockSize
        last == BlockCount(to) - 1
        old(i) == IF i = first THEN ReadBytes(bl, i * BlockSize, from % BlockSize)
                               ELSE <<>>
        length(i) == Smaller(to - i * BlockSize, BlockSize)
    IN  Replace(bl, [i \in first..last |->
                        old(i) \o Zeroes(length(i) - Len(old(i)))])

\* The blocks not deleted, and the one the new size ends in, cut there.
KeptBlocks(bl, to) == [i \in {j \in DOMAIN bl : j < BlockCount(to)} |-> bl[i]]
LastBlock(bl, to) ==
    [i \in {to \div BlockSize} |-> ReadBytes(bl, i * BlockSize, to % BlockSize)]

\* Variant: the blocks after the new end stay.
Truncated_KeepExcess(bl, to) ==
    IF to % BlockSize = 0 THEN bl ELSE Replace(bl, LastBlock(bl, to))

\* Variant: a block without bytes is written at a block boundary.
Truncated_EmptyBlock(bl, to) ==
    Replace(KeptBlocks(bl, to), LastBlock(bl, to))

\* resize_filedata() to a smaller size: excess blocks are deleted, and the block
\* the new size ends in is cut.
Truncated(bl, to) ==
    IF to % BlockSize = 0 THEN KeptBlocks(bl, to)
    ELSE Replace(KeptBlocks(bl, to), LastBlock(bl, to))

Resized(bl, from, to) ==
    IF from = to THEN bl
    ELSE IF from < to THEN Extended(bl, from, to) ELSE Truncated(bl, to)

-----------------------------------------------------------------------------
(* sqlfs_read *)

\* Variant: a read does not stop at the end of the file.
ReadLength_NoClip(off, n) == n

\* How many bytes a read returns.
ReadLength(off, n) == Larger(0, Smaller(n, size - off))

ReadFile(off, n) ==
    LET m == ReadLength(off, n)
    IN  IF m = 0 THEN <<>>
        ELSE IF CanRead(blocks, off, m) THEN ReadBytes(blocks, off, m)
        ELSE <<Garbage>>        \* EIO

-----------------------------------------------------------------------------
(* sqlfs_write. BlocksMatchSize gives every internal read of write and resize *)
(* the bytes it asks for, so that their EIO on a short blob never happens.     *)

\* Variant: the loop runs once more when the write ends on a block boundary.
Chunks_OneMore(off, buf) ==
    {i \in (off \div BlockSize)..(off + Len(buf)) : i * BlockSize <= off + Len(buf)}

\* The loop over the chunks of a write of buf at off, to a file that has sz
\* bytes in the blocks bl (already extended to off), and newSize afterwards.
Chunks(off, buf) ==
    {i \in (off \div BlockSize)..(off + Len(buf)) : i * BlockSize < off + Len(buf)}

ChunkSize(i, newSize) == Smaller(newSize - i * BlockSize, BlockSize)

\* The chunk lies within buf.
Easy(i, off, buf, newSize) ==
    /\ i * BlockSize >= off
    /\ i * BlockSize + ChunkSize(i, newSize) <= off + Len(buf)

\* Where in temp_block the bytes of buf go, from where, and how many.
CopyTo(i, off) == Larger(0, off - i * BlockSize)
CopyFrom(i, off) == Larger(0, i * BlockSize - off)
CopyCount(i, off, buf) ==
    IF i * BlockSize < off
    THEN Smaller(BlockSize - CopyTo(i, off), Len(buf))
    ELSE Smaller(BlockSize, Len(buf) - CopyFrom(i, off))

BytesToRead(i, sz, newSize) ==
    Smaller(ChunkSize(i, newSize), sz - i * BlockSize)

\* Old bytes, overwritten by bytes of buf.
MixedChunk(bl, i, off, buf, sz, newSize) ==
    LET old == ReadBytes(bl, i * BlockSize, BytesToRead(i, sz, newSize))
        to == CopyTo(i, off)
    IN  [k \in 1..ChunkSize(i, newSize) |->
            IF to < k /\ k <= to + CopyCount(i, off, buf)
            THEN buf[CopyFrom(i, off) + k - to]
            ELSE IF k <= Len(old) THEN old[k] ELSE Garbage]

\* The CHECKs in the loop, and what malloc() and memcpy() rely on: temp_block,
\* as large as the first mixed chunk, holds every later one and what is copied.
WriteChecks(off, buf, sz, newSize) ==
    LET mixed == {i \in Chunks(off, buf) : ~Easy(i, off, buf, newSize)}
    IN  /\ \A i \in Chunks(off, buf) : ChunkSize(i, newSize) > 0
        /\ \A i \in mixed :
            /\ BytesToRead(i, sz, newSize) > 0
            /\ CopyCount(i, off, buf) > 0
            /\ CopyCount(i, off, buf) <= ChunkSize(i, newSize)
            /\ CopyTo(i, off) + CopyCount(i, off, buf)
                    <= ChunkSize(Min(mixed), newSize)
            /\ ChunkSize(i, newSize) <= ChunkSize(Min(mixed), newSize)

\* Variant: the write decides how far a chunk extends, not the size of the file.
NewSize_Written(off, buf) == off + Len(buf)

NewSize(off, buf) == Larger(off + Len(buf), size)

Write(off, buf) ==
    LET newSize == NewSize(off, buf)
        gap == off > size
        bl == IF gap THEN Resized(blocks, size, off) ELSE blocks
        sz == IF gap THEN off ELSE size
        chunk(i) == IF Easy(i, off, buf, newSize)
                    THEN [k \in 1..ChunkSize(i, newSize) |->
                            buf[CopyFrom(i, off) + k]]
                    ELSE MixedChunk(bl, i, off, buf, sz, newSize)
    IN  IF WriteChecks(off, buf, sz, newSize)
        THEN /\ blocks' = Replace(bl, [i \in Chunks(off, buf) |-> chunk(i)])
             /\ size' = newSize
             /\ err' = "OK"
        ELSE err' = "ABORT" /\ UNCHANGED <<size, blocks>>

-----------------------------------------------------------------------------
(* sqlfs_set_attr with SQLFS_SET_ATTR_SIZE. What is compared with zero is the  *)
(* size the file has; resize_filedata() has a CHECK on the new one.            *)
SetAttrSize(n) ==
    IF size < 0 THEN err' = "EINVAL" /\ UNCHANGED <<size, blocks>>
    ELSE IF n < 0 THEN err' = "ABORT" /\ UNCHANGED <<size, blocks>>
    ELSE /\ blocks' = Resized(blocks, size, n)
         /\ size' = n
         /\ err' = "OK"

\* A statement or an allocation fails; the transaction is rolled back.
Fail == err' = "EIO" /\ UNCHANGED <<size, blocks>>

Init == size = 0 /\ blocks = [i \in {} |-> <<>>] /\ err = "OK"

Next ==
    \/ \E off \in 0..MaxSize, buf \in Buffers :
         off + Len(buf) <= MaxSize /\ Write(off, buf)
    \/ \E n \in NewSizes : SetAttrSize(n)
    \/ Fail

Spec == Init /\ [][Next]_vars

-----------------------------------------------------------------------------
(* Properties *)

TypeOK ==
    /\ size \in 0..MaxSize
    /\ \A i \in DOMAIN blocks :
        /\ i \in Nat
        /\ Len(blocks[i]) \in 1..BlockSize
        /\ \A k \in 1..Len(blocks[i]) : blocks[i][k] \in Nat \cup {Garbage}
    /\ err \in {"OK", "EIO", "EINVAL", "ABORT"}

\* "The first floor(size / blksize) rows contain blksize bytes each", one more
\* row has the rest, and no other row exists (sqlfs_schema.h): no matter which
\* writes and truncations came before.
BlocksMatchSize ==
    /\ DOMAIN blocks = 0..(BlockCount(size) - 1)
    /\ \A i \in DOMAIN blocks :
         Len(blocks[i]) = Smaller(BlockSize, size - i * BlockSize)

\* The bytes of the file, as a client sees them.
ByteAt(p) ==
    LET i == p \div BlockSize
        k == (p % BlockSize) + 1
    IN  IF i \in DOMAIN blocks THEN IF k <= Len(blocks[i]) THEN blocks[i][k]
                                    ELSE Garbage
        ELSE Garbage

Contents == [p \in 1..size |-> ByteAt(p - 1)]

\* sqlfs_read returns exactly the bytes of the range that are in the file, for
\* every range, and never fails on a file these calls have made.
ReadsReturnContents ==
    \A off \in 0..(MaxSize + 1), n \in 0..(MaxSize + 1) :
        ReadFile(off, n) = SubSeq(Contents, off + 1, Smaller(off + n, size))

\* The arithmetic on offsets never fails a CHECK and never runs over temp_block.
NeverAborts == err # "ABORT"

\* Blocks make no difference to a client.
Bytes == INSTANCE FileBytes WITH content <- Contents
ImplementsBytes == Bytes!Spec
=============================================================================
