---------------------------- MODULE MCFileData ----------------------------
EXTENDS FileData, Times

CONSTANT MaxLength

\* Buffers of every length, in which neighbouring bytes differ.
MCBuffers == {[k \in 1..n |-> 1 + (k % 2)] : n \in 1..MaxLength}
MCBuffersAndEmpty == MCBuffers \cup {<<>>}

MCSizes == 0..MaxSize
MCSizesAndNegative == -1..MaxSize

\* The conversions of times, on a range of 30 numbers and seconds of 4 parts.
ASSUME NoOverflow /\ TimespecIsNormal /\ OrderIsKept
ASSUME ExactFromLastWholeSecond /\ TimesAreKept
=============================================================================
