----------------------------- MODULE MCSqlfuse -----------------------------
EXTENDS Sqlfuse, TLC

CONSTANTS a, b

MCNames == {a, b}
NameSymmetry == Permutations(MCNames)
=============================================================================
